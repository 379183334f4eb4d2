---------------------------- MODULE Codec_proofs ----------------------------
(* Proofs about the encoding of connections, for texts of any length and     *)
(* arrays of any size that the code's own sizes are examples of.             *)
EXTENDS Codec, TLAPS, NaturalsInduction, WellFoundedInduction

-----------------------------------------------------------------------------
(* Induction over the places of a sequence, and the runs of the model.       *)

\* A set of numbers has a least one.
LEMMA Least ==
  ASSUME NEW T \in SUBSET Nat, T # {}
  PROVE  \E x \in T : \A y \in T : x <= y
<1> DEFINE R == OpToRel(<, Nat)
<1>1. IsWellFoundedOn(R, Nat)
  BY NatLessThanWellFounded
<1>2. \A x, y \in Nat : y < x => <<y, x>> \in R
  BY DEF OpToRel
<1> HIDE DEF R
<1>3. PICK x \in T : \A y \in T : ~(<<y, x>> \in R)
  BY <1>1, WFMin, Zenon
<1>4. ASSUME NEW y \in T PROVE x <= y
  <2>1. x \in Nat /\ y \in Nat /\ ~(<<y, x>> \in R)
    BY <1>3
  <2>2. ~(y < x)
    BY <1>2, <2>1, Zenon
  <2>3. QED
    BY <2>1, <2>2
<1>5. QED
  BY <1>4

\* Induction up to N, for what a set says.
LEMMA Upto ==
  ASSUME NEW N \in Nat, NEW T, 0 \in T,
         \A n \in 1 .. N : n - 1 \in T => n \in T
  PROVE  \A n \in 0 .. N : n \in T
<1> DEFINE Bad == {n \in 0 .. N : n \notin T}
<1>1. SUFFICES ASSUME Bad # {} PROVE FALSE
  OBVIOUS
<1>2. PICK n \in Bad : \A m \in Bad : n <= m
  <2>1. Bad \in SUBSET Nat
    OBVIOUS
  <2> HIDE DEF Bad
  <2>2. QED
    BY <1>1, <2>1, Least
<1>3. n \in 1 .. N
  BY <1>2
<1>4. n - 1 \in T
  BY <1>2, <1>3
<1>5. QED
  BY <1>2, <1>3, <1>4

\* h goes through the states of g over the elements of s, from b.
IsRun(S, b, s, g, h) ==
    /\ h \in [0 .. Len(s) -> S]
    /\ h[0] = b
    /\ \A i \in 1 .. Len(s) : h[i] = g[h[i - 1]][s[i]]

\* There is such a run: the recursive functions of the model, whose domains
\* are the places of a sequence, have the values their equations give.
LEMMA Runs ==
  ASSUME NEW S, NEW C, NEW b \in S, NEW s \in Seq(C), NEW g \in [S -> [C -> S]]
  PROVE  \E h : IsRun(S, b, s, g, h)
<1> DEFINE Run(n, h) == /\ h \in [0 .. n -> S]
                        /\ h[0] = b
                        /\ \A i \in 1 .. n : h[i] = g[h[i - 1]][s[i]]
           T == {n \in 0 .. Len(s) : \E h : Run(n, h)}
<1>1. 0 \in T
  <2>1. Run(0, [i \in 0 .. 0 |-> b])
    OBVIOUS
  <2>2. 0 \in 0 .. Len(s)
    OBVIOUS
  <2> HIDE DEF Run
  <2>3. QED
    BY <2>1, <2>2
<1>2. ASSUME NEW n \in 1 .. Len(s), n - 1 \in T PROVE n \in T
  <2>1. PICK h : Run(n - 1, h)
    <3> HIDE DEF Run
    <3>1. QED
      BY <1>2
  <2> DEFINE x == g[h[n - 1]][s[n]]
             k == [i \in 0 .. n |-> IF i = n THEN x ELSE h[i]]
  <2>2. x \in S
    <3>1. h[n - 1] \in S /\ s[n] \in C
      BY <2>1
    <3>2. QED
      BY <3>1
  <2> HIDE DEF x
  <2>3. k \in [0 .. n -> S]
    BY <2>1, <2>2
  <2>4. k[0] = b
    BY <2>1
  <2>5. ASSUME NEW i \in 1 .. n PROVE k[i] = g[k[i - 1]][s[i]]
    <3>1. k[i - 1] = h[i - 1]
      OBVIOUS
    <3>2. CASE i = n
      <4>1. k[i] = x
        BY <3>2
      <4>2. x = g[k[i - 1]][s[i]]
        BY <3>1, <3>2, Zenon DEF x
      <4>3. QED
        BY <4>1, <4>2
    <3>3. CASE i # n
      <4>1. i \in 1 .. n - 1 /\ k[i] = h[i]
        BY <3>3
      <4>2. QED
        BY <2>1, <3>1, <4>1
    <3>4. QED
      BY <3>2, <3>3
  <2>6. Run(n, k)
    BY <2>3, <2>4, <2>5
  <2> HIDE DEF Run, k
  <2>7. QED
    BY <2>6
<1>3. Len(s) \in T
  <2> HIDE DEF T
  <2>1. Len(s) \in Nat
    OBVIOUS
  <2>2. \A n \in 0 .. Len(s) : n \in T
    BY <1>1, <1>2, <2>1, Upto
  <2>3. QED
    BY <2>1, <2>2
<1>4. QED
  BY <1>3 DEF IsRun

\* w is s, and then t.
Joins(C, s, t, w) ==
    /\ w \in Seq(C)
    /\ Len(w) = Len(s) + Len(t)
    /\ \A i \in 1 .. Len(s) : w[i] = s[i]
    /\ \A i \in 1 .. Len(t) : w[Len(s) + i] = t[i]

\* A concatenation has its first part first, and then its second.
LEMMA Concat ==
  ASSUME NEW C, NEW s \in Seq(C), NEW t \in Seq(C)
  PROVE  Joins(C, s, t, s \o t)
  BY DEF Joins

-----------------------------------------------------------------------------
(* Each recursive function of the model follows the code's loop.             *)

\* A text in memory, and a file.
Text == Seq(Char)

\* What the loops keep from one character to the next.
EscapeState == [out : Seq(Char), full : BOOLEAN]
ReadState   == [out : Seq(Char), at : {"text", "slash", "end"}]
ScanState   == [found : Seq(Seq(Char)), object : Seq(Char), depth : Nat,
                at : {"seek", "object", "string", "slash", "end"}]

Escape0 == [out |-> <<>>, full |-> FALSE]
Read0   == [out |-> <<>>, at |-> "text"]
Scan0   == [found |-> <<>>, object |-> <<>>, depth |-> 0, at |-> "seek"]

\* The states the loops go through.
IsEscape(text, cap, e) ==
    /\ e \in [0 .. Len(text) -> EscapeState]
    /\ e[0] = Escape0
    /\ \A n \in 1 .. Len(text) : e[n] = EscapeNext(cap, e[n - 1], text[n])

IsMessage(text, e) ==
    /\ e \in [0 .. Len(text) -> Text]
    /\ e[0] = <<>>
    /\ \A n \in 1 .. Len(text) : e[n] = e[n - 1] \o MessageEscape(text[n])

IsValue(text, cap, e) ==
    /\ e \in [0 .. Len(text) -> ReadState]
    /\ e[0] = Read0
    /\ \A n \in 1 .. Len(text) : e[n] = ReadNext(cap, e[n - 1], text[n])

IsScan(file, cap, e) ==
    /\ e \in [0 .. Len(file) -> ScanState]
    /\ e[0] = Scan0
    /\ \A n \in 1 .. Len(file) : e[n] = ScanNext(cap, e[n - 1], file[n])

\* No two signs are the same.
LEMMA Signs ==
  /\ Quote \notin {Backslash, Newline, Open, Close, Colon, Comma, ListOpen,
                   ListClose, "n", "x", "protocol", "text"}
  /\ Backslash \notin {Newline, Open, Close, Colon, Comma, ListOpen, ListClose,
                       "n", "x", "protocol", "text"}
  /\ Newline \notin {Open, Close, Colon, Comma, ListOpen, ListClose, "n", "x",
                     "protocol", "text"}
  /\ Open \notin {Close, Colon, Comma, ListOpen, ListClose, "n", "x",
                  "protocol", "text"}
  /\ Close \notin {Colon, Comma, ListOpen, ListClose, "n", "x", "protocol",
                   "text"}
  /\ Colon \notin {Comma, ListOpen, ListClose, "n", "x", "protocol", "text"}
  /\ Comma \notin {ListOpen, ListClose, "n", "x", "protocol", "text"}
  /\ ListClose # ListOpen /\ "protocol" # "text"
  BY Zenon DEF Quote, Backslash, Newline, Colon, Open, Close, Comma, ListOpen,
               ListClose

\* The escape of a character is made of characters.
LEMMA EscapeType ==
  ASSUME NEW c \in Char
  PROVE  Escape(c) \in Seq(Char) /\ MessageEscape(c) \in Seq(Char)
<1>1. \A a, b \in Char : <<a>> \in Seq(Char) /\ <<a, b>> \in Seq(Char)
  OBVIOUS
<1>2. Backslash \in Char /\ "n" \in Char /\ "x" \in Char
  BY DEF Char
<1>3. <<Backslash, "x", "x", "x", "x", "x">> \in Seq(Char)
  BY <1>2
<1>4. Escape(c) \in Seq(Char)
  BY <1>1, <1>2, <1>3 DEF Escape
<1>5. QED
  BY <1>1, <1>2, <1>4 DEF MessageEscape

\* json_escape goes through its loop once for each character.
LEMMA EscapeRun ==
  ASSUME NEW text \in Seq(Char), NEW cap \in Nat
  PROVE  \E e : IsEscape(text, cap, e) /\ Escaped(text, cap) = e[Len(text)].out
<1> DEFINE g == [x \in EscapeState |-> [c \in Char |-> EscapeNext(cap, x, c)]]
           Eqn(e) == e = [n \in 0 .. Len(text) |->
                             IF n = 0 THEN Escape0
                             ELSE EscapeNext(cap, e[n - 1], text[n])]
<1>1. \A x \in EscapeState, c \in Char : EscapeNext(cap, x, c) \in EscapeState
  <2>1. ASSUME NEW x \in EscapeState, NEW c \in Char
        PROVE  EscapeNext(cap, x, c) \in EscapeState
    <3>1. Escape(c) \in Seq(Char) /\ x.out \in Seq(Char)
      BY EscapeType DEF EscapeState
    <3>2. x.out \o Escape(c) \in Seq(Char)
      BY <3>1
    <3>3. QED
      BY <3>2 DEF EscapeNext, EscapeState
  <2>2. QED
    BY <2>1
<1>2. g \in [EscapeState -> [Char -> EscapeState]]
  BY <1>1
<1>3. Escape0 \in EscapeState
  BY DEF Escape0, EscapeState
<1>4. PICK h : IsRun(EscapeState, Escape0, text, g, h)
  <2> HIDE DEF g
  <2>1. QED
    BY <1>2, <1>3, Runs, Zenon
<1>5. Eqn(h)
  <2>1. \A n \in 1 .. Len(text) : h[n - 1] \in EscapeState /\ text[n] \in Char
    BY <1>4 DEF IsRun
  <2>2. \A n \in 0 .. Len(text) : n # 0 => n \in 1 .. Len(text)
    OBVIOUS
  <2>3. QED
    BY <1>4, <2>1, <2>2 DEF IsRun
<1>6. PICK e : Eqn(e) /\ Escaped(text, cap) = e[Len(text)].out
  <2>1. \E e : Eqn(e)
    BY <1>5
  <2>2. QED
    BY <2>1 DEF Escaped, Escape0
<1>7. /\ e[0] = Escape0
      /\ \A n \in 1 .. Len(text) : e[n] = EscapeNext(cap, e[n - 1], text[n])
  <2>1. \A n \in 1 .. Len(text) : n # 0 /\ n \in 0 .. Len(text)
    OBVIOUS
  <2>2. 0 \in 0 .. Len(text)
    OBVIOUS
  <2>3. QED
    BY <1>6, <2>1, <2>2
<1> DEFINE T == {n \in 0 .. Len(text) : e[n] \in EscapeState}
<1>8. \A n \in 0 .. Len(text) : n \in T
  <2>1. 0 \in T
    BY <1>3, <1>7
  <2>2. ASSUME NEW n \in 1 .. Len(text), n - 1 \in T PROVE n \in T
    <3>1. e[n - 1] \in EscapeState /\ text[n] \in Char
      BY <2>2
    <3>2. QED
      BY <1>1, <1>7, <3>1
  <2>3. Len(text) \in Nat
    OBVIOUS
  <2> HIDE DEF T
  <2>4. QED
    BY <2>1, <2>2, <2>3, Upto
<1>9. QED
  BY <1>6, <1>7, <1>8 DEF IsEscape

\* A client escapes a text one character after the other.
LEMMA MessageRun ==
  ASSUME NEW text \in Seq(Char)
  PROVE  \E e : IsMessage(text, e) /\ MessageText(text) = e[Len(text)]
<1> DEFINE g == [x \in Text |-> [c \in Char |-> x \o MessageEscape(c)]]
           Eqn(e) == e = [n \in 0 .. Len(text) |->
                             IF n = 0 THEN <<>>
                             ELSE e[n - 1] \o MessageEscape(text[n])]
<1>1. \A x \in Text, c \in Char : x \o MessageEscape(c) \in Text
  BY EscapeType DEF Text
<1>2. g \in [Text -> [Char -> Text]]
  BY <1>1
<1>3. <<>> \in Text
  BY DEF Text
<1>4. PICK h : IsRun(Text, <<>>, text, g, h)
  <2> HIDE DEF g
  <2>1. QED
    BY <1>2, <1>3, Runs, Zenon
<1>5. Eqn(h)
  <2>1. \A n \in 1 .. Len(text) : h[n - 1] \in Text /\ text[n] \in Char
    <3>1. h \in [0 .. Len(text) -> Text]
      BY <1>4, Zenon DEF IsRun
    <3>2. \A n \in 1 .. Len(text) : n - 1 \in 0 .. Len(text)
      OBVIOUS
    <3>3. \A n \in 1 .. Len(text) : text[n] \in Char
      OBVIOUS
    <3>4. QED
      BY <3>1, <3>2, <3>3
  <2>2. \A n \in 0 .. Len(text) : n # 0 => n \in 1 .. Len(text)
    OBVIOUS
  <2>3. QED
    BY <1>4, <2>1, <2>2 DEF IsRun
<1>6. PICK e : Eqn(e) /\ MessageText(text) = e[Len(text)]
  <2>1. \E e : Eqn(e)
    BY <1>5
  <2>2. QED
    BY <2>1 DEF MessageText
<1>7. /\ e[0] = <<>>
      /\ \A n \in 1 .. Len(text) : e[n] = e[n - 1] \o MessageEscape(text[n])
  <2>1. \A n \in 1 .. Len(text) : n # 0 /\ n \in 0 .. Len(text)
    OBVIOUS
  <2>2. 0 \in 0 .. Len(text)
    OBVIOUS
  <2>3. QED
    BY <1>6, <2>1, <2>2
<1> DEFINE T == {n \in 0 .. Len(text) : e[n] \in Text}
<1>8. \A n \in 0 .. Len(text) : n \in T
  <2>1. 0 \in T
    BY <1>3, <1>7
  <2>2. ASSUME NEW n \in 1 .. Len(text), n - 1 \in T PROVE n \in T
    <3>1. e[n - 1] \in Text /\ text[n] \in Char
      BY <2>2
    <3>2. e[n] \in Text
      BY <1>1, <1>7, <3>1, Zenon
    <3>3. QED
      BY <3>2
  <2>3. Len(text) \in Nat
    OBVIOUS
  <2> HIDE DEF T
  <2>4. QED
    BY <2>1, <2>2, <2>3, Upto
<1>9. QED
  BY <1>6, <1>7, <1>8 DEF IsMessage

\* What one character does to the value that is read.
ReadMoves(cap, v, c, next) ==
    LET out   == IF v.at = "slash" THEN Append(v.out, Backslash) ELSE v.out
        known == v.at = "slash" /\ c \in {Quote, Backslash, "n"}
    IN  /\ v.at = "end" => next = v
        /\ known => next = [out |-> Append(v.out, Unescape[c]), at |-> "text"]
        /\ v.at # "end" /\ ~known /\ (c = Quote \/ Len(out) + 1 >= cap) =>
               next = [out |-> out, at |-> "end"]
        /\ v.at # "end" /\ ~known /\ c # Quote /\ Len(out) + 1 < cap =>
               next = IF c = Backslash THEN [out |-> out, at |-> "slash"]
                      ELSE [out |-> Append(out, c), at |-> "text"]

\* The reading of a value takes one of these steps at each character.
LEMMA ReadStep ==
  ASSUME NEW cap \in Nat, NEW v \in ReadState, NEW c \in Char
  PROVE  /\ ReadNext(cap, v, c) \in ReadState
         /\ ReadMoves(cap, v, c, ReadNext(cap, v, c))
<1> USE DEF ReadMoves
<1> DEFINE next  == ReadNext(cap, v, c)
           out   == IF v.at = "slash" THEN Append(v.out, Backslash) ELSE v.out
           known == v.at = "slash" /\ c \in {Quote, Backslash, "n"}
<1>1. /\ v.out \in Seq(Char) /\ v.at \in {"text", "slash", "end"}
      /\ Backslash \in Char /\ Newline \in Char /\ Quote \in Char
  BY DEF ReadState, Char
<1>2. out \in Seq(Char)
  BY <1>1
<1>3. /\ DOMAIN Unescape = {Quote, Backslash, "n"}
      /\ \A d \in {Quote, Backslash, "n"} : Unescape[d] \in Char
  BY <1>1 DEF Unescape
<1>4. Append(out, c) \in Seq(Char)
  BY <1>2
<1>5. CASE v.at = "end"
  BY <1>5 DEF ReadNext
<1>6. CASE known
  <2>1. next = [out |-> Append(v.out, Unescape[c]), at |-> "text"]
    BY <1>3, <1>6 DEF ReadNext
  <2>2. Unescape[c] \in Char
    BY <1>3, <1>6
  <2>3. Append(v.out, Unescape[c]) \in Seq(Char)
    BY <1>1, <2>2
  <2>4. next \in ReadState
    BY <2>1, <2>3 DEF ReadState
  <2>5. QED
    BY <1>6, <2>1, <2>4
<1>7. CASE v.at # "end" /\ ~known
  <2>1. next = IF c = Quote \/ Len(out) + 1 >= cap
               THEN [out |-> out, at |-> "end"]
               ELSE IF c = Backslash THEN [out |-> out, at |-> "slash"]
               ELSE [out |-> Append(out, c), at |-> "text"]
    BY <1>3, <1>7 DEF ReadNext
  <2> HIDE DEF out, next
  <2>2. next \in ReadState
    BY <1>2, <1>4, <2>1 DEF ReadState
  <2>3. c # Quote /\ Len(out) + 1 < cap => ~(Len(out) + 1 >= cap)
    <3>1. Len(out) \in Nat
      BY <1>2
    <3>2. QED
      BY <3>1
  <2>4. QED
    BY <1>7, <2>1, <2>2, <2>3 DEF out, next
<1>8. QED
  BY <1>1, <1>5, <1>6, <1>7

\* json_field_str goes through a value one character at a time.
LEMMA ValueRun ==
  ASSUME NEW text \in Seq(Char), NEW cap \in Nat
  PROVE  \E e : IsValue(text, cap, e) /\ Value(text, cap) = e[Len(text)].out
<1> DEFINE g == [x \in ReadState |-> [c \in Char |-> ReadNext(cap, x, c)]]
           Eqn(e) == e = [n \in 0 .. Len(text) |->
                             IF n = 0 THEN Read0
                             ELSE ReadNext(cap, e[n - 1], text[n])]
<1>1. \A x \in ReadState, c \in Char : ReadNext(cap, x, c) \in ReadState
  BY ReadStep, Zenon
<1>2. g \in [ReadState -> [Char -> ReadState]]
  BY <1>1
<1>3. Read0 \in ReadState
  BY DEF Read0, ReadState
<1>4. PICK h : IsRun(ReadState, Read0, text, g, h)
  <2> HIDE DEF g
  <2>1. QED
    BY <1>2, <1>3, Runs, Zenon
<1>5. Eqn(h)
  <2>1. \A n \in 1 .. Len(text) : h[n - 1] \in ReadState /\ text[n] \in Char
    BY <1>4 DEF IsRun
  <2>2. \A n \in 0 .. Len(text) : n # 0 => n \in 1 .. Len(text)
    OBVIOUS
  <2>3. QED
    BY <1>4, <2>1, <2>2 DEF IsRun
<1>6. PICK e : Eqn(e) /\ Value(text, cap) = e[Len(text)].out
  <2>1. \E e : Eqn(e)
    BY <1>5
  <2>2. QED
    BY <2>1 DEF Value, Read0
<1>7. /\ e[0] = Read0
      /\ \A n \in 1 .. Len(text) : e[n] = ReadNext(cap, e[n - 1], text[n])
  <2>1. \A n \in 1 .. Len(text) : n # 0 /\ n \in 0 .. Len(text)
    OBVIOUS
  <2>2. 0 \in 0 .. Len(text)
    OBVIOUS
  <2>3. QED
    BY <1>6, <2>1, <2>2
<1> DEFINE T == {n \in 0 .. Len(text) : e[n] \in ReadState}
<1>8. \A n \in 0 .. Len(text) : n \in T
  <2>1. 0 \in T
    BY <1>3, <1>7
  <2>2. ASSUME NEW n \in 1 .. Len(text), n - 1 \in T PROVE n \in T
    <3>1. e[n - 1] \in ReadState /\ text[n] \in Char
      BY <2>2
    <3>2. QED
      BY <1>1, <1>7, <3>1
  <2>3. Len(text) \in Nat
    OBVIOUS
  <2> HIDE DEF T
  <2>4. QED
    BY <2>1, <2>2, <2>3, Upto
<1>9. QED
  BY <1>6, <1>7, <1>8 DEF IsValue

\* What one character does to the search for objects.
ScanMoves(cap, s, c, next) ==
    LET inside(at) == [s EXCEPT !.object = Append(@, c), !.at = at]
    IN  /\ s.at = "end" => next = s
        /\ s.at = "seek" /\ c = Open =>
               next = [s EXCEPT !.object = <<c>>, !.depth = 1, !.at = "object"]
        /\ s.at = "seek" /\ c = ListClose => next = [s EXCEPT !.at = "end"]
        /\ s.at = "seek" /\ c \notin {Open, ListClose} => next = s
        /\ s.at = "slash" => next = inside("string")
        /\ s.at = "string" =>
               next = inside(IF c = Backslash THEN "slash"
                             ELSE IF c = Quote THEN "object" ELSE "string")
        /\ s.at = "object" /\ c = Quote => next = inside("string")
        /\ s.at = "object" /\ c \notin {Quote, Open, Close} =>
               next = inside("object")
        /\ s.at = "object" /\ c = Close /\ s.depth = 1
                /\ Len(s.object) + 1 < cap =>
               next = [found |-> Append(s.found, Append(s.object, c)),
                       object |-> <<>>, depth |-> 0, at |-> "seek"]

\* The search takes one of these steps at each character.
LEMMA ScanStep ==
  ASSUME NEW cap \in Nat, NEW s \in ScanState, NEW c \in Char
  PROVE  /\ ScanNext(cap, s, c) \in ScanState
         /\ ScanMoves(cap, s, c, ScanNext(cap, s, c))
<1> USE DEF ScanMoves
<1> DEFINE next       == ScanNext(cap, s, c)
           inside(at) == [s EXCEPT !.object = Append(@, c), !.at = at]
<1>1. /\ s.found \in Seq(Seq(Char)) /\ s.object \in Seq(Char) /\ s.depth \in Nat
      /\ s.at \in {"seek", "object", "string", "slash", "end"}
  BY DEF ScanState
<1>2. /\ Append(s.object, c) \in Seq(Char) /\ <<c>> \in Seq(Char)
      /\ <<>> \in Seq(Char) /\ Len(s.object) \in Nat
  BY <1>1
<1>3. Append(s.found, Append(s.object, c)) \in Seq(Seq(Char))
  BY <1>1, <1>2
<1>4. \A at \in {"seek", "object", "string", "slash", "end"} :
          inside(at) \in ScanState
  BY <1>1, <1>2 DEF ScanState
<1>5. CASE s.at = "end"
  BY <1>5 DEF ScanNext
<1>6. CASE s.at = "seek"
  <2>1. next = IF c = Open
               THEN [s EXCEPT !.object = <<c>>, !.depth = 1, !.at = "object"]
               ELSE IF c = ListClose THEN [s EXCEPT !.at = "end"] ELSE s
    BY <1>6 DEF ScanNext
  <2>2. /\ [s EXCEPT !.object = <<c>>, !.depth = 1, !.at = "object"]
              \in ScanState
        /\ [s EXCEPT !.at = "end"] \in ScanState
    BY <1>1, <1>2 DEF ScanState
  <2> HIDE DEF next
  <2>3. QED
    BY <1>6, <2>1, <2>2, Signs DEF next
<1>7. CASE s.at = "slash"
  <2>1. next = inside("string")
    BY <1>7 DEF ScanNext
  <2> HIDE DEF inside, next
  <2>2. QED
    BY <1>4, <1>7, <2>1 DEF next, inside
<1>8. CASE s.at = "string"
  <2>1. next = inside(IF c = Backslash THEN "slash"
                      ELSE IF c = Quote THEN "object" ELSE "string")
    BY <1>8 DEF ScanNext
  <2>2. next \in ScanState
    <3> HIDE DEF inside, next
    <3>1. QED
      BY <1>4, <2>1
  <2>3. QED
    BY <1>8, <2>1, <2>2
<1>9. CASE s.at = "object"
  <2>1. next = IF c = Quote THEN inside("string")
               ELSE IF c = Open \/ (c = Close /\ s.depth > 1)
               THEN [s EXCEPT !.object = Append(@, c),
                              !.depth = IF c = Open THEN @ + 1 ELSE @ - 1]
               ELSE IF c # Close THEN inside("object")
               ELSE IF Len(s.object) + 1 >= cap THEN [s EXCEPT !.at = "end"]
               ELSE [found |-> Append(s.found, Append(s.object, c)),
                     object |-> <<>>, depth |-> 0, at |-> "seek"]
    BY <1>9 DEF ScanNext
  <2>2. [s EXCEPT !.at = "end"] \in ScanState
    BY <1>1 DEF ScanState
  <2>3. [found |-> Append(s.found, Append(s.object, c)), object |-> <<>>,
         depth |-> 0, at |-> "seek"] \in ScanState
    BY <1>2, <1>3 DEF ScanState
  <2>4. c = Open \/ (c = Close /\ s.depth > 1) =>
            [s EXCEPT !.object = Append(@, c),
                      !.depth = IF c = Open THEN @ + 1 ELSE @ - 1] \in ScanState
    <3>1. c = Open \/ s.depth > 1 =>
              (IF c = Open THEN s.depth + 1 ELSE s.depth - 1) \in Nat
      BY <1>1
    <3>2. QED
      BY <1>2, <3>1 DEF ScanState
  <2>5. next \in ScanState
    <3> HIDE DEF inside, next
    <3>1. QED
      BY <1>4, <2>1, <2>2, <2>3, <2>4
  <2>6. c = Close /\ s.depth = 1 /\ Len(s.object) + 1 < cap =>
            next = [found |-> Append(s.found, Append(s.object, c)),
                    object |-> <<>>, depth |-> 0, at |-> "seek"]
    <3> HIDE DEF inside, next
    <3>1. c = Close => c # Quote /\ c # Open
      BY Signs
    <3>2. s.depth = 1 => ~(s.depth > 1)
      OBVIOUS
    <3>3. Len(s.object) + 1 < cap => ~(Len(s.object) + 1 >= cap)
      BY <1>2
    <3>4. QED
      BY <2>1, <3>1, <3>2, <3>3
  <2>7. (c = Quote => next = inside("string"))
        /\ (c \notin {Quote, Open, Close} => next = inside("object"))
    <3> HIDE DEF inside, next
    <3>1. QED
      BY <2>1
  <2>8. QED
    BY <1>9, <2>5, <2>6, <2>7
<1>10. QED
  BY <1>1, <1>5, <1>6, <1>7, <1>8, <1>9

\* next_json_object, called until the array ends, goes through the file once.
LEMMA ScanRun ==
  ASSUME NEW file \in Seq(Char), NEW cap \in Nat
  PROVE  /\ Objects(file, cap) \in Seq(Text)
         /\ \E e : /\ IsScan(file, cap, e)
                   /\ e[Len(file)].at \in {"seek", "end"} =>
                         Objects(file, cap) = e[Len(file)].found
<1> DEFINE g == [x \in ScanState |-> [c \in Char |-> ScanNext(cap, x, c)]]
           Eqn(e) == e = [n \in 0 .. Len(file) |->
                             IF n = 0 THEN Scan0
                             ELSE ScanNext(cap, e[n - 1], file[n])]
<1>1. \A x \in ScanState, c \in Char : ScanNext(cap, x, c) \in ScanState
  BY ScanStep, Zenon
<1>2. g \in [ScanState -> [Char -> ScanState]]
  BY <1>1
<1>3. Scan0 \in ScanState
  BY DEF Scan0, ScanState
<1>4. PICK h : IsRun(ScanState, Scan0, file, g, h)
  <2> HIDE DEF g
  <2>1. QED
    BY <1>2, <1>3, Runs, Zenon
<1>5. Eqn(h)
  <2>1. \A n \in 1 .. Len(file) : h[n - 1] \in ScanState /\ file[n] \in Char
    BY <1>4 DEF IsRun
  <2>2. \A n \in 0 .. Len(file) : n # 0 => n \in 1 .. Len(file)
    OBVIOUS
  <2>3. QED
    BY <1>4, <2>1, <2>2 DEF IsRun
<1>6. PICK e : /\ Eqn(e)
               /\ e[Len(file)].at \in {"seek", "end"} =>
                      Objects(file, cap) = e[Len(file)].found
               /\ Objects(file, cap) \in
                      {e[Len(file)].found,
                       Append(e[Len(file)].found, e[Len(file)].object)}
  <2>1. \E e : Eqn(e)
    BY <1>5
  <2>2. QED
    BY <2>1 DEF Objects, Scan0
<1>7. /\ e[0] = Scan0
      /\ \A n \in 1 .. Len(file) : e[n] = ScanNext(cap, e[n - 1], file[n])
  <2>1. \A n \in 1 .. Len(file) : n # 0 /\ n \in 0 .. Len(file)
    OBVIOUS
  <2>2. 0 \in 0 .. Len(file)
    OBVIOUS
  <2>3. QED
    BY <1>6, <2>1, <2>2
<1> DEFINE T == {n \in 0 .. Len(file) : e[n] \in ScanState}
<1>8. \A n \in 0 .. Len(file) : n \in T
  <2>1. 0 \in T
    BY <1>3, <1>7
  <2>2. ASSUME NEW n \in 1 .. Len(file), n - 1 \in T PROVE n \in T
    <3>1. e[n - 1] \in ScanState /\ file[n] \in Char
      BY <2>2
    <3>2. QED
      BY <1>1, <1>7, <3>1
  <2>3. Len(file) \in Nat
    OBVIOUS
  <2> HIDE DEF T
  <2>4. QED
    BY <2>1, <2>2, <2>3, Upto
<1>9. Objects(file, cap) \in Seq(Text)
  <2>1. e[Len(file)] \in ScanState
    BY <1>8
  <2> DEFINE d == e[Len(file)]
  <2>2. d.found \in Seq(Text) /\ d.object \in Text
    BY <2>1 DEF ScanState, Text
  <2>3. Objects(file, cap) \in {d.found, Append(d.found, d.object)}
    BY <1>6
  <2>4. ASSUME NEW a \in Seq(Text), NEW b \in Text
        PROVE  Append(a, b) \in Seq(Text)
    OBVIOUS
  <2>5. Append(d.found, d.object) \in Seq(Text)
    BY <2>2, <2>4
  <2> HIDE DEF d
  <2>6. QED
    BY <2>2, <2>3, <2>5
<1>10. QED
  BY <1>6, <1>7, <1>8, <1>9 DEF IsScan

-----------------------------------------------------------------------------
(* What escaping makes: a text that neither ends a string nor ends in the    *)
(* middle of an escape.                                                      *)

\* The state of the search for objects after each character of a text that
\* stands inside a string.
IsMarks(e, m) ==
    /\ m \in [0 .. Len(e) -> {"string", "slash"}]
    /\ m[0] = "string"
    /\ \A i \in 1 .. Len(e) :
          m[i] = IF m[i - 1] = "string" /\ e[i] = Backslash THEN "slash"
                 ELSE "string"

\* No quote is read as the end of the string, no escape is left open, no
\* character is one of bare, and none after an escape's backslash of escaped.
Quoted(e, bare, escaped) ==
    /\ e \in Text
    /\ \E m : /\ IsMarks(e, m)
              /\ m[Len(e)] = "string"
              /\ \A i \in 1 .. Len(e) :
                    /\ e[i] \notin bare
                    /\ m[i - 1] = "string" => e[i] # Quote
                    /\ m[i - 1] = "slash" => e[i] \notin escaped

\* As a text is in the store: no escape stands for a newline.
Sealed(e) == Quoted(e, {Newline}, {"n"})

\* What stands for one character in such a text.
Unit(u, bare, escaped) ==
    /\ u \in Text /\ Len(u) \in 1 .. 6
    /\ \/ Len(u) = 1 /\ u[1] \notin bare \cup {Quote, Backslash}
       \/ /\ Len(u) >= 2 /\ u[1] = Backslash
          /\ u[2] \notin bare \cup escaped
          /\ \A i \in 3 .. Len(u) : u[i] \notin bare \cup {Quote, Backslash}

\* json_escape writes such a unit for each character.
LEMMA EscapeUnit ==
  ASSUME NEW c \in Char
  PROVE  Unit(Escape(c), {Newline}, {"n"})
<1>1. Escape(c) \in Text
  BY EscapeType DEF Text
<1>2. CASE c \in {Quote, Backslash}
  <2>1. Escape(c) = <<Backslash, c>>
    BY <1>2, Signs DEF Escape
  <2>2. QED
    BY <1>1, <1>2, <2>1, Signs DEF Unit
<1>3. CASE c = Newline
  <2>1. Escape(c) = <<Backslash, "x", "x", "x", "x", "x">>
    BY <1>3, Signs DEF Escape
  <2>2. \A i \in 3 .. 6 : Escape(c)[i] = "x"
    BY <2>1
  <2>3. Len(Escape(c)) = 6 /\ Escape(c)[1] = Backslash /\ Escape(c)[2] = "x"
    BY <2>1
  <2>4. QED
    BY <1>1, <2>2, <2>3, Signs DEF Unit
<1>4. CASE c \notin {Quote, Backslash, Newline}
  <2>1. Escape(c) = <<c>>
    BY <1>4 DEF Escape
  <2>2. QED
    BY <1>1, <1>4, <2>1 DEF Unit
<1>5. QED
  BY <1>2, <1>3, <1>4

\* A quoted text stays quoted when a character is added to it.
LEMMA QuotedGrows ==
  ASSUME NEW bare, NEW escaped, Backslash \notin bare,
         NEW e, Quoted(e, bare, escaped), NEW u, Unit(u, bare, escaped)
  PROVE  Quoted(e \o u, bare, escaped)
<1> DEFINE a == Len(e)
           b == Len(u)
           w == e \o u
<1>1. /\ e \in Seq(Char) /\ u \in Seq(Char)
      /\ a \in Nat /\ b \in Nat /\ b >= 1
  BY DEF Quoted, Unit, Text
<1>2. /\ w \in Seq(Char) /\ Len(w) = a + b
      /\ \A i \in 1 .. a : w[i] = e[i]
      /\ \A i \in 1 .. b : w[a + i] = u[i]
  <2>1. Joins(Char, e, u, w)
    BY <1>1, Concat, Zenon
  <2>2. QED
    BY <2>1 DEF Joins
<1>3. PICK m : /\ IsMarks(e, m)
               /\ m[a] = "string"
               /\ \A i \in 1 .. a :
                    /\ e[i] \notin bare
                    /\ m[i - 1] = "string" => e[i] # Quote
                    /\ m[i - 1] = "slash" => e[i] \notin escaped
  BY DEF Quoted
<1> HIDE DEF a, b, w
<1> DEFINE k == [i \in 0 .. a + b |->
                    IF i <= a THEN m[i]
                    ELSE IF i = a + 1 /\ u[1] = Backslash THEN "slash"
                    ELSE "string"]
<1>4. /\ m \in [0 .. a -> {"string", "slash"}] /\ m[0] = "string"
      /\ \A i \in 1 .. a :
            m[i] = IF m[i - 1] = "string" /\ e[i] = Backslash THEN "slash"
                   ELSE "string"
  BY <1>3 DEF IsMarks, a
<1>5. k \in [0 .. a + b -> {"string", "slash"}] /\ k[0] = "string"
  BY <1>1, <1>4
<1>6. ASSUME NEW i \in 1 .. a + b
      PROVE  /\ k[i] = IF k[i - 1] = "string" /\ w[i] = Backslash THEN "slash"
                       ELSE "string"
             /\ w[i] \notin bare
             /\ k[i - 1] = "string" => w[i] # Quote
             /\ k[i - 1] = "slash" => w[i] \notin escaped
  <2>1. CASE i <= a
    <3>1. i \in 1 .. a /\ i - 1 <= a /\ k[i] = m[i] /\ k[i - 1] = m[i - 1]
      BY <1>1, <2>1
    <3>2. w[i] = e[i]
      BY <1>2, <3>1
    <3> HIDE DEF k
    <3>3. QED
      BY <1>3, <1>4, <3>1, <3>2
  <2>2. CASE i > a
    <3> DEFINE j == i - a
    <3>1. j \in 1 .. b /\ i = a + j
      BY <1>1, <2>2
    <3>2. w[i] = u[j]
      BY <1>2, <3>1
    <3>3. /\ k[i] = IF j = 1 /\ u[1] = Backslash THEN "slash" ELSE "string"
          /\ j = 1 => k[i - 1] = "string"
          /\ j = 2 => k[i - 1] = IF u[1] = Backslash THEN "slash" ELSE "string"
          /\ j > 2 => k[i - 1] = "string"
      BY <1>1, <1>3, <2>2
    <3> HIDE DEF k, j
    <3>4. \/ b = 1 /\ u[1] \notin bare \cup {Quote, Backslash}
          \/ /\ b >= 2 /\ u[1] = Backslash /\ u[2] \notin bare \cup escaped
             /\ \A l \in 3 .. b : u[l] \notin bare \cup {Quote, Backslash}
      BY DEF Unit, b
    <3>5. CASE j = 1
      BY <1>1, <3>1, <3>2, <3>3, <3>4, <3>5, Signs
    <3>6. CASE j = 2
      BY <1>1, <3>1, <3>2, <3>3, <3>4, <3>6, Signs
    <3>7. CASE j > 2
      <4>1. j \in 3 .. b /\ b # 1
        BY <1>1, <3>1, <3>7
      <4>2. u[j] \notin bare \cup {Quote, Backslash}
        BY <3>4, <4>1
      <4>3. QED
        BY <3>2, <3>3, <3>7, <4>1, <4>2
    <3>8. QED
      BY <1>1, <3>1, <3>5, <3>6, <3>7
  <2>3. QED
    BY <1>1, <2>1, <2>2
<1>7. k[a + b] = "string"
  <2>1. CASE b = 1
    <3>1. u[1] # Backslash
      BY <2>1 DEF Unit, b
    <3>2. QED
      BY <1>1, <2>1, <3>1
  <2>2. CASE b # 1
    BY <1>1, <2>2
  <2>3. QED
    BY <2>1, <2>2
<1>8. IsMarks(w, k)
  <2> HIDE DEF k
  <2>1. QED
    BY <1>2, <1>5, <1>6 DEF IsMarks
<1>9. w \in Text
  BY <1>2 DEF Text
<1>10. Quoted(w, bare, escaped)
  <2> HIDE DEF k
  <2>1. QED
    BY <1>2, <1>6, <1>7, <1>8, <1>9 DEF Quoted
<1>11. QED
  BY <1>10 DEF w

\* A text without any character is quoted.
LEMMA EmptyQuoted ==
  ASSUME NEW bare, NEW escaped
  PROVE  Quoted(<<>>, bare, escaped)
<1> DEFINE m == [i \in 0 .. 0 |-> "string"]
<1>1. <<>> \in Text /\ Len(<<>>) = 0
  BY DEF Text
<1>2. m[0] = "string" /\ \A i \in 1 .. 0 : FALSE
  OBVIOUS
<1>3. IsMarks(<<>>, m)
  BY <1>1 DEF IsMarks
<1> HIDE DEF m
<1>4. QED
  BY <1>1, <1>2, <1>3 DEF Quoted

\* Less may be asked of a quoted text.
LEMMA SealedQuoted ==
  ASSUME NEW e, Sealed(e)
  PROVE  Quoted(e, {}, {}) /\ e \in Text
  BY DEF Sealed, Quoted

\* What json_escape makes fits its array, is sealed, and is not empty when the
\* text is not.
LEMMA EscapedSealed ==
  ASSUME NEW text \in Text, NEW cap \in Nat, cap > 6
  PROVE  /\ Sealed(Escaped(text, cap))
         /\ Len(Escaped(text, cap)) < cap
         /\ text # <<>> => Escaped(text, cap) # <<>>
<1>1. text \in Seq(Char) /\ Len(text) \in Nat
  BY DEF Text
<1>2. PICK e : IsEscape(text, cap, e) /\ Escaped(text, cap) = e[Len(text)].out
  BY <1>1, EscapeRun
<1> DEFINE Good(n) == /\ Sealed(e[n].out)
                      /\ Len(e[n].out) < cap
                      /\ n > 0 => e[n].out # <<>>
           T == {n \in 0 .. Len(text) : Good(n)}
<1>3. 0 \in T
  <2>1. e[0].out = <<>>
    BY <1>2 DEF IsEscape, Escape0
  <2>2. <<>> \in Text /\ Len(<<>>) = 0
    BY DEF Text
  <2>3. Sealed(<<>>)
    BY EmptyQuoted DEF Sealed
  <2>4. QED
    BY <1>1, <2>1, <2>2, <2>3
<1>4. ASSUME NEW n \in 1 .. Len(text), n - 1 \in T PROVE n \in T
  <2> DEFINE d == e[n - 1]
             u == Escape(text[n])
  <2>1. d \in EscapeState /\ e[n] = EscapeNext(cap, d, text[n])
    BY <1>1, <1>2 DEF IsEscape
  <2>2. Good(n - 1)
    BY <1>4
  <2>3. Unit(u, {Newline}, {"n"})
    <3>1. text[n] \in Char
      BY <1>1
    <3>2. QED
      BY <3>1, EscapeUnit
  <2>4. /\ d.out \in Seq(Char) /\ u \in Seq(Char)
    BY <2>1, <2>3 DEF EscapeState, Unit, Text
  <2> DEFINE p == Len(d.out)
             q == Len(u)
  <2>5. p \in Nat /\ q \in 1 .. 6
    BY <2>3, <2>4 DEF Unit
  <2>6. n - 1 = 0 => d.out = <<>> /\ ~d.full
    BY <1>2 DEF IsEscape, Escape0
  <2> HIDE DEF u, d, p, q
  <2>7. CASE d.full \/ p + q >= cap
    <3>1. e[n].out = d.out
      BY <2>1, <2>7 DEF EscapeNext, u, EscapeState, p, q
    <3>2. n - 1 # 0
      <4>1. SUFFICES ASSUME n - 1 = 0 PROVE FALSE
        OBVIOUS
      <4>2. p = 0
        BY <2>6, <4>1 DEF p
      <4>3. p + q >= cap
        BY <2>6, <2>7, <4>1, Zenon
      <4>4. QED
        BY <2>5, <4>2, <4>3
    <3>3. QED
      BY <2>2, <3>1, <3>2 DEF d
  <2>8. CASE ~(d.full \/ p + q >= cap)
    <3>1. e[n].out = d.out \o u
      BY <2>1, <2>8 DEF EscapeNext, u, EscapeState, p, q
    <3>2. Sealed(d.out \o u)
      BY <2>2, <2>3, Signs, QuotedGrows DEF d, Sealed
    <3>3. Len(d.out \o u) = p + q
      BY <2>4 DEF p, q
    <3>4. Len(e[n].out) > 0 /\ Len(e[n].out) < cap
      <4>1. ~(p + q >= cap)
        BY <2>8, Zenon
      <4>2. Len(e[n].out) = p + q
        BY <3>1, <3>3
      <4>3. QED
        BY <2>5, <4>1, <4>2
    <3>5. e[n].out # <<>>
      BY <3>4
    <3>6. Sealed(e[n].out)
      BY <3>1, <3>2
    <3>7. QED
      BY <3>4, <3>5, <3>6
  <2>9. QED
    BY <2>7, <2>8
<1>5. \A n \in 0 .. Len(text) : n \in T
  <2> HIDE DEF T
  <2>1. QED
    BY <1>1, <1>3, <1>4, Upto
<1>6. Good(Len(text))
  BY <1>1, <1>5
<1>7. text # <<>> => Len(text) > 0
  BY <1>1
<1> HIDE DEF T
<1>8. QED
  BY <1>2, <1>6, <1>7

-----------------------------------------------------------------------------
(* The object that two texts make.                                           *)

\* Where a text of an object of host and key stands is known.
LEMMA ObjectLayout ==
  ASSUME NEW h \in Text, NEW k \in Text
  PROVE  LET u == Object(h, k)
             a == Len(h)
             b == Len(k)
         IN  /\ u \in Text /\ a \in Nat /\ b \in Nat /\ Len(u) = 15 + a + b
             /\ u[1] = Open /\ u[2] = Quote /\ u[3] = "protocol" /\ u[4] = Quote
             /\ u[5] = Colon /\ u[6] = Quote
             /\ \A i \in 1 .. a : u[6 + i] = h[i]
             /\ u[7 + a] = Quote /\ u[8 + a] = Comma
             /\ u[9 + a] = Quote /\ u[10 + a] = "text" /\ u[11 + a] = Quote
             /\ u[12 + a] = Colon /\ u[13 + a] = Quote
             /\ \A i \in 1 .. b : u[13 + a + i] = k[i]
             /\ u[14 + a + b] = Quote /\ u[15 + a + b] = Close
<1> DEFINE a  == Len(h)
           b  == Len(k)
           p0 == <<Open>>
           n1 == Needle("protocol")
           p1 == p0 \o n1
           p2 == p1 \o h
           t3 == <<Quote, Comma>>
           p3 == p2 \o t3
           n4 == Needle("text")
           p4 == p3 \o n4
           p5 == p4 \o k
           t6 == <<Quote, Close>>
           p6 == p5 \o t6
<1>1. {Open, Quote, Comma, Close, Colon, "protocol", "text"} \subseteq Char
  BY DEF Char, Field
<1>2. /\ h \in Seq(Char) /\ k \in Seq(Char) /\ a \in Nat /\ b \in Nat
  BY <1>1 DEF Text
<1>3. /\ p0 \in Seq(Char) /\ Len(p0) = 1 /\ p0[1] = Open
      /\ t3 \in Seq(Char) /\ Len(t3) = 2 /\ t3[1] = Quote /\ t3[2] = Comma
      /\ t6 \in Seq(Char) /\ Len(t6) = 2 /\ t6[1] = Quote /\ t6[2] = Close
  BY <1>1
<1>4. /\ n1 \in Seq(Char) /\ Len(n1) = 5 /\ n1[1] = Quote /\ n1[2] = "protocol"
      /\ n1[3] = Quote /\ n1[4] = Colon /\ n1[5] = Quote
      /\ n4 \in Seq(Char) /\ Len(n4) = 5 /\ n4[1] = Quote /\ n4[2] = "text"
      /\ n4[3] = Quote /\ n4[4] = Colon /\ n4[5] = Quote
  BY <1>1 DEF Needle
<1> HIDE DEF a, b, p0, n1, t3, n4, t6
<1>5. /\ p1 \in Seq(Char) /\ Len(p1) = 6 /\ p1[1] = Open /\ p1[2] = Quote
      /\ p1[3] = "protocol" /\ p1[4] = Quote /\ p1[5] = Colon /\ p1[6] = Quote
  <2>1. p0 \in Seq(Char) /\ n1 \in Seq(Char)
    BY <1>3, <1>4
  <2>2. Joins(Char, p0, n1, p1)
    BY <2>1, Concat, Zenon
  <2> HIDE DEF p1
  <2>3. QED
    BY <1>3, <1>4, <2>2 DEF Joins, Text
<1> HIDE DEF p1
<1>6. /\ p2 \in Seq(Char) /\ Len(p2) = 6 + a
      /\ \A i \in 1 .. 6 : p2[i] = p1[i]
      /\ \A i \in 1 .. a : p2[6 + i] = h[i]
  <2>1. p1 \in Seq(Char) /\ h \in Seq(Char)
    BY <1>2, <1>5
  <2>2. Joins(Char, p1, h, p2)
    BY <2>1, Concat, Zenon
  <2> HIDE DEF p2
  <2>3. QED
    BY <1>2, <1>5, <2>2 DEF Joins, Text, a
<1> HIDE DEF p2
<1>7. /\ p3 \in Seq(Char) /\ Len(p3) = 8 + a
      /\ \A i \in 1 .. 6 + a : p3[i] = p2[i]
      /\ p3[7 + a] = Quote /\ p3[8 + a] = Comma
  <2>1. p2 \in Seq(Char) /\ t3 \in Seq(Char)
    BY <1>3, <1>6
  <2>2. Joins(Char, p2, t3, p3)
    BY <2>1, Concat, Zenon
  <2> HIDE DEF p3
  <2>3. QED
    BY <1>2, <1>3, <1>6, <2>2 DEF Joins, Text
<1> HIDE DEF p3
<1>8. /\ p4 \in Seq(Char) /\ Len(p4) = 13 + a
      /\ \A i \in 1 .. 8 + a : p4[i] = p3[i]
      /\ p4[9 + a] = Quote /\ p4[10 + a] = "text" /\ p4[11 + a] = Quote
      /\ p4[12 + a] = Colon /\ p4[13 + a] = Quote
  <2>1. p3 \in Seq(Char) /\ n4 \in Seq(Char)
    BY <1>4, <1>7
  <2>2. Joins(Char, p3, n4, p4)
    BY <2>1, Concat, Zenon
  <2> HIDE DEF p4
  <2>3. QED
    BY <1>2, <1>4, <1>7, <2>2 DEF Joins, Text
<1> HIDE DEF p4
<1>9. /\ p5 \in Seq(Char) /\ Len(p5) = 13 + a + b
      /\ \A i \in 1 .. 13 + a : p5[i] = p4[i]
      /\ \A i \in 1 .. b : p5[13 + a + i] = k[i]
  <2>1. p4 \in Seq(Char) /\ k \in Seq(Char)
    BY <1>2, <1>8
  <2>2. Joins(Char, p4, k, p5)
    BY <2>1, Concat, Zenon
  <2> HIDE DEF p5
  <2>3. QED
    BY <1>8, <2>2 DEF Joins, Text, b
<1> HIDE DEF p5
<1>10. /\ p6 \in Seq(Char) /\ Len(p6) = 15 + a + b
       /\ \A i \in 1 .. 13 + a + b : p6[i] = p5[i]
       /\ p6[14 + a + b] = Quote /\ p6[15 + a + b] = Close
  <2>1. p5 \in Seq(Char) /\ t6 \in Seq(Char)
    BY <1>3, <1>9
  <2>2. Joins(Char, p5, t6, p6)
    BY <2>1, Concat, Zenon
  <2> HIDE DEF p6
  <2>3. QED
    BY <1>2, <1>3, <1>9, <2>2 DEF Joins, Text
<1> HIDE DEF p6
<1>11. Object(h, k) = p6
  BY DEF Object, p0, n1, p1, p2, t3, p3, n4, p4, p5, t6, p6
<1>12. /\ \A i \in 1 .. 13 + a : p6[i] = p4[i]
       /\ \A i \in 1 .. b : p6[13 + a + i] = k[i]
  <2>1. \A i \in 1 .. 13 + a : i \in 1 .. 13 + a + b
    BY <1>2
  <2>2. \A i \in 1 .. b : 13 + a + i \in 1 .. 13 + a + b
    BY <1>2
  <2>3. \A i \in 1 .. 13 + a + b : p6[i] = p5[i]
    BY <1>10
  <2>4. /\ \A i \in 1 .. 13 + a : p5[i] = p4[i]
        /\ \A i \in 1 .. b : p5[13 + a + i] = k[i]
    BY <1>9
  <2>5. QED
    BY <2>1, <2>2, <2>3, <2>4
<1>13. \A i \in 1 .. 8 + a : p6[i] = p3[i]
  BY <1>2, <1>8, <1>12
<1>14. \A i \in 1 .. 6 + a : p6[i] = p2[i]
  BY <1>2, <1>7, <1>13
<1>15. /\ \A i \in 1 .. 6 : p6[i] = p1[i]
       /\ \A i \in 1 .. a : p6[6 + i] = h[i]
  BY <1>2, <1>6, <1>14
<1>16. /\ p6[1] = Open /\ p6[2] = Quote /\ p6[3] = "protocol" /\ p6[4] = Quote
       /\ p6[5] = Colon /\ p6[6] = Quote
  BY <1>5, <1>15
<1>17. p6[7 + a] = Quote /\ p6[8 + a] = Comma
  BY <1>2, <1>7, <1>13
<1>18. /\ p6[9 + a] = Quote /\ p6[10 + a] = "text" /\ p6[11 + a] = Quote
       /\ p6[12 + a] = Colon /\ p6[13 + a] = Quote
  BY <1>2, <1>8, <1>12
<1>19. QED
  BY <1>2, <1>10, <1>11, <1>12, <1>15, <1>16, <1>17, <1>18 DEF a, b, Text

\* A value that stands before a quote.
Begins(value, e) ==
    /\ value \in Text /\ Len(e) < Len(value)
    /\ \A i \in 1 .. Len(e) : value[i] = e[i]
    /\ value[Len(e) + 1] = Quote

\* What follows a place of a file.
LEMMA After ==
  ASSUME NEW file \in Text, NEW i \in 0 .. Len(file)
  PROVE  LET rest == SubSeq(file, i + 1, Len(file))
         IN  /\ rest \in Text /\ Len(rest) = Len(file) - i
             /\ \A j \in 1 .. Len(file) - i : rest[j] = file[i + j]
  BY DEF Text

\* In a quoted text a quote is not its first character, and follows a
\* backslash.
LEMMA QuoteInText ==
  ASSUME NEW e, Quoted(e, {}, {}), NEW i \in 1 .. Len(e), e[i] = Quote
  PROVE  i > 1 /\ e[i - 1] = Backslash
<1>1. PICK m : /\ IsMarks(e, m)
               /\ \A n \in 1 .. Len(e) : m[n - 1] = "string" => e[n] # Quote
  BY DEF Quoted
<1>2. Len(e) \in Nat /\ m[i - 1] # "string"
  BY <1>1 DEF Quoted, Text
<1>3. i - 1 # 0
  BY <1>1, <1>2 DEF IsMarks
<1>4. i - 1 \in 1 .. Len(e)
  BY <1>2, <1>3
<1>5. QED
  BY <1>1, <1>2, <1>4 DEF IsMarks

\* The name of a field stands before a colon in one place of an object, whatever
\* the texts are, so what is read is the value that follows it.
LEMMA FieldOfObject ==
  ASSUME NEW h, Quoted(h, {}, {}), NEW k, Quoted(k, {}, {}), NEW cap
  PROVE  /\ \E value :
                /\ Begins(value, h)
                /\ FieldStr(Object(h, k), "protocol", cap) = Value(value, cap)
         /\ \E value :
                /\ Begins(value, k)
                /\ FieldStr(Object(h, k), "text", cap) = Value(value, cap)
<1> DEFINE u == Object(h, k)
           a == Len(h)
           b == Len(k)
           places(f) == {i \in 1 .. Len(u) - 4 : IsNeedle(u, i, f)}
<1>0. h \in Text /\ k \in Text
  BY DEF Quoted
<1>1. /\ u \in Text /\ a \in Nat /\ b \in Nat /\ Len(u) = 15 + a + b
      /\ u[1] = Open /\ u[2] = Quote /\ u[3] = "protocol" /\ u[4] = Quote
      /\ u[5] = Colon /\ u[6] = Quote
      /\ \A i \in 1 .. a : u[6 + i] = h[i]
      /\ u[7 + a] = Quote /\ u[8 + a] = Comma
      /\ u[9 + a] = Quote /\ u[10 + a] = "text" /\ u[11 + a] = Quote
      /\ u[12 + a] = Colon /\ u[13 + a] = Quote
      /\ \A i \in 1 .. b : u[13 + a + i] = k[i]
      /\ u[14 + a + b] = Quote /\ u[15 + a + b] = Close
  BY <1>0, ObjectLayout
<1>2. /\ \A i \in 1 .. a : h[i] = Quote => i > 1 /\ h[i - 1] = Backslash
      /\ \A i \in 1 .. b : k[i] = Quote => i > 1 /\ k[i - 1] = Backslash
  BY QuoteInText
<1> HIDE DEF u, a, b
<1>3. ASSUME NEW j \in 2 .. Len(u) - 1, NEW f \in Field,
             u[j - 1] = f, u[j] = Quote, u[j + 1] = Colon
      PROVE  j = IF f = "protocol" THEN 4 ELSE 11 + a
  <2>1. f \in {"protocol", "text"}
    BY DEF Field
  <2>2. j \in 2 .. 6 \/ j \in 7 .. 6 + a \/ j \in 7 + a .. 13 + a
        \/ j \in 14 + a .. 13 + a + b \/ j = 14 + a + b
    BY <1>1
  <2>3. j \notin 7 .. 6 + a
    <3>1. SUFFICES ASSUME j \in 7 .. 6 + a PROVE FALSE
      OBVIOUS
    <3> DEFINE n == j - 6
    <3>2. n \in 1 .. a /\ j = 6 + n
      BY <1>1, <3>1
    <3> HIDE DEF n
    <3>3. n > 1 /\ h[n - 1] = Backslash
      BY <1>1, <1>2, <1>3, <3>2
    <3>4. n - 1 \in 1 .. a /\ j - 1 = 6 + (n - 1)
      BY <1>1, <3>2, <3>3
    <3>5. u[j - 1] = Backslash
      BY <1>1, <3>3, <3>4
    <3>6. QED
      BY <1>3, <2>1, <3>5, Signs
  <2>4. j \notin 14 + a .. 13 + a + b
    <3>1. SUFFICES ASSUME j \in 14 + a .. 13 + a + b PROVE FALSE
      OBVIOUS
    <3> DEFINE n == j - 13 - a
    <3>2. n \in 1 .. b /\ j = 13 + a + n
      BY <1>1, <3>1
    <3> HIDE DEF n
    <3>3. n > 1 /\ k[n - 1] = Backslash
      BY <1>1, <1>2, <1>3, <3>2
    <3>4. n - 1 \in 1 .. b /\ j - 1 = 13 + a + (n - 1)
      BY <1>1, <3>2, <3>3
    <3>5. u[j - 1] = Backslash
      BY <1>1, <3>3, <3>4
    <3>6. QED
      BY <1>3, <2>1, <3>5, Signs
  <2>5. CASE j \in 2 .. 6
    <3>1. j = 2 \/ j = 3 \/ j = 4 \/ j = 5 \/ j = 6
      BY <2>5
    <3>2. j = 4
      BY <1>1, <1>3, <2>1, <3>1, Signs
    <3>3. QED
      BY <1>1, <1>3, <3>2
  <2>6. CASE j \in 7 + a .. 13 + a
    <3>1. j = 7 + a \/ j = 8 + a \/ j = 9 + a \/ j = 10 + a \/ j = 11 + a
          \/ j = 12 + a \/ j = 13 + a
      BY <1>1, <2>6
    <3>2. /\ (7 + a) + 1 = 8 + a /\ (9 + a) - 1 = 8 + a
          /\ (11 + a) - 1 = 10 + a /\ (13 + a) - 1 = 12 + a
      BY <1>1
    <3>3. j = 11 + a
      BY <1>1, <1>3, <2>1, <3>1, <3>2, Signs
    <3>4. QED
      BY <1>1, <1>3, <3>2, <3>3, Signs
  <2>7. CASE j = 14 + a + b
    <3>1. j + 1 = 15 + a + b
      BY <1>1, <2>7
    <3>2. QED
      BY <1>1, <1>3, <3>1, Signs
  <2>8. QED
    BY <2>2, <2>3, <2>4, <2>5, <2>6, <2>7
<1>4. ASSUME NEW i \in 1 .. Len(u) - 4
      PROVE  LET s == SubSeq(u, i, i + 4)
             IN  /\ s \in Seq(Char) /\ Len(s) = 5
                 /\ \A j \in 1 .. 5 : s[j] = u[i + j - 1]
  BY <1>1 DEF Text
<1>5. ASSUME NEW f \in Field, NEW i \in 1 .. Len(u) - 4, IsNeedle(u, i, f)
      PROVE  i = IF f = "protocol" THEN 2 ELSE 9 + a
  <2>1. Needle(f)[2] = f /\ Needle(f)[3] = Quote /\ Needle(f)[4] = Colon
    BY DEF Needle
  <2>2. u[i + 1] = f /\ u[i + 2] = Quote /\ u[i + 3] = Colon
    BY <1>1, <1>4, <1>5, <2>1 DEF IsNeedle
  <2> DEFINE j == i + 2
  <2>3. j \in 2 .. Len(u) - 1 /\ j - 1 = i + 1 /\ j + 1 = i + 3
    BY <1>1
  <2>4. j = IF f = "protocol" THEN 4 ELSE 11 + a
    <3> HIDE DEF j
    <3>1. u[j - 1] = f /\ u[j] = Quote /\ u[j + 1] = Colon
      BY <2>2, <2>3 DEF j
    <3>2. QED
      BY <1>3, <2>3, <3>1
  <2>5. QED
    BY <1>1, <2>4
<1>6. ASSUME NEW f \in Field, NEW i \in 1 .. Len(u) - 4,
             i = IF f = "protocol" THEN 2 ELSE 9 + a
      PROVE  IsNeedle(u, i, f)
  <2> DEFINE s == SubSeq(u, i, i + 4)
  <2>1. s \in Seq(Char) /\ Len(s) = 5
    BY <1>4
  <2>2. s[1] = u[i] /\ s[2] = u[i + 1] /\ s[3] = u[i + 2] /\ s[4] = u[i + 3]
        /\ s[5] = u[i + 4]
    BY <1>1, <1>4
  <2>3. u[i] = Quote /\ u[i + 1] = f /\ u[i + 2] = Quote /\ u[i + 3] = Colon
        /\ u[i + 4] = Quote
    BY <1>1, <1>6 DEF Field
  <2> DEFINE t == Needle(f)
  <2>4. /\ t \in Seq(Char) /\ Len(t) = 5 /\ t[1] = Quote /\ t[2] = f
        /\ t[3] = Quote /\ t[4] = Colon /\ t[5] = Quote
    BY DEF Needle, Char
  <2> HIDE DEF s, t
  <2>5. s = t
    <3>1. \A j \in 1 .. 5 : s[j] = t[j]
      BY <2>2, <2>3, <2>4
    <3>2. QED
      BY <2>1, <2>4, <3>1
  <2>6. QED
    BY <2>5 DEF s, t, IsNeedle
<1>7. places("protocol") = {2} /\ places("text") = {9 + a}
  <2>1. "protocol" \in Field /\ "text" \in Field
    BY DEF Field
  <2>2. 2 \in 1 .. Len(u) - 4 /\ 9 + a \in 1 .. Len(u) - 4
    BY <1>1
  <2>3. QED
    BY <1>5, <1>6, <2>1, <2>2
<1>8. \A n \in Nat : (CHOOSE i \in {n} : \A j \in {n} : i <= j) = n
  OBVIOUS
<1>9. FieldStr(u, "protocol", cap) = Value(SubSeq(u, 7, Len(u)), cap)
  <2>1. FieldStr(u, "protocol", cap) =
            Value(SubSeq(u, (CHOOSE i \in {2} : \A j \in {2} : i <= j) + 5,
                         Len(u)), cap)
    BY <1>7 DEF FieldStr
  <2>2. (CHOOSE i \in {2} : \A j \in {2} : i <= j) + 5 = 7
    BY <1>8
  <2>3. QED
    BY <2>1, <2>2
<1>10. FieldStr(u, "text", cap) = Value(SubSeq(u, 14 + a, Len(u)), cap)
  <2>1. FieldStr(u, "text", cap) =
            Value(SubSeq(u,
                         (CHOOSE i \in {9 + a} : \A j \in {9 + a} : i <= j) + 5,
                         Len(u)), cap)
    BY <1>7 DEF FieldStr
  <2>2. (CHOOSE i \in {9 + a} : \A j \in {9 + a} : i <= j) + 5 = 14 + a
    BY <1>1, <1>8
  <2>3. QED
    BY <2>1, <2>2
<1>11. Begins(SubSeq(u, 7, Len(u)), h)
  <2> DEFINE v == SubSeq(u, 6 + 1, Len(u))
  <2>1. /\ v \in Text /\ Len(v) = Len(u) - 6
        /\ \A j \in 1 .. Len(u) - 6 : v[j] = u[6 + j]
    BY <1>1, After
  <2>2. SubSeq(u, 7, Len(u)) = v
    OBVIOUS
  <2> HIDE DEF v
  <2>3. a < Len(v) /\ v[a + 1] = Quote /\ \A i \in 1 .. a : v[i] = h[i]
    <3>1. a < Len(v)
      BY <1>1, <2>1
    <3>2. a + 1 \in 1 .. Len(u) - 6 /\ \A i \in 1 .. a : i \in 1 .. Len(u) - 6
      BY <1>1
    <3>3. v[a + 1] = u[6 + (a + 1)] /\ \A i \in 1 .. a : v[i] = u[6 + i]
      BY <2>1, <3>2
    <3>4. 6 + (a + 1) = 7 + a
      BY <1>1
    <3>5. QED
      BY <1>1, <3>1, <3>3, <3>4
  <2>4. QED
    BY <2>1, <2>2, <2>3 DEF Begins, a
<1>12. Begins(SubSeq(u, 14 + a, Len(u)), k)
  <2> DEFINE v == SubSeq(u, (13 + a) + 1, Len(u))
  <2>1. /\ v \in Text /\ Len(v) = Len(u) - (13 + a)
        /\ \A j \in 1 .. Len(u) - (13 + a) : v[j] = u[(13 + a) + j]
    BY <1>1, After
  <2>2. SubSeq(u, 14 + a, Len(u)) = v
    BY <1>1
  <2> HIDE DEF v
  <2>3. b < Len(v) /\ v[b + 1] = Quote /\ \A i \in 1 .. b : v[i] = k[i]
    <3>1. b < Len(v)
      BY <1>1, <2>1
    <3>2. /\ b + 1 \in 1 .. Len(u) - (13 + a)
          /\ \A i \in 1 .. b : i \in 1 .. Len(u) - (13 + a)
      BY <1>1
    <3>3. /\ v[b + 1] = u[(13 + a) + (b + 1)]
          /\ \A i \in 1 .. b : v[i] = u[(13 + a) + i]
      BY <2>1, <3>2
    <3>4. (13 + a) + (b + 1) = 14 + a + b
      BY <1>1
    <3>5. QED
      BY <1>1, <3>1, <3>3, <3>4
  <2>4. QED
    BY <2>1, <2>2, <2>3 DEF Begins, b
<1>13. QED
  BY <1>9, <1>10, <1>11, <1>12 DEF u

-----------------------------------------------------------------------------
(* Reading a value.                                                          *)

\* Texts without control characters.
Clean == Seq(Char \ {Newline})

\* A clean text is a text that the property calls plain.
LEMMA CleanText ==
  ASSUME NEW text
  PROVE  /\ text \in Clean => text \in Text /\ Plain(text)
         /\ text \in Text /\ Plain(text) => text \in Clean
<1>1. ASSUME text \in Clean
      PROVE  text \in Text /\ Plain(text)
  <2>1. text \in Text /\ \A i \in 1 .. Len(text) : text[i] # Newline
    BY <1>1 DEF Clean, Text
  <2>2. QED
    BY <2>1 DEF Plain, ToSet, Text
<1>2. ASSUME text \in Text, Plain(text)
      PROVE  text \in Clean
  <2>1. \A i \in 1 .. Len(text) : text[i] # Newline
    BY <1>2 DEF Plain, ToSet, Text
  <2>2. QED
    BY <1>2, <2>1 DEF Clean, Text
<1>3. QED
  BY <1>1, <1>2

\* Once a value has ended nothing changes it.
LEMMA EndStays ==
  ASSUME NEW value \in Text, NEW cap \in Nat, NEW v, IsValue(value, cap, v),
         NEW i \in 0 .. Len(value), v[i].at = "end"
  PROVE  v[Len(value)] = v[i]
<1> DEFINE T == {n \in 0 .. Len(value) : i <= n => v[n] = v[i]}
<1>1. Len(value) \in Nat /\ value \in Seq(Char)
  BY DEF Text
<1>2. 0 \in T
  BY <1>1
<1>3. ASSUME NEW n \in 1 .. Len(value), n - 1 \in T PROVE n \in T
  <2>1. CASE i <= n - 1
    <3>1. v[n - 1] = v[i]
      BY <1>3, <2>1
    <3>2. v[n - 1] \in ReadState /\ value[n] \in Char
      BY <1>1 DEF IsValue
    <3>3. v[n] = ReadNext(cap, v[n - 1], value[n])
      BY DEF IsValue
    <3>4. v[n] = v[n - 1]
      <4>1. ReadMoves(cap, v[n - 1], value[n], v[n])
        BY <3>2, <3>3, ReadStep, Zenon
      <4>2. QED
        BY <1>3, <3>1, <4>1 DEF ReadMoves
    <3>5. QED
      BY <3>1, <3>4
  <2>2. CASE ~(i <= n - 1)
    <3>1. i <= n => i = n
      BY <1>1, <2>2
    <3>2. QED
      BY <3>1
  <2>3. QED
    BY <2>1, <2>2
<1>4. \A n \in 0 .. Len(value) : n \in T
  <2> HIDE DEF T
  <2>1. QED
    BY <1>1, <1>2, <1>3, Upto
<1>5. QED
  BY <1>1, <1>4

\* What is read of a sealed text fits its array, has no control character, and
\* is not empty when the text is not.
LEMMA ReadSealed ==
  ASSUME NEW e, Sealed(e), NEW value, Begins(value, e), NEW cap \in Nat, cap > 1
  PROVE  /\ Value(value, cap) \in Clean
         /\ Len(Value(value, cap)) < cap
         /\ e # <<>> => Value(value, cap) # <<>>
<1> DEFINE a == Len(e)
           N == Len(value)
<1>1. /\ value \in Seq(Char) /\ N \in Nat /\ a \in Nat /\ a < N
      /\ \A i \in 1 .. a : value[i] = e[i]
      /\ value[a + 1] = Quote
      /\ \A i \in 1 .. a : e[i] \in Char
      /\ e \in Seq(Char)
  BY DEF Begins, Sealed, Quoted, Text
<1>2. PICK m : /\ IsMarks(e, m)
               /\ m[a] = "string"
               /\ \A i \in 1 .. a :
                    /\ e[i] \notin {Newline}
                    /\ m[i - 1] = "string" => e[i] # Quote
                    /\ m[i - 1] = "slash" => e[i] \notin {"n"}
  BY DEF Sealed, Quoted
<1>3. PICK v : IsValue(value, cap, v) /\ Value(value, cap) = v[N].out
  BY <1>1, ValueRun
<1> HIDE DEF a, N
<1>4. /\ m \in [0 .. a -> {"string", "slash"}] /\ m[0] = "string"
      /\ \A i \in 1 .. a :
            m[i] = IF m[i - 1] = "string" /\ e[i] = Backslash THEN "slash"
                   ELSE "string"
  BY <1>2 DEF IsMarks, a
<1>5. /\ v[0] = Read0
      /\ \A n \in 0 .. N : v[n] \in ReadState
      /\ \A n \in 1 .. N : v[n] = ReadNext(cap, v[n - 1], value[n])
  BY <1>3 DEF IsValue, N
<1> DEFINE Good(n, s) ==
              /\ s.out \in Clean
              /\ Len(s.out) < cap
              /\ s.at = "slash" => Len(s.out) + 1 < cap
              /\ s.at # "end" => /\ n <= a
                                 /\ s.at = IF m[n] = "slash" THEN "slash"
                                           ELSE "text"
              /\ n > 0 /\ a > 0 /\ s.at # "slash" => Len(s.out) > 0
           T == {n \in 0 .. N : Good(n, v[n])}
<1>6. 0 \in T
  <2>1. v[0].out = <<>> /\ v[0].at = "text"
    BY <1>5 DEF Read0
  <2>2. <<>> \in Clean /\ Len(<<>>) = 0
    BY DEF Clean
  <2>3. QED
    BY <1>1, <1>4, <2>1, <2>2
<1>7. ASSUME NEW n \in 1 .. N, n - 1 \in T PROVE n \in T
  <2> DEFINE s == v[n - 1]
             t == v[n]
             c == value[n]
             out == IF s.at = "slash" THEN Append(s.out, Backslash) ELSE s.out
             known == s.at = "slash" /\ c \in {Quote, Backslash, "n"}
  <2>1. Good(n - 1, s) /\ s \in ReadState /\ c \in Char
    BY <1>1, <1>5, <1>7 DEF N
  <2>2. t = ReadNext(cap, s, c)
    BY <1>5
  <2>3. /\ s.at = "end" => t = s
        /\ known => t = [out |-> Append(s.out, Unescape[c]), at |-> "text"]
        /\ s.at # "end" /\ ~known /\ (c = Quote \/ Len(out) + 1 >= cap) =>
              t = [out |-> out, at |-> "end"]
        /\ s.at # "end" /\ ~known /\ c # Quote /\ Len(out) + 1 < cap =>
              t = IF c = Backslash THEN [out |-> out, at |-> "slash"]
                  ELSE [out |-> Append(out, c), at |-> "text"]
    <3> HIDE DEF s, t, c
    <3>1. QED
      <4>1. ReadMoves(cap, s, c, t)
        BY <2>1, <2>2, ReadStep, Zenon
      <4>2. QED
        BY <4>1 DEF ReadMoves
  <2>4. /\ s.at \in {"text", "slash", "end"}
        /\ s.out \in Clean /\ Len(s.out) \in Nat /\ Len(s.out) < cap
        /\ n \in Nat /\ n > 0 /\ n - 1 \in 0 .. N
    BY <1>1, <2>1 DEF ReadState, Clean
  <2>5. /\ s.at = "slash" => Len(s.out) + 1 < cap
        /\ s.at # "end" => n - 1 <= a
        /\ s.at # "end" => s.at = IF m[n - 1] = "slash" THEN "slash" ELSE "text"
        /\ n - 1 > 0 /\ a > 0 /\ s.at # "slash" => Len(s.out) > 0
    BY <2>1
  <2> HIDE DEF s, t, c
  <2> SUFFICES Good(n, t)
    BY DEF t
  <2>6. \A x \in Clean, d \in Char \ {Newline} :
            Append(x, d) \in Clean /\ Len(Append(x, d)) = Len(x) + 1
    BY DEF Clean
  <2>7. Backslash \in Char \ {Newline} /\ Quote \in Char \ {Newline}
    BY Signs DEF Char
  <2>8. CASE s.at = "end"
    <3>1. n - 1 # 0
      BY <1>5, <2>8 DEF s, Read0
    <3>2. QED
      BY <2>3, <2>4, <2>5, <2>8, <3>1
  <2>9. CASE s.at # "end" /\ n = a + 1
    <3>1. c = Quote /\ s.at = "text"
      BY <1>1, <1>2, <2>5, <2>9 DEF c
    <3>2. t = [out |-> s.out, at |-> "end"]
      BY <2>3, <3>1
    <3>3. QED
      BY <1>1, <2>4, <2>5, <2>9, <3>1, <3>2
  <2>10. CASE s.at # "end" /\ n <= a
    <3>1. n \in 1 .. a /\ c = e[n]
      BY <1>1, <2>4, <2>10 DEF c
    <3>2. /\ c \in Char \ {Newline}
          /\ m[n - 1] = "string" => c # Quote
          /\ m[n - 1] = "slash" => c # "n"
          /\ m[n] = IF m[n - 1] = "string" /\ c = Backslash THEN "slash"
                    ELSE "string"
          /\ m[n - 1] \in {"string", "slash"}
      BY <1>1, <1>2, <1>4, <2>4, <3>1
    <3>3. CASE s.at = "slash" /\ c \in {Quote, Backslash}
      <4>1. m[n - 1] = "slash" /\ m[n] = "string"
        BY <2>5, <3>2, <3>3
      <4>2. Unescape[c] = c
        BY <3>3, Signs DEF Unescape
      <4>3. t = [out |-> Append(s.out, c), at |-> "text"]
        BY <2>3, <3>3, <4>2
      <4>4. QED
        BY <2>4, <2>5, <2>6, <2>10, <3>2, <3>3, <4>1, <4>3
    <3>4. CASE s.at = "slash" /\ c \notin {Quote, Backslash}
      <4>1. m[n - 1] = "slash" /\ m[n] = "string" /\ c # "n"
        BY <2>5, <3>2, <3>4
      <4>2. out = Append(s.out, Backslash)
        BY <3>4
      <4>3. out \in Clean /\ Len(out) = Len(s.out) + 1
        BY <2>4, <2>6, <2>7, <4>2
      <4>4. ~known
        BY <3>4, <4>1
      <4> HIDE DEF out, known
      <4>5. CASE Len(out) + 1 >= cap
        <5>1. t = [out |-> out, at |-> "end"]
          BY <2>3, <3>4, <4>4, <4>5
        <5>2. QED
          BY <2>4, <2>5, <3>4, <4>3, <5>1
      <4>6. CASE Len(out) + 1 < cap
        <5>1. t = [out |-> Append(out, c), at |-> "text"]
          BY <2>3, <3>4, <4>4, <4>6
        <5>2. Append(out, c) \in Clean /\ Len(Append(out, c)) = Len(out) + 1
          BY <2>6, <3>2, <4>3
        <5>3. QED
          BY <2>4, <2>10, <4>1, <4>3, <4>6, <5>1, <5>2
      <4>7. QED
        BY <2>4, <4>3, <4>5, <4>6
    <3>5. CASE s.at = "text"
      <4>1. m[n - 1] = "string" /\ c # Quote
        BY <2>5, <3>2, <3>5
      <4>2. out = s.out /\ ~known
        BY <3>5
      <4> HIDE DEF out, known
      <4>3. CASE Len(s.out) + 1 >= cap
        <5>1. t = [out |-> s.out, at |-> "end"]
          BY <2>3, <3>5, <4>2, <4>3
        <5>2. QED
          BY <2>4, <4>3, <5>1
      <4>4. CASE Len(s.out) + 1 < cap /\ c = Backslash
        <5>1. t = [out |-> s.out, at |-> "slash"] /\ m[n] = "slash"
          BY <2>3, <3>2, <3>5, <4>1, <4>2, <4>4
        <5>2. QED
          BY <2>4, <2>10, <4>4, <5>1
      <4>5. CASE Len(s.out) + 1 < cap /\ c # Backslash
        <5>1. t = [out |-> Append(s.out, c), at |-> "text"] /\ m[n] = "string"
          BY <2>3, <3>2, <3>5, <4>1, <4>2, <4>5
        <5>2. Append(s.out, c) \in Clean
              /\ Len(Append(s.out, c)) = Len(s.out) + 1
          BY <2>4, <2>6, <3>2
        <5>3. QED
          BY <2>4, <2>10, <4>5, <5>1, <5>2
      <4>6. QED
        BY <2>4, <4>3, <4>4, <4>5
    <3>6. QED
      BY <2>4, <2>10, <3>3, <3>4, <3>5
  <2>11. QED
    BY <1>1, <2>4, <2>5, <2>8, <2>9, <2>10
<1>8. \A n \in 0 .. N : n \in T
  <2> HIDE DEF T
  <2>1. QED
    BY <1>1, <1>6, <1>7, Upto DEF N
<1>9. Good(N, v[N])
  BY <1>1, <1>8 DEF N
<1>10. v[N].at = "end"
  <2>1. ~(N <= a)
    BY <1>1 DEF N, a
  <2>2. QED
    BY <1>9, <2>1
<1>11. e # <<>> => a > 0
  BY <1>1 DEF a
<1>12. N > 0
  BY <1>1 DEF N, a
<1>13. Len(<<>>) = 0
  OBVIOUS
<1>14. QED
  BY <1>3, <1>9, <1>10, <1>11, <1>12, <1>13

\* Whatever is read fits the array it is read into.
LEMMA ReadFits ==
  ASSUME NEW value \in Text, NEW cap \in Nat, cap > 1
  PROVE  Value(value, cap) \in Text /\ Len(Value(value, cap)) < cap
<1> DEFINE N == Len(value)
<1>1. value \in Seq(Char) /\ N \in Nat
  BY DEF Text
<1>2. PICK v : IsValue(value, cap, v) /\ Value(value, cap) = v[N].out
  BY <1>1, ValueRun
<1> HIDE DEF N
<1>3. /\ v[0] = Read0
      /\ \A n \in 0 .. N : v[n] \in ReadState
      /\ \A n \in 1 .. N : v[n] = ReadNext(cap, v[n - 1], value[n])
      /\ \A n \in 1 .. N : value[n] \in Char
  BY <1>1, <1>2 DEF IsValue, N
<1> DEFINE Good(s) == /\ Len(s.out) < cap
                      /\ s.at = "slash" => Len(s.out) + 1 < cap
           T == {n \in 0 .. N : Good(v[n])}
<1>4. 0 \in T
  <2>1. v[0].out = <<>> /\ v[0].at = "text" /\ Len(<<>>) = 0
    BY <1>3 DEF Read0
  <2>2. QED
    BY <1>1, <2>1
<1>5. ASSUME NEW n \in 1 .. N, n - 1 \in T PROVE n \in T
  <2> DEFINE s == v[n - 1]
             t == v[n]
             c == value[n]
             out == IF s.at = "slash" THEN Append(s.out, Backslash) ELSE s.out
             known == s.at = "slash" /\ c \in {Quote, Backslash, "n"}
  <2>1. Good(s) /\ s \in ReadState /\ c \in Char
    BY <1>1, <1>3, <1>5
  <2>2. t = ReadNext(cap, s, c)
    BY <1>3
  <2> HIDE DEF s, t, c
  <2>3. ReadMoves(cap, s, c, t)
    BY <2>1, <2>2, ReadStep, Zenon
  <2>4. /\ s.at = "end" => t = s
        /\ known => t = [out |-> Append(s.out, Unescape[c]), at |-> "text"]
        /\ s.at # "end" /\ ~known /\ (c = Quote \/ Len(out) + 1 >= cap) =>
              t = [out |-> out, at |-> "end"]
        /\ s.at # "end" /\ ~known /\ c # Quote /\ Len(out) + 1 < cap =>
              t = IF c = Backslash THEN [out |-> out, at |-> "slash"]
                  ELSE [out |-> Append(out, c), at |-> "text"]
    BY <2>3 DEF ReadMoves
  <2>5. s.out \in Seq(Char) /\ Len(s.out) \in Nat
    BY <2>1 DEF ReadState
  <2>6. out \in Seq(Char) /\ Len(out) < cap /\ Len(out) \in Nat
    <3>1. Backslash \in Char
      BY DEF Char
    <3>2. QED
      BY <2>1, <2>5, <3>1
  <2>7. CASE s.at = "end"
    BY <2>1, <2>4, <2>7 DEF t
  <2>8. CASE known
    <3>1. /\ t = [out |-> Append(s.out, Unescape[c]), at |-> "text"]
          /\ Len(s.out) + 1 < cap
      BY <2>1, <2>4, <2>8
    <3>2. Len(Append(s.out, Unescape[c])) = Len(s.out) + 1
      BY <2>5
    <3>3. Good(t)
      BY <3>1, <3>2
    <3>4. QED
      BY <1>1, <3>3 DEF t
  <2>9. CASE s.at # "end" /\ ~known
    <3> HIDE DEF out, known
    <3>1. Len(Append(out, c)) = Len(out) + 1
      BY <2>6
    <3>2. CASE c = Quote \/ Len(out) + 1 >= cap
      <4>1. t = [out |-> out, at |-> "end"]
        BY <2>4, <2>9, <3>2
      <4>2. Good(t)
        BY <2>6, <4>1
      <4>3. QED
        BY <1>1, <4>2 DEF t
    <3>3. CASE c # Quote /\ Len(out) + 1 < cap
      <4>1. t = IF c = Backslash THEN [out |-> out, at |-> "slash"]
                ELSE [out |-> Append(out, c), at |-> "text"]
        BY <2>4, <2>9, <3>3
      <4>2. Good(t)
        BY <2>6, <3>1, <3>3, <4>1
      <4>3. QED
        BY <1>1, <4>2 DEF t
    <3>4. QED
      BY <2>6, <3>2, <3>3
  <2>10. QED
    BY <2>7, <2>8, <2>9
<1>6. \A n \in 0 .. N : n \in T
  <2> HIDE DEF T
  <2>1. QED
    BY <1>1, <1>4, <1>5, Upto
<1>7. N \in 0 .. N /\ v[N] \in ReadState /\ Good(v[N])
  BY <1>1, <1>3, <1>6
<1>8. QED
  BY <1>2, <1>7 DEF ReadState, Text, N

\* So does what is read of a field, wherever its name is found.
LEMMA FieldFits ==
  ASSUME NEW json \in Text, NEW f, NEW cap \in Nat, cap > 1
  PROVE  FieldStr(json, f, cap) \in Text /\ Len(FieldStr(json, f, cap)) < cap
<1> DEFINE places == {i \in 1 .. Len(json) - 4 : IsNeedle(json, i, f)}
           first  == CHOOSE i \in places : \A j \in places : i <= j
<1>1. CASE places = {}
  <2>1. FieldStr(json, f, cap) = <<>>
    BY <1>1 DEF FieldStr
  <2>2. <<>> \in Text /\ Len(<<>>) = 0
    BY DEF Text
  <2>3. QED
    BY <2>1, <2>2
<1>2. CASE places # {}
  <2>1. places \in SUBSET Nat
    OBVIOUS
  <2>2. FieldStr(json, f, cap) = Value(SubSeq(json, first + 5, Len(json)), cap)
    BY <1>2 DEF FieldStr
  <2> HIDE DEF places
  <2>3. \E i \in places : \A j \in places : i <= j
    BY <1>2, <2>1, Least
  <2>4. first \in places
    BY <2>3
  <2>5. first \in Nat
    BY <2>1, <2>4
  <2> HIDE DEF first
  <2>6. SubSeq(json, first + 5, Len(json)) \in Text
    <3>1. \A i \in first + 5 .. Len(json) : i \in 1 .. Len(json)
      BY <2>5 DEF Text
    <3>2. QED
      BY <2>5, <3>1 DEF Text
  <2>7. QED
    BY <2>2, <2>6, ReadFits
<1>3. QED
  BY <1>1, <1>2

\* In the whole w[N] each piece stands after the ones before it.
InPlace(N, w, x) ==
    /\ \A n \in 0 .. N :
          /\ Len(w[n]) \in Nat /\ Len(w[n]) <= Len(w[N])
          /\ \A j \in 1 .. Len(w[n]) : w[N][j] = w[n][j]
    /\ \A n \in 1 .. N :
          /\ Len(w[n]) = Len(w[n - 1]) + Len(x[n])
          /\ \A j \in 1 .. Len(x[n]) : w[N][Len(w[n - 1]) + j] = x[n][j]

\* A run that only appends leaves every piece in its place.
LEMMA Pieces ==
  ASSUME NEW C, NEW N \in Nat, NEW w \in [0 .. N -> Seq(C)], NEW x,
         \A n \in 1 .. N : x[n] \in Seq(C) /\ w[n] = w[n - 1] \o x[n]
  PROVE  InPlace(N, w, x)
<1> DEFINE l(n) == Len(w[n])
           y(n) == Len(x[n])
<1>1. ASSUME NEW n \in 1 .. N
      PROVE  /\ l(n) = l(n - 1) + y(n) /\ l(n - 1) \in Nat /\ y(n) \in Nat
             /\ \A j \in 1 .. l(n - 1) : w[n][j] = w[n - 1][j]
             /\ \A j \in 1 .. y(n) : w[n][l(n - 1) + j] = x[n][j]
  <2>1. n - 1 \in 0 .. N
    OBVIOUS
  <2>2. w[n - 1] \in Seq(C) /\ x[n] \in Seq(C) /\ w[n] = w[n - 1] \o x[n]
    BY <2>1, Zenon
  <2>3. Joins(C, w[n - 1], x[n], w[n])
    BY <2>2, Concat, Zenon
  <2>4. Len(w[n - 1]) \in Nat /\ Len(x[n]) \in Nat
    BY <2>2
  <2>5. QED
    BY <2>3, <2>4, Zenon DEF Joins
<1>2. \A n \in 0 .. N : l(n) \in Nat
  OBVIOUS
<1> HIDE DEF l, y
<1>3. ASSUME NEW i \in 0 .. N
      PROVE  l(i) <= l(N) /\ \A j \in 1 .. l(i) : w[N][j] = w[i][j]
  <2> DEFINE Good(n) == i <= n =>
                  /\ l(i) <= l(n)
                  /\ \A j \in 1 .. l(i) : w[n][j] = w[i][j]
             T == {n \in 0 .. N : Good(n)}
  <2>1. l(i) \in Nat
    BY <1>2
  <2>2. 0 \in T
    <3>1. i <= 0 => i = 0
      OBVIOUS
    <3>2. QED
      BY <2>1, <3>1
  <2>3. ASSUME NEW n \in 1 .. N, n - 1 \in T PROVE n \in T
    <3>1. l(n) = l(n - 1) + y(n) /\ l(n - 1) \in Nat /\ y(n) \in Nat
      BY <1>1
    <3>2. CASE i <= n - 1
      <4>1. /\ l(i) <= l(n - 1)
            /\ \A j \in 1 .. l(i) : w[n - 1][j] = w[i][j]
        BY <2>3, <3>2
      <4>2. l(i) <= l(n)
        BY <2>1, <3>1, <4>1
      <4>3. \A j \in 1 .. l(i) : j \in 1 .. l(n - 1)
        BY <2>1, <3>1, <4>1
      <4>4. \A j \in 1 .. l(n - 1) : w[n][j] = w[n - 1][j]
        BY <1>1
      <4>5. \A j \in 1 .. l(i) : w[n][j] = w[i][j]
        BY <4>1, <4>3, <4>4
      <4>6. QED
        BY <4>2, <4>5
    <3>3. CASE ~(i <= n - 1)
      <4>1. i <= n => i = n
        BY <3>3
      <4>2. QED
        BY <2>1, <4>1
    <3>4. QED
      BY <3>2, <3>3
  <2>4. \A n \in 0 .. N : n \in T
    <3> HIDE DEF T
    <3>1. QED
      BY <2>2, <2>3, Upto
  <2>5. Good(N)
    BY <2>4
  <2>6. QED
    BY <2>5
<1>4. ASSUME NEW n \in 1 .. N, NEW j \in 1 .. y(n)
      PROVE  w[N][l(n - 1) + j] = x[n][j]
  <2>1. l(n) = l(n - 1) + y(n) /\ l(n - 1) \in Nat /\ y(n) \in Nat
    BY <1>1
  <2>2. l(n - 1) + j \in 1 .. l(n) /\ n \in 0 .. N
    BY <2>1
  <2>3. w[N][l(n - 1) + j] = w[n][l(n - 1) + j]
    BY <1>3, <2>2
  <2>4. w[n][l(n - 1) + j] = x[n][j]
    BY <1>1
  <2>5. QED
    BY <2>3, <2>4
<1>5. \A n \in 1 .. N : l(n) = l(n - 1) + y(n)
  BY <1>1
<1>6. QED
  BY <1>2, <1>3, <1>4, <1>5 DEF l, y, InPlace

\* A client writes a character as itself, or as a backslash and a character
\* that json_field_str reads as it.
LEMMA MessageUnit ==
  ASSUME NEW c \in Char
  PROVE  LET u == MessageEscape(c)
         IN  /\ u \in Seq(Char)
             /\ \/ Len(u) = 1 /\ u[1] = c /\ c \notin {Quote, Backslash}
                \/ /\ Len(u) = 2 /\ u[1] = Backslash
                   /\ u[2] \in {Quote, Backslash, "n"} /\ Unescape[u[2]] = c
<1>1. MessageEscape(c) \in Seq(Char)
  BY EscapeType
<1>2. CASE c = Newline
  <2>1. MessageEscape(c) = <<Backslash, "n">>
    BY <1>2 DEF MessageEscape
  <2>2. Unescape["n"] = Newline
    BY DEF Unescape
  <2>3. QED
    BY <1>1, <1>2, <2>1, <2>2
<1>3. CASE c \in {Quote, Backslash}
  <2>1. MessageEscape(c) = <<Backslash, c>>
    BY <1>3, Signs DEF MessageEscape, Escape
  <2>2. Unescape[c] = c
    BY <1>3, Signs DEF Unescape
  <2>3. QED
    BY <1>1, <1>3, <2>1, <2>2
<1>4. CASE c \notin {Quote, Backslash, Newline}
  <2>1. MessageEscape(c) = <<c>>
    BY <1>4 DEF MessageEscape, Escape
  <2>2. QED
    BY <1>1, <1>4, <2>1
<1>5. QED
  BY <1>2, <1>3, <1>4

\* A client's escape of a text does not end its string.
LEMMA MessageQuoted ==
  ASSUME NEW text \in Text
  PROVE  Quoted(MessageText(text), {}, {})
<1> DEFINE N == Len(text)
<1>1. PICK m : IsMessage(text, m) /\ MessageText(text) = m[N]
  BY MessageRun DEF Text
<1> DEFINE T == {n \in 0 .. N : Quoted(m[n], {}, {})}
<1>2. N \in Nat /\ \A n \in 1 .. N : text[n] \in Char
  BY DEF Text
<1>3. 0 \in T
  <2>1. m[0] = <<>> /\ 0 \in 0 .. N
    BY <1>1, <1>2 DEF IsMessage
  <2>2. Quoted(<<>>, {}, {})
    BY EmptyQuoted
  <2>3. QED
    BY <2>1, <2>2
<1>4. ASSUME NEW n \in 1 .. N, n - 1 \in T PROVE n \in T
  <2> DEFINE u == MessageEscape(text[n])
  <2>1. m[n] = m[n - 1] \o u /\ Quoted(m[n - 1], {}, {}) /\ n \in 0 .. N
    <3>1. m[n] = m[n - 1] \o u
      BY <1>1 DEF IsMessage
    <3>2. Quoted(m[n - 1], {}, {})
      BY <1>4
    <3>3. n \in 0 .. N
      BY <1>2
    <3>4. QED
      BY <3>1, <3>2, <3>3
  <2>2. text[n] \in Char
    BY <1>2
  <2>3. /\ u \in Seq(Char)
        /\ \/ Len(u) = 1 /\ u[1] \notin {Quote, Backslash}
           \/ Len(u) = 2 /\ u[1] = Backslash
    BY <2>2, MessageUnit
  <2> HIDE DEF u
  <2>4. Unit(u, {}, {})
    <3>1. u \in Text /\ Len(u) \in 1 .. 6
      BY <2>3 DEF Text
    <3>2. \/ Len(u) = 1 /\ u[1] \notin {} \cup {Quote, Backslash}
          \/ /\ Len(u) >= 2 /\ u[1] = Backslash
             /\ u[2] \notin {} \cup {}
             /\ \A i \in 3 .. Len(u) : u[i] \notin {} \cup {Quote, Backslash}
      <4>1. CASE Len(u) = 1 /\ u[1] \notin {Quote, Backslash}
        <5>1. u[1] \notin {} \cup {Quote, Backslash}
          BY <4>1, Zenon
        <5>2. QED
          BY <4>1, <5>1
      <4>2. CASE Len(u) = 2 /\ u[1] = Backslash
        <5>1. u[2] \notin {} \cup {}
          BY Zenon
        <5>2. Len(u) >= 2 /\ \A i \in 3 .. Len(u) : FALSE
          BY <4>2
        <5>3. QED
          BY <4>2, <5>1, <5>2
      <4>3. QED
        BY <2>3, <4>1, <4>2, Zenon
    <3>3. QED
      BY <3>1, <3>2 DEF Unit
  <2>5. Quoted(m[n - 1] \o u, {}, {})
    BY <2>1, <2>4, QuotedGrows
  <2>6. QED
    BY <2>1, <2>5
<1>5. N \in T
  <2> HIDE DEF T, N
  <2>1. \A n \in 0 .. N : n \in T
    BY <1>2, <1>3, <1>4, Upto
  <2>2. QED
    BY <1>2, <2>1
<1>6. QED
  BY <1>1, <1>5

\* A harmless text is quoted as it is, and is what a client would write.
LEMMA HarmlessText ==
  ASSUME NEW t \in Text, Harmless(t)
  PROVE  MessageText(t) = t /\ Quoted(t, {}, {})
<1> DEFINE N == Len(t)
<1>1. /\ t \in Seq(Char) /\ N \in Nat
      /\ \A i \in 1 .. N :
            t[i] \in Char /\ t[i] \notin {Quote, Backslash, Newline}
  BY DEF Text, Harmless, ToSet
<1>2. PICK m : IsMessage(t, m) /\ MessageText(t) = m[N]
  BY <1>1, MessageRun
<1> DEFINE T == {n \in 0 .. N : /\ m[n] \in Seq(Char) /\ Len(m[n]) = n
                               /\ \A i \in 1 .. n : m[n][i] = t[i]}
<1>3. 0 \in T
  <2>1. m[0] = <<>> /\ 0 \in 0 .. N
    BY <1>1, <1>2 DEF IsMessage
  <2>2. m[0] \in Seq(Char) /\ Len(m[0]) = 0 /\ \A i \in 1 .. 0 : FALSE
    BY <2>1
  <2>3. \A i \in 1 .. 0 : m[0][i] = t[i]
    BY <2>2, Zenon
  <2>4. QED
    BY <2>1, <2>2, <2>3, Zenon
<1>4. ASSUME NEW n \in 1 .. N, n - 1 \in T PROVE n \in T
  <2>1. MessageEscape(t[n]) = <<t[n]>>
    BY <1>1 DEF MessageEscape, Escape
  <2>2. m[n] = m[n - 1] \o <<t[n]>>
    BY <1>2, <2>1 DEF IsMessage
  <2>3. /\ m[n - 1] \in Seq(Char) /\ Len(m[n - 1]) = n - 1
        /\ \A i \in 1 .. n - 1 : m[n - 1][i] = t[i]
    BY <1>4
  <2>4. <<t[n]>> \in Seq(Char) /\ Len(<<t[n]>>) = 1 /\ <<t[n]>>[1] = t[n]
    BY <1>1
  <2>5. Joins(Char, m[n - 1], <<t[n]>>, m[n])
    BY <2>2, <2>3, <2>4, Concat
  <2>6. /\ m[n] \in Seq(Char) /\ Len(m[n]) = (n - 1) + 1
        /\ \A i \in 1 .. n - 1 : m[n][i] = t[i]
        /\ m[n][(n - 1) + 1] = t[n]
    BY <2>3, <2>4, <2>5 DEF Joins
  <2>7. \A i \in 1 .. n : i \in 1 .. n - 1 \/ i = n
    BY <1>1
  <2>8. QED
    BY <1>1, <2>6, <2>7
<1>5. N \in T
  <2> HIDE DEF T, N
  <2>1. \A n \in 0 .. N : n \in T
    BY <1>1, <1>3, <1>4, Upto
  <2>2. QED
    BY <1>1, <2>1
<1>6. m[N] = t
  <2> DEFINE x == m[N]
  <2>1. x \in Seq(Char) /\ Len(x) = N /\ \A i \in 1 .. N : x[i] = t[i]
    BY <1>5
  <2> HIDE DEF x
  <2>2. x = t
    BY <1>1, <2>1
  <2>3. QED
    BY <2>2 DEF x
<1>7. Quoted(t, {}, {})
  BY <1>2, <1>6, MessageQuoted
<1>8. QED
  BY <1>2, <1>6, <1>7

\* json_field_str reads what a client wrote, as far as there is room.
LEMMA ReadMessage ==
  ASSUME NEW t \in Text, NEW value, Begins(value, MessageText(t)),
         NEW cap \in Nat, cap > 1
  PROVE  Value(value, cap) = Cut(t, cap)
<1> DEFINE N == Len(t)
           L == Len(value)
<1>1. t \in Seq(Char) /\ N \in Nat /\ value \in Seq(Char) /\ L \in Nat
  BY DEF Text, Begins
<1>2. PICK m : IsMessage(t, m) /\ MessageText(t) = m[N]
  BY <1>1, MessageRun
<1>3. PICK v : IsValue(value, cap, v) /\ Value(value, cap) = v[L].out
  BY <1>1, ValueRun
<1> DEFINE x == [n \in 1 .. N |-> MessageEscape(t[n])]
<1>4. /\ \A n \in 0 .. N : Len(m[n]) \in Nat /\ Len(m[n]) <= Len(m[N])
      /\ \A n \in 1 .. N :
            /\ Len(m[n]) = Len(m[n - 1]) + Len(x[n])
            /\ \A j \in 1 .. Len(x[n]) : m[N][Len(m[n - 1]) + j] = x[n][j]
  <2>1. m \in [0 .. N -> Seq(Char)]
    BY <1>2 DEF IsMessage, Text
  <2>2. \A n \in 1 .. N : x[n] \in Seq(Char) /\ m[n] = m[n - 1] \o x[n]
    <3>1. \A n \in 1 .. N : t[n] \in Char
      BY <1>1
    <3>2. QED
      BY <1>2, <3>1, EscapeType DEF IsMessage
  <2> HIDE DEF x, N
  <2>3. InPlace(N, m, x)
    BY <1>1, <2>1, <2>2, Pieces, Zenon
  <2>4. QED
    BY <2>3 DEF InPlace
<1>5. /\ Len(m[N]) < L /\ value[Len(m[N]) + 1] = Quote
      /\ \A i \in 1 .. Len(m[N]) : value[i] = m[N][i]
  BY <1>2 DEF Begins
<1> HIDE DEF N, L
<1>6. /\ v[0] = Read0
      /\ \A n \in 0 .. L : v[n] \in ReadState
      /\ \A n \in 1 .. L : v[n] = ReadNext(cap, v[n - 1], value[n])
  BY <1>3 DEF IsValue, L
<1>7. ASSUME NEW n \in 1 .. N
      PROVE  LET u == MessageEscape(t[n])
                 q == Len(m[n - 1])
             IN  /\ q \in Nat /\ q + Len(u) < L /\ Len(m[n]) = q + Len(u)
                 /\ value[q + 1] = u[1]
                 /\ Len(u) = 2 => value[q + 2] = u[2]
  <2> DEFINE u == MessageEscape(t[n])
             q == Len(m[n - 1])
  <2>1. u = x[n] /\ Len(u) \in 1 .. 2
    <3>1. t[n] \in Char
      BY <1>1 DEF N
    <3>2. QED
      BY <3>1, MessageUnit
  <2> HIDE DEF x, u
  <2> DEFINE b == Len(u)
             r == Len(m[n])
             M == Len(m[N])
  <2>2. n - 1 \in 0 .. N /\ n \in 0 .. N /\ N \in 0 .. N
    BY <1>1
  <2>3. q \in Nat /\ r = q + b /\ r <= M /\ M \in Nat
    BY <1>4, <2>1, <2>2
  <2>4. \A j \in 1 .. b : m[N][q + j] = u[j]
    BY <1>4, <2>1
  <2>5. b \in 1 .. 2 /\ M < L
    BY <1>5, <2>1
  <2> HIDE DEF q, b, r, M
  <2>6. \A j \in 1 .. b : q + j \in 1 .. M
    BY <2>3, <2>5
  <2>7. \A j \in 1 .. b : value[q + j] = u[j]
    BY <1>5, <2>4, <2>6 DEF M
  <2>8. 1 \in 1 .. b /\ (b = 2 => 2 \in 1 .. b)
    BY <2>5
  <2>9. q + b < L
    BY <1>1, <2>3, <2>5
  <2>10. QED
    BY <2>3, <2>7, <2>8, <2>9 DEF q, u, b, r
<1> DEFINE Good(n) ==
              v[Len(m[n])] =
                  IF n < cap THEN [out |-> SubSeq(t, 1, n), at |-> "text"]
                  ELSE [out |-> SubSeq(t, 1, cap - 1), at |-> "end"]
           T == {n \in 0 .. N : Good(n)}
<1>8. ASSUME NEW i \in 1 .. L, v[i - 1].at = "end"
      PROVE  v[i] = v[i - 1]
  <2>1. v[i - 1] \in ReadState /\ value[i] \in Char
    BY <1>1, <1>6 DEF L
  <2>2. v[i] = ReadNext(cap, v[i - 1], value[i])
    BY <1>6
  <2>3. QED
    <3>1. ReadMoves(cap, v[i - 1], value[i], v[i])
      BY <2>1, <2>2, ReadStep, Zenon
    <3>2. QED
      BY <1>8, <3>1 DEF ReadMoves
<1>9. ASSUME NEW i \in 1 .. L, NEW out, v[i - 1] = [out |-> out, at |-> "text"],
             NEW l \in Nat, Len(out) = l
      PROVE  /\ value[i] = Quote \/ l + 1 >= cap =>
                    v[i] = [out |-> out, at |-> "end"]
             /\ value[i] # Quote /\ l + 1 < cap =>
                    v[i] = IF value[i] = Backslash
                           THEN [out |-> out, at |-> "slash"]
                           ELSE [out |-> Append(out, value[i]), at |-> "text"]
  <2>1. v[i - 1] \in ReadState /\ value[i] \in Char
    BY <1>1, <1>6 DEF L
  <2>2. v[i] = ReadNext(cap, v[i - 1], value[i])
    BY <1>6
  <2>3. v[i - 1].at = "text" /\ v[i - 1].out = out
    BY <1>9
  <2>4. /\ value[i] = Quote \/ Len(out) + 1 >= cap =>
              v[i] = [out |-> out, at |-> "end"]
        /\ value[i] # Quote /\ Len(out) + 1 < cap =>
              v[i] = IF value[i] = Backslash THEN [out |-> out, at |-> "slash"]
                     ELSE [out |-> Append(out, value[i]), at |-> "text"]
    <3>1. ReadMoves(cap, v[i - 1], value[i], v[i])
      BY <2>1, <2>2, ReadStep, Zenon
    <3>2. QED
      BY <2>3, <3>1 DEF ReadMoves
  <2>5. QED
    BY <1>9, <2>4
<1>10. ASSUME NEW i \in 1 .. L, NEW out,
              v[i - 1] = [out |-> out, at |-> "slash"],
              value[i] \in {Quote, Backslash, "n"}
       PROVE  v[i] = [out |-> Append(out, Unescape[value[i]]), at |-> "text"]
  <2>1. v[i - 1] \in ReadState /\ value[i] \in Char
    BY <1>1, <1>6 DEF L
  <2>2. v[i] = ReadNext(cap, v[i - 1], value[i])
    BY <1>6
  <2>3. v[i - 1].at = "slash" /\ v[i - 1].out = out
    BY <1>10
  <2>4. QED
    <3>1. ReadMoves(cap, v[i - 1], value[i], v[i])
      BY <2>1, <2>2, ReadStep, Zenon
    <3>2. QED
      BY <1>10, <2>3, <3>1 DEF ReadMoves
<1>11. 0 \in T
  <2>1. m[0] = <<>> /\ Len(m[0]) = 0
    BY <1>2 DEF IsMessage
  <2>2. SubSeq(t, 1, 0) = <<>>
    BY <1>1
  <2>3. QED
    BY <1>1, <1>6, <2>1, <2>2 DEF Read0
<1>12. ASSUME NEW n \in 1 .. N, n - 1 \in T PROVE n \in T
  <2> DEFINE u == MessageEscape(t[n])
             q == Len(m[n - 1])
             out == SubSeq(t, 1, n - 1)
  <2>1. /\ q \in Nat /\ q + Len(u) < L /\ Len(m[n]) = q + Len(u)
        /\ value[q + 1] = u[1]
        /\ Len(u) = 2 => value[q + 2] = u[2]
    BY <1>7
  <2>2. t[n] \in Char
    BY <1>1 DEF N
  <2>3. \/ Len(u) = 1 /\ u[1] = t[n] /\ t[n] \notin {Quote, Backslash}
        \/ /\ Len(u) = 2 /\ u[1] = Backslash
           /\ u[2] \in {Quote, Backslash, "n"} /\ Unescape[u[2]] = t[n]
    BY <2>2, MessageUnit
  <2>4. Good(n - 1)
    BY <1>12
  <2>5. /\ Len(out) = n - 1 /\ Append(out, t[n]) = SubSeq(t, 1, n)
        /\ n \in Nat /\ n - 1 \in Nat
    BY <1>1 DEF N
  <2> HIDE DEF u, q, out
  <2>6. q + 1 \in 1 .. L /\ (q + 1) - 1 = q
    BY <1>1, <2>1, <2>3
  <2>7. Len(u) = 2 => q + 2 \in 1 .. L /\ (q + 2) - 1 = q + 1
    BY <1>1, <2>1
  <2>8. CASE n - 1 >= cap
    <3>1. /\ v[q].at = "end"
          /\ v[q] = [out |-> SubSeq(t, 1, cap - 1), at |-> "end"]
      BY <2>4, <2>5, <2>8 DEF q
    <3>2. v[q + 1] = v[q]
      BY <1>8, <2>6, <3>1
    <3>3. Len(u) = 2 => v[q + 2] = v[q]
      BY <1>8, <2>7, <3>1, <3>2
    <3>4. v[Len(m[n])] = v[q]
      BY <2>1, <2>3, <3>2, <3>3
    <3>5. ~(n < cap)
      BY <2>5, <2>8
    <3>6. QED
      BY <3>1, <3>4, <3>5
  <2>9. CASE n - 1 < cap
    <3>1. v[q] = [out |-> out, at |-> "text"]
      BY <2>4, <2>9 DEF q, out
    <3>2. /\ value[q + 1] = Quote \/ n >= cap =>
                v[q + 1] = [out |-> out, at |-> "end"]
          /\ value[q + 1] # Quote /\ n < cap =>
                v[q + 1] = IF value[q + 1] = Backslash
                           THEN [out |-> out, at |-> "slash"]
                           ELSE [out |-> Append(out, value[q + 1]),
                                 at |-> "text"]
      <4>1. v[(q + 1) - 1] = [out |-> out, at |-> "text"]
        BY <2>6, <3>1
      <4>2. (n - 1) + 1 = n
        BY <2>5
      <4>3. QED
        BY <1>9, <2>5, <2>6, <4>1, <4>2
    <3>3. CASE n >= cap
      <4>1. n - 1 = cap - 1 /\ ~(n < cap)
        BY <2>5, <2>9, <3>3
      <4>2. v[q + 1] = [out |-> SubSeq(t, 1, cap - 1), at |-> "end"]
        BY <3>2, <3>3, <4>1 DEF out
      <4>3. Len(u) = 2 => v[q + 2] = v[q + 1]
        BY <1>8, <2>7, <4>2
      <4>4. v[Len(m[n])] = v[q + 1]
        BY <2>1, <2>3, <4>3
      <4>5. QED
        BY <4>1, <4>2, <4>4
    <3>4. CASE n < cap /\ Len(u) = 1
      <4>1. v[q + 1] = [out |-> Append(out, t[n]), at |-> "text"]
        BY <2>1, <2>3, <3>2, <3>4, SMTT(30)
      <4>2. v[Len(m[n])] = [out |-> SubSeq(t, 1, n), at |-> "text"]
        BY <2>1, <2>5, <3>4, <4>1
      <4>3. QED
        BY <3>4, <4>2
    <3>5. CASE n < cap /\ Len(u) = 2
      <4>1. v[q + 1] = [out |-> out, at |-> "slash"]
        BY <2>1, <2>3, <3>2, <3>5, Signs
      <4>2. v[q + 2] = [out |-> Append(out, t[n]), at |-> "text"]
        BY <1>10, <2>1, <2>3, <2>7, <3>5, <4>1
      <4>3. v[Len(m[n])] = [out |-> SubSeq(t, 1, n), at |-> "text"]
        BY <2>1, <2>5, <3>5, <4>2
      <4>4. QED
        BY <3>5, <4>3
    <3>6. n >= cap \/ n < cap
      BY <2>5
    <3>7. QED
      BY <2>3, <3>3, <3>4, <3>5, <3>6
  <2>10. n - 1 >= cap \/ n - 1 < cap
    BY <2>5
  <2>11. QED
    BY <2>8, <2>9, <2>10
<1>13. \A n \in 0 .. N : n \in T
  <2> HIDE DEF T
  <2>1. QED
    BY <1>1, <1>11, <1>12, Upto
<1>14. Good(N)
  <2>1. N \in 0 .. N
    BY <1>1
  <2> HIDE DEF Good
  <2>2. QED
    BY <1>13, <2>1
<1> DEFINE q == Len(m[N])
<1>15. q \in Nat /\ q + 1 \in 1 .. L /\ (q + 1) - 1 = q /\ q \in 0 .. L
  BY <1>1, <1>4, <1>5
<1>16. value \in Text
  BY DEF Begins
<1>17. CASE N < cap
  <2>1. v[q] = [out |-> t, at |-> "text"]
    <3>1. SubSeq(t, 1, N) = t
      BY <1>1 DEF N
    <3>2. QED
      BY <1>14, <1>17, <3>1
  <2>2. v[q + 1] = [out |-> t, at |-> "end"]
    <3>1. v[(q + 1) - 1] = [out |-> t, at |-> "text"] /\ Len(t) = N
      BY <1>15, <2>1 DEF N
    <3> HIDE DEF q
    <3>2. value[q + 1] = Quote
      BY <1>5 DEF q
    <3>3. QED
      BY <1>1, <1>9, <1>15, <3>1, <3>2
  <2>3. v[L] = v[q + 1]
    <3> HIDE DEF q
    <3>1. q + 1 \in 0 .. Len(value) /\ v[q + 1].at = "end"
      BY <1>1, <1>15, <2>2 DEF L
    <3>2. QED
      BY <1>3, <1>16, <3>1, EndStays DEF L
  <2>4. QED
    BY <1>3, <1>17, <2>2, <2>3 DEF Cut, N
<1>18. CASE ~(N < cap)
  <2>1. v[q] = [out |-> SubSeq(t, 1, cap - 1), at |-> "end"]
    BY <1>14, <1>18
  <2>2. v[L] = v[q]
    <3> HIDE DEF q
    <3>1. q \in 0 .. Len(value) /\ v[q].at = "end"
      BY <1>1, <1>15, <2>1 DEF L
    <3>2. QED
      BY <1>3, <1>16, <3>1, EndStays DEF L
  <2>3. QED
    BY <1>3, <1>18, <2>1, <2>2 DEF Cut, N
<1>19. QED
  BY <1>17, <1>18

\* The store has a text without control characters as a client would write it,
\* when it fits a field.
LEMMA EscapedPlain ==
  ASSUME NEW t \in Clean, NEW cap \in Nat, 2 * Len(t) < cap
  PROVE  Escaped(t, cap) = MessageText(t)
<1> DEFINE N == Len(t)
<1>1. /\ t \in Seq(Char) /\ N \in Nat
      /\ \A i \in 1 .. N : t[i] \in Char /\ t[i] # Newline
  BY DEF Clean
<1>2. PICK m : IsMessage(t, m) /\ MessageText(t) = m[N]
  BY <1>1, MessageRun
<1>3. PICK e : IsEscape(t, cap, e) /\ Escaped(t, cap) = e[N].out
  BY <1>1, EscapeRun
<1> DEFINE T == {n \in 0 .. N : e[n] = [out |-> m[n], full |-> FALSE]
                                /\ Len(m[n]) <= 2 * n}
<1>4. 0 \in T
  BY <1>1, <1>2, <1>3 DEF IsMessage, IsEscape, Escape0
<1>5. ASSUME NEW n \in 1 .. N, n - 1 \in T PROVE n \in T
  <2> DEFINE u == MessageEscape(t[n])
             p == Len(m[n - 1])
  <2>1. /\ e[n - 1] = [out |-> m[n - 1], full |-> FALSE]
        /\ p <= 2 * (n - 1)
    BY <1>5
  <2>2. t[n] \in Char /\ Escape(t[n]) = u
    BY <1>1 DEF MessageEscape
  <2>3. u \in Seq(Char) /\ Len(u) \in 1 .. 2
    BY <2>2, MessageUnit
  <2>4. /\ m[n - 1] \in Seq(Char)
        /\ m[n] = m[n - 1] \o u
    <3>1. n - 1 \in 0 .. N
      BY <1>1
    <3>2. QED
      BY <1>2, <3>1 DEF IsMessage, Text
  <2>5. e[n] = EscapeNext(cap, e[n - 1], t[n])
    BY <1>3 DEF IsEscape
  <2> HIDE DEF u
  <2> DEFINE b == Len(u)
  <2>6. Len(m[n]) = p + b
    BY <2>3, <2>4
  <2>7. p \in Nat /\ b \in 1 .. 2
    BY <2>3, <2>4
  <2> HIDE DEF p, b
  <2>8. p + b <= 2 * n /\ ~(p + b >= cap)
    BY <1>1, <2>1, <2>7
  <2>9. e[n] = [out |-> m[n - 1] \o u, full |-> FALSE]
    <3> DEFINE d == e[n - 1]
    <3>1. d = [out |-> m[n - 1], full |-> FALSE]
      BY <2>1
    <3>2. d.out = m[n - 1] /\ d.full = FALSE
      BY <3>1
    <3>3. e[n] = [d EXCEPT !.out = @ \o u]
      BY <2>2, <2>5, <2>8, <3>2, Zenon DEF EscapeNext, p, b
    <3> HIDE DEF d
    <3>4. QED
      BY <3>1, <3>3
  <2>10. e[n] = [out |-> m[n], full |-> FALSE]
    BY <2>4, <2>9
  <2>11. QED
    BY <2>6, <2>8, <2>10
<1>6. \A n \in 0 .. N : n \in T
  <2> HIDE DEF T, N
  <2>1. QED
    BY <1>1, <1>4, <1>5, Upto
<1>7. N \in T
  BY <1>1, <1>6
<1>8. QED
  BY <1>2, <1>3, <1>7

-----------------------------------------------------------------------------
(* Finding the objects of a file.                                            *)

Seek(found) == [found |-> found, object |-> <<>>, depth |-> 0, at |-> "seek"]

\* u stands after the first q characters of file.
Stands(u, file, q) ==
    /\ q \in 0 .. Len(file) /\ q + Len(u) <= Len(file)
    /\ \A i \in 1 .. Len(u) : file[q + i] = u[i]

\* The search takes an object of two quoted texts as a whole: no text ends its
\* string or the object early, and no brace in a text counts.
LEMMA ScanObject ==
  ASSUME NEW file \in Text, NEW cap \in Nat, NEW s, IsScan(file, cap, s),
         NEW h, Quoted(h, {}, {}), NEW k, Quoted(k, {}, {}), NEW q \in Nat,
         Stands(Object(h, k), file, q), Len(Object(h, k)) < cap,
         NEW found, s[q] = Seek(found)
  PROVE  s[q + Len(Object(h, k))] = Seek(Append(found, Object(h, k)))
<1> DEFINE u == Object(h, k)
           a == Len(h)
           b == Len(k)
           M == 14 + a + b
<1>1. h \in Text /\ k \in Text
  BY DEF Quoted
<1>2. /\ u \in Text /\ a \in Nat /\ b \in Nat /\ Len(u) = 15 + a + b
      /\ u[1] = Open /\ u[2] = Quote /\ u[3] = "protocol" /\ u[4] = Quote
      /\ u[5] = Colon /\ u[6] = Quote
      /\ \A i \in 1 .. a : u[6 + i] = h[i]
      /\ u[7 + a] = Quote /\ u[8 + a] = Comma
      /\ u[9 + a] = Quote /\ u[10 + a] = "text" /\ u[11 + a] = Quote
      /\ u[12 + a] = Colon /\ u[13 + a] = Quote
      /\ \A i \in 1 .. b : u[13 + a + i] = k[i]
      /\ u[14 + a + b] = Quote /\ u[15 + a + b] = Close
  BY <1>1, ObjectLayout
<1>3. PICK m : /\ IsMarks(h, m)
               /\ m[Len(h)] = "string"
               /\ \A i \in 1 .. Len(h) :
                     m[i - 1] = "string" => h[i] # Quote
  BY DEF Quoted
<1>4. PICK o : /\ IsMarks(k, o)
               /\ o[Len(k)] = "string"
               /\ \A i \in 1 .. Len(k) :
                     o[i - 1] = "string" => k[i] # Quote
  BY DEF Quoted
<1>5. /\ m \in [0 .. a -> {"string", "slash"}] /\ m[0] = "string"
      /\ m[a] = "string"
      /\ \A i \in 1 .. a :
            /\ m[i] = IF m[i - 1] = "string" /\ h[i] = Backslash THEN "slash"
                      ELSE "string"
            /\ m[i - 1] = "string" => h[i] # Quote
  BY <1>3 DEF IsMarks
<1>6. /\ o \in [0 .. b -> {"string", "slash"}] /\ o[0] = "string"
      /\ o[b] = "string"
      /\ \A i \in 1 .. b :
            /\ o[i] = IF o[i - 1] = "string" /\ k[i] = Backslash THEN "slash"
                      ELSE "string"
            /\ o[i - 1] = "string" => k[i] # Quote
  BY <1>4 DEF IsMarks
<1>7. /\ q \in 0 .. Len(file) /\ Len(file) \in Nat
      /\ \A i \in 1 .. Len(file) : file[i] \in Char
      /\ q + Len(u) <= Len(file) /\ Len(u) < cap
      /\ \A i \in 1 .. Len(u) : file[q + i] = u[i]
  BY DEF Text, Stands
<1>8. /\ \A n \in 0 .. Len(file) : s[n] \in ScanState
      /\ \A n \in 1 .. Len(file) : s[n] = ScanNext(cap, s[n - 1], file[n])
  BY DEF IsScan
<1> HIDE DEF u, a, b
<1> DEFINE At(i) == IF i = 1 THEN "object"
                    ELSE IF i <= 3 THEN "string"
                    ELSE IF i <= 5 THEN "object"
                    ELSE IF i <= 6 + a THEN m[i - 6]
                    ELSE IF i <= 8 + a THEN "object"
                    ELSE IF i <= 10 + a THEN "string"
                    ELSE IF i <= 12 + a THEN "object"
                    ELSE IF i <= 13 + a + b THEN o[i - 13 - a]
                    ELSE "object"
           Move(at, c, next) ==
                 /\ at \in {"object", "string", "slash"}
                 /\ at = "slash" => next = "string"
                 /\ at = "string" =>
                        next = IF c = Backslash THEN "slash"
                               ELSE IF c = Quote THEN "object" ELSE "string"
                 /\ at = "object" =>
                        \/ c = Quote /\ next = "string"
                        \/ c \notin {Quote, Open, Close} /\ next = "object"
<1>9. ASSUME NEW i \in 2 .. M
      PROVE  Move(At(i - 1), u[i], At(i))
  <2>1. i \in 2 .. 6 \/ i \in 7 .. 6 + a \/ i \in 7 + a .. 13 + a
        \/ i \in 14 + a .. 13 + a + b \/ i = 14 + a + b
    BY <1>2
  <2>2. \A c \in {"protocol", "text", Colon, Comma} :
            c \notin {Quote, Open, Close, Backslash}
    BY Signs
  <2>3. CASE i \in 2 .. 6
    <3>1. i = 2 \/ i = 3 \/ i = 4 \/ i = 5 \/ i = 6
      BY <2>3
    <3>2. /\ At(1) = "object" /\ At(2) = "string" /\ At(3) = "string"
          /\ At(4) = "object" /\ At(5) = "object" /\ At(6) = "string"
      BY <1>2, <1>5
    <3> HIDE DEF At
    <3>3. QED
      BY <1>2, <2>2, <3>1, <3>2, Signs, SMTT(30)
  <2>4. CASE i \in 7 .. 6 + a
    <3> DEFINE j == i - 6
    <3>1. j \in 1 .. a /\ i = 6 + j
      BY <1>2, <2>4
    <3>2. At(i) = m[j] /\ At(i - 1) = m[j - 1]
      BY <1>2, <2>4, SMTT(30)
    <3> HIDE DEF At, j
    <3>3. m[j - 1] \in {"string", "slash"}
      BY <1>2, <1>5, <3>1
    <3>4. u[i] = h[j]
      BY <1>2, <3>1
    <3>5. QED
      BY <1>5, <3>1, <3>2, <3>3, <3>4
  <2>5. CASE i \in 7 + a .. 13 + a
    <3>1. i = 7 + a \/ i = 8 + a \/ i = 9 + a \/ i = 10 + a \/ i = 11 + a
          \/ i = 12 + a \/ i = 13 + a
      BY <1>2, <2>5
    <3>2. /\ At(6 + a) = "string" /\ At(7 + a) = "object"
          /\ At(8 + a) = "object" /\ At(9 + a) = "string"
          /\ At(10 + a) = "string" /\ At(11 + a) = "object"
          /\ At(12 + a) = "object" /\ At(13 + a) = "string"
      BY <1>2, <1>5, <1>6, SMTT(30)
    <3>3. /\ (7 + a) - 1 = 6 + a /\ (8 + a) - 1 = 7 + a /\ (9 + a) - 1 = 8 + a
          /\ (10 + a) - 1 = 9 + a /\ (11 + a) - 1 = 10 + a
          /\ (12 + a) - 1 = 11 + a /\ (13 + a) - 1 = 12 + a
      BY <1>2
    <3> HIDE DEF At
    <3>4. QED
      BY <1>2, <2>2, <3>1, <3>2, <3>3, Signs, SMTT(30)
  <2>6. CASE i \in 14 + a .. 13 + a + b
    <3> DEFINE j == i - 13 - a
    <3>1. j \in 1 .. b /\ i = 13 + a + j
      BY <1>2, <2>6
    <3>2. At(i) = o[j] /\ At(i - 1) = o[j - 1]
      <4>1. At(i) = o[j]
        BY <1>2, <2>6, SMTT(30)
      <4>2. i - 1 >= 13 + a /\ i - 1 <= 13 + a + b /\ (i - 1) - 13 - a = j - 1
        BY <1>2, <2>6
      <4>3. QED
        BY <1>2, <4>1, <4>2, SMTT(30)
    <3> HIDE DEF At, j
    <3>3. o[j - 1] \in {"string", "slash"}
      BY <1>2, <1>6, <3>1
    <3>4. u[i] = k[j]
      BY <1>2, <3>1
    <3>5. QED
      BY <1>6, <3>1, <3>2, <3>3, <3>4
  <2>7. CASE i = 14 + a + b
    <3>1. At(i) = "object" /\ At(i - 1) = "string"
      BY <1>2, <1>6, <2>7
    <3>2. u[i] = Quote
      BY <1>2, <2>7
    <3> HIDE DEF At
    <3>3. QED
      BY <3>1, <3>2, Signs
  <2>8. QED
    BY <2>1, <2>3, <2>4, <2>5, <2>6, <2>7
<1> DEFINE Within(i) == [found |-> found, object |-> SubSeq(u, 1, i),
                         depth |-> 1, at |-> At(i)]
           T == {i \in 0 .. M : i > 0 => s[q + i] = Within(i)}
<1>10. /\ M \in Nat /\ Len(u) = M + 1 /\ u \in Seq(Char)
       /\ \A i \in 1 .. M + 1 :
             /\ q + i \in 1 .. Len(file) /\ (q + i) - 1 = q + (i - 1)
             /\ file[q + i] = u[i] /\ u[i] \in Char
             /\ s[q + (i - 1)] \in ScanState
             /\ s[q + i] = ScanNext(cap, s[q + (i - 1)], u[i])
  <2>1. M \in Nat /\ Len(u) = M + 1 /\ u \in Seq(Char)
    BY <1>2 DEF Text
  <2> HIDE DEF M
  <2>2. ASSUME NEW i \in 1 .. M + 1
        PROVE  /\ q + i \in 1 .. Len(file) /\ (q + i) - 1 = q + (i - 1)
               /\ q + (i - 1) \in 0 .. Len(file)
    BY <1>7, <2>1
  <2>3. ASSUME NEW i \in 1 .. M + 1
        PROVE  /\ file[q + i] = u[i] /\ u[i] \in Char
               /\ s[q + (i - 1)] \in ScanState
               /\ s[q + i] = ScanNext(cap, s[q + (i - 1)], u[i])
    <3>1. file[q + i] = u[i] /\ u[i] \in Char
      BY <1>7, <2>1, <2>2
    <3>2. s[q + i] = ScanNext(cap, s[(q + i) - 1], file[q + i])
      BY <1>8, <2>2
    <3>3. QED
      BY <1>8, <2>2, <3>1, <3>2
  <2>4. QED
    BY <2>1, <2>2, <2>3
<1>11. 0 \in T
  BY <1>10
<1> HIDE DEF M
<1>12. ASSUME NEW i \in 1 .. M, i - 1 \in T PROVE i \in T
  <2> DEFINE d == s[q + (i - 1)]
  <2>1. /\ d \in ScanState /\ u[i] \in Char
        /\ s[q + i] = ScanNext(cap, d, u[i])
    <3>1. i \in 1 .. M + 1
      BY <1>10
    <3>2. QED
      BY <1>10, <3>1
  <2> HIDE DEF d
  <2>2. ScanMoves(cap, d, u[i], s[q + i])
    BY <2>1, ScanStep, Zenon
  <2>3. CASE i = 1
    <3>1. d = Seek(found)
      BY <2>3 DEF d
    <3>2. d.at = "seek" /\ u[i] = Open
      BY <1>2, <2>3, <3>1 DEF Seek
    <3>3. s[q + i] = [d EXCEPT !.object = <<u[i]>>, !.depth = 1,
                               !.at = "object"]
      BY <2>2, <3>2 DEF ScanMoves
    <3>4. s[q + i] = [found |-> found, object |-> <<u[1]>>, depth |-> 1,
                      at |-> "object"]
      BY <2>3, <3>1, <3>3 DEF Seek
    <3>5. SubSeq(u, 1, 1) = <<u[1]>>
      <4>1. u \in Seq(Char) /\ Len(u) \in Nat /\ Len(u) >= 1
        BY <1>10
      <4> DEFINE x == SubSeq(u, 1, 1)
                 y == <<u[1]>>
      <4>2. x \in Seq(Char) /\ Len(x) = 1 /\ x[1] = u[1]
        BY <4>1
      <4>3. y \in Seq(Char) /\ Len(y) = 1 /\ y[1] = u[1]
        BY <4>1
      <4> HIDE DEF x, y
      <4>4. x = y
        <5>1. \A j \in 1 .. 1 : x[j] = y[j]
          BY <4>2, <4>3
        <5>2. QED
          BY <4>2, <4>3, <5>1
      <4>5. QED
        BY <4>4 DEF x, y
    <3>6. At(1) = "object"
      OBVIOUS
    <3>7. s[q + i] = Within(i)
      BY <2>3, <3>4, <3>5, <3>6
    <3>8. QED
      BY <3>7
  <2>4. CASE i # 1
    <3>1. i \in 2 .. M /\ i - 1 > 0
      BY <1>10, <2>4
    <3>2. d = Within(i - 1)
      BY <1>12, <3>1 DEF d
    <3>3. Move(At(i - 1), u[i], At(i))
      BY <1>9, <3>1 DEF M
    <3> DEFINE at == At(i - 1)
               next == At(i)
    <3> HIDE DEF At
    <3>4. d.at = at /\ d.found = found /\ d.depth = 1
          /\ d.object = SubSeq(u, 1, i - 1)
      BY <3>2
    <3>5. s[q + i] = [d EXCEPT !.object = Append(@, u[i]), !.at = next]
      <4> HIDE DEF at, next
      <4>1. /\ at = "slash" =>
                  s[q + i] = [d EXCEPT !.object = Append(@, u[i]),
                                       !.at = "string"]
            /\ at = "string" =>
                  s[q + i] = [d EXCEPT !.object = Append(@, u[i]),
                                       !.at = IF u[i] = Backslash THEN "slash"
                                              ELSE IF u[i] = Quote THEN "object"
                                              ELSE "string"]
            /\ at = "object" /\ u[i] = Quote =>
                  s[q + i] = [d EXCEPT !.object = Append(@, u[i]),
                                       !.at = "string"]
            /\ at = "object" /\ u[i] \notin {Quote, Open, Close} =>
                  s[q + i] = [d EXCEPT !.object = Append(@, u[i]),
                                       !.at = "object"]
        BY <2>2, <3>4 DEF ScanMoves
      <4>2. Move(at, u[i], next)
        BY <3>3 DEF at, next
      <4>3. QED
        BY <4>1, <4>2
    <3>6. Append(SubSeq(u, 1, i - 1), u[i]) = SubSeq(u, 1, i)
      BY <1>10, <3>1
    <3>7. s[q + i] = Within(i)
      BY <3>2, <3>5, <3>6
    <3>8. QED
      BY <3>7
  <2>5. QED
    BY <2>3, <2>4
<1>13. \A i \in 0 .. M : i \in T
  <2> HIDE DEF T
  <2>1. QED
    BY <1>10, <1>11, <1>12, Upto
<1>14. s[q + M] = Within(M)
  <2>1. M \in 0 .. M /\ M > 0
    BY <1>2 DEF M
  <2>2. QED
    BY <1>13, <2>1
<1>15. s[q + (M + 1)] = Seek(Append(found, u))
  <2> DEFINE d == s[q + M]
  <2>1. /\ d \in ScanState /\ u[M + 1] \in Char
        /\ s[q + (M + 1)] = ScanNext(cap, d, u[M + 1])
    <3>1. M + 1 \in 1 .. M + 1 /\ (M + 1) - 1 = M
      BY <1>10
    <3>2. QED
      BY <1>10, <3>1
  <2>2. At(M) = "object" /\ u[M + 1] = Close
    BY <1>2 DEF M
  <2>3. SubSeq(u, 1, M) \in Seq(Char) /\ Len(SubSeq(u, 1, M)) = M
        /\ Append(SubSeq(u, 1, M), u[M + 1]) = u
    BY <1>10
  <2>4. d.at = "object" /\ d.found = found /\ d.depth = 1
        /\ d.object = SubSeq(u, 1, M)
    <3>1. d = [found |-> found, object |-> SubSeq(u, 1, M), depth |-> 1,
               at |-> "object"]
      BY <1>14, <2>2, Zenon
    <3> HIDE DEF d
    <3>2. QED
      BY <3>1
  <2>5. Len(d.object) + 1 < cap
    BY <1>7, <1>10, <2>3, <2>4
  <2> HIDE DEF d
  <2>6. s[q + (M + 1)] = [found |-> Append(d.found, Append(d.object, u[M + 1])),
                          object |-> <<>>, depth |-> 0, at |-> "seek"]
    <3>1. ScanMoves(cap, d, u[M + 1], s[q + (M + 1)])
      BY <2>1, ScanStep, Zenon
    <3>2. QED
      BY <2>2, <2>4, <2>5, <3>1 DEF ScanMoves
  <2>7. QED
    BY <2>3, <2>4, <2>6 DEF Seek
<1>16. QED
  BY <1>10, <1>15 DEF u

-----------------------------------------------------------------------------
(* What a save writes, and the objects a load finds in it.                   *)

Record == [Field -> Text]

\* A connection whose texts fit their arrays, and whose protocol is harmless.
Tame(r) ==
    /\ r \in Record /\ Harmless(r["protocol"])
    /\ \A f \in Field : Len(r[f]) < Cap[f]

\* An object that a save writes of such a connection has quoted texts, and a
\* load's array takes it.
IsObject(o, r) ==
    /\ o \in Text /\ Len(o) \in Nat /\ Len(o) < ObjectCap
    /\ \E h, k : /\ o = Object(h, k)
                 /\ Quoted(h, {}, {}) /\ h = r["protocol"]
                 /\ Quoted(k, {}, {}) /\ k = Escaped(r["text"], EscapeCap)

\* The sizes of the fields.
LEMMA CapType ==
  /\ Cap = [f \in Field |-> IF f = "protocol" THEN ProtocolCap ELSE FieldCap]
  /\ Cap["protocol"] = ProtocolCap /\ Cap["text"] = FieldCap
  /\ \A f \in Field :
        /\ Cap[f] \in Nat /\ Cap[f] > 1
        /\ f \in {"protocol", "text"}
  /\ "protocol" \in Field /\ "text" \in Field
<1>1. ProtocolCap \in Nat /\ FieldCap \in Nat /\ ProtocolCap > 1
      /\ FieldCap > 1
  BY CodecAssumption DEF CodecAssumption
<1>2. QED
  BY <1>1 DEF Cap, Field

\* serialize_connection writes a text for any connection.
LEMMA SerializedText ==
  ASSUME NEW r \in Record
  PROVE  Serialized(r) \in Text
<1>1. r["protocol"] \in Text /\ r["text"] \in Text
  BY CapType DEF Record
<1>2. EscapeCap \in Nat /\ EscapeCap > 6
  BY CodecAssumption DEF CodecAssumption
<1>3. Escaped(r["text"], EscapeCap) \in Text
  BY <1>1, <1>2, EscapedSealed, SealedQuoted
<1>4. QED
  BY <1>1, <1>3, ObjectLayout DEF Serialized

\* It writes such an object for a tame one.
LEMMA SerializedObject ==
  ASSUME NEW r, Tame(r)
  PROVE  IsObject(Serialized(r), r)
<1> DEFINE h == r["protocol"]
           k == Escaped(r["text"], EscapeCap)
           a == Len(h)
           b == Len(k)
<1>1. r["protocol"] \in Text /\ r["text"] \in Text /\ Harmless(r["protocol"])
      /\ a < ProtocolCap
  BY CapType DEF Record, Tame
<1>2. /\ EscapeCap \in Nat /\ EscapeCap > 6 /\ ObjectCap \in Nat
      /\ ProtocolCap \in Nat
      /\ ObjectCap >= (ProtocolCap - 1) + (EscapeCap - 1) + 16
  BY CodecAssumption DEF CodecAssumption
<1>3. Sealed(k) /\ b < EscapeCap
  BY <1>1, <1>2, EscapedSealed
<1>4. /\ h \in Text /\ k \in Text
      /\ Quoted(h, {}, {}) /\ Quoted(k, {}, {})
  BY <1>1, <1>3, SealedQuoted, HarmlessText
<1>5. Serialized(r) = Object(h, k)
  BY DEF Serialized
<1>6. /\ Object(h, k) \in Text /\ a \in Nat /\ b \in Nat
      /\ Len(Object(h, k)) = 15 + a + b
  BY <1>4, ObjectLayout
<1> HIDE DEF a, b
<1>7. 15 + a + b \in Nat /\ 15 + a + b < ObjectCap
  BY <1>1, <1>2, <1>3, <1>6
<1> HIDE DEF h, k
<1>8. QED
  BY <1>4, <1>5, <1>6, <1>7 DEF IsObject, h, k

\* The store grows by one item for each connection.
IsStored(t, w) ==
    /\ w \in [0 .. Len(t) -> Text]
    /\ w[0] = <<ListOpen>>
    /\ \A n \in 1 .. Len(t) :
          Item(t, n) \in Text /\ w[n] = w[n - 1] \o Item(t, n)

\* mgmt_save_connections writes one item after the other.
LEMMA StoredRun ==
  ASSUME NEW t \in Seq(Record)
  PROVE  /\ Stored(t) \in Text
         /\ \E w : IsStored(t, w) /\ Stored(t) = w[Len(t)] \o <<ListClose>>
<1> DEFINE N == Len(t)
           items == [n \in 1 .. N |-> Item(t, n)]
           g == [x \in Text |-> [c \in Text |-> x \o c]]
           Eqn(w) == w = [n \in 0 .. N |->
                             IF n = 0 THEN <<ListOpen>>
                             ELSE w[n - 1] \o Item(t, n)]
<1>1. N \in Nat
  OBVIOUS
<1>2. ASSUME NEW n \in 1 .. N PROVE Item(t, n) \in Text
  <2>1. t[n] \in Record
    OBVIOUS
  <2>2. Serialized(t[n]) \in Text
    BY <2>1, SerializedText
  <2>3. Comma \in Char
    BY DEF Char
  <2>4. QED
    BY <2>2, <2>3 DEF Item, Text
<1>3. items \in Seq(Text) /\ Len(items) = N
  <2> HIDE DEF N
  <2>1. items \in [1 .. N -> Text]
    BY <1>2
  <2> HIDE DEF items
  <2>2. items \in Seq(Text)
    BY <1>1, <2>1
  <2>3. Len(items) = N
    BY <1>1, <2>1
  <2>4. QED
    BY <2>2, <2>3
<1>4. g \in [Text -> [Text -> Text]]
  BY DEF Text
<1>5. <<ListOpen>> \in Text
  BY DEF Text, Char
<1>6. PICK h : IsRun(Text, <<ListOpen>>, items, g, h)
  <2> HIDE DEF g, items
  <2>1. QED
    BY <1>3, <1>4, <1>5, Runs, Zenon
<1> HIDE DEF N
<1>7. /\ h \in [0 .. N -> Text] /\ h[0] = <<ListOpen>>
      /\ \A n \in 1 .. N : h[n] = h[n - 1] \o Item(t, n)
  <2>1. /\ h \in [0 .. N -> Text] /\ h[0] = <<ListOpen>>
        /\ \A n \in 1 .. N : h[n] = g[h[n - 1]][items[n]]
    <3> HIDE DEF g, items
    <3>1. QED
      BY <1>3, <1>6 DEF IsRun
  <2>2. \A n \in 1 .. N : h[n - 1] \in Text
    BY <1>1, <2>1
  <2>3. QED
    BY <1>2, <2>1, <2>2
<1>8. Eqn(h)
  <2>1. \A n \in 0 .. N : n # 0 => n \in 1 .. N
    BY <1>1
  <2>2. QED
    BY <1>7, <2>1
<1>9. PICK w : Eqn(w) /\ Stored(t) = w[N] \o <<ListClose>>
  <2>1. \E w : Eqn(w)
    BY <1>8
  <2>2. QED
    BY <2>1 DEF Stored, N
<1>10. /\ w[0] = <<ListOpen>>
       /\ \A n \in 1 .. N : w[n] = w[n - 1] \o Item(t, n)
  <2>1. \A n \in 1 .. N : n # 0 /\ n \in 0 .. N
    BY <1>1
  <2>2. 0 \in 0 .. N
    BY <1>1
  <2>3. QED
    BY <1>9, <2>1, <2>2
<1> DEFINE T == {n \in 0 .. N : w[n] \in Text}
<1>11. \A n \in 0 .. N : n \in T
  <2>1. 0 \in T
    BY <1>1, <1>5, <1>10
  <2>2. ASSUME NEW n \in 1 .. N, n - 1 \in T PROVE n \in T
    <3>1. w[n - 1] \in Text /\ Item(t, n) \in Text
      BY <1>2, <2>2
    <3>2. w[n - 1] \o Item(t, n) \in Text
      BY <3>1 DEF Text
    <3>3. n \in 0 .. N
      BY <1>1
    <3>4. QED
      BY <1>10, <3>2, <3>3
  <2> HIDE DEF T
  <2>3. QED
    BY <1>1, <2>1, <2>2, Upto
<1>12. IsStored(t, w)
  <2>1. w = [n \in 0 .. N |-> IF n = 0 THEN <<ListOpen>>
                              ELSE w[n - 1] \o Item(t, n)]
    BY <1>9, Zenon
  <2>2. w \in [0 .. N -> Text]
    BY <1>11, <2>1
  <2>3. QED
    BY <1>2, <1>10, <2>2 DEF IsStored, N
<1>13. Stored(t) \in Text
  <2>1. w[N] \in Text /\ <<ListClose>> \in Text
    BY <1>1, <1>11 DEF Text, Char
  <2> DEFINE x == w[N]
  <2> HIDE DEF x
  <2>2. x \o <<ListClose>> \in Text
    BY <2>1 DEF Text, x
  <2>3. QED
    BY <1>9, <2>2 DEF x
<1>14. QED
  BY <1>9, <1>12, <1>13, Zenon DEF N

\* A load finds the objects that a save wrote, each of them whole.
LEMMA ScanStored ==
  ASSUME NEW t \in Seq(Record), \A i \in 1 .. Len(t) : Tame(t[i])
  PROVE  Objects(Stored(t), ObjectCap) =
             [i \in 1 .. Len(t) |-> Serialized(t[i])]
<1> DEFINE N == Len(t)
           x == [n \in 1 .. N |-> Item(t, n)]
           Found(n) == [i \in 1 .. n |-> Serialized(t[i])]
<1>1. PICK w : IsStored(t, w) /\ Stored(t) = w[N] \o <<ListClose>>
  BY StoredRun
<1> DEFINE file == w[N] \o <<ListClose>>
           L == Len(w[N])
<1>2. /\ N \in Nat /\ w \in [0 .. N -> Seq(Char)] /\ w[0] = <<ListOpen>>
      /\ \A n \in 1 .. N : x[n] \in Seq(Char) /\ w[n] = w[n - 1] \o x[n]
  BY <1>1 DEF IsStored, Text
<1>3. ObjectCap \in Nat
  BY CodecAssumption DEF CodecAssumption
<1>4. /\ file \in Text /\ L \in Nat /\ Len(file) = L + 1
      /\ \A j \in 1 .. L : file[j] = w[N][j]
      /\ file[L + 1] = ListClose
  <2>1. w[N] \in Seq(Char) /\ <<ListClose>> \in Seq(Char)
    BY <1>2, SMTT(30) DEF Char
  <2>2. Joins(Char, w[N], <<ListClose>>, file)
    BY <2>1, Concat, Zenon
  <2>3. Len(<<ListClose>>) = 1 /\ <<ListClose>>[1] = ListClose
    OBVIOUS
  <2> HIDE DEF file
  <2>4. QED
    BY <2>1, <2>2, <2>3 DEF Joins, Text
<1>5. InPlace(N, w, x)
  <2> HIDE DEF x, N
  <2>1. QED
    BY <1>2, Pieces, Zenon
<1>6. /\ \A n \in 0 .. N :
            /\ Len(w[n]) \in Nat /\ Len(w[n]) <= L
            /\ \A j \in 1 .. Len(w[n]) : w[N][j] = w[n][j]
      /\ \A n \in 1 .. N :
            /\ Len(w[n]) = Len(w[n - 1]) + Len(x[n])
            /\ \A j \in 1 .. Len(x[n]) : w[N][Len(w[n - 1]) + j] = x[n][j]
  BY <1>5 DEF InPlace
<1> HIDE DEF file, L
<1>7. PICK e : /\ IsScan(file, ObjectCap, e)
               /\ (e[Len(file)].at \in {"seek", "end"} =>
                      Objects(file, ObjectCap) = e[Len(file)].found)
  BY <1>3, <1>4, ScanRun DEF Text
<1>8. /\ e[0] = Scan0
      /\ \A n \in 0 .. L + 1 : e[n] \in ScanState
      /\ \A n \in 1 .. L + 1 :
            /\ e[n - 1] \in ScanState /\ file[n] \in Char
            /\ e[n] = ScanNext(ObjectCap, e[n - 1], file[n])
  <2>1. /\ e \in [0 .. L + 1 -> ScanState] /\ e[0] = Scan0
        /\ \A n \in 1 .. L + 1 : e[n] = ScanNext(ObjectCap, e[n - 1], file[n])
    BY <1>4, <1>7 DEF IsScan
  <2>2. \A n \in 1 .. L + 1 : n - 1 \in 0 .. L + 1
    BY <1>4
  <2>3. \A n \in 1 .. L + 1 : file[n] \in Char
    BY <1>4 DEF Text
  <2>4. QED
    BY <2>1, <2>2, <2>3
<1>9. ASSUME NEW n \in 1 .. L + 1
      PROVE  ScanMoves(ObjectCap, e[n - 1], file[n], e[n])
  BY <1>3, <1>8, ScanStep, Zenon
<1> DEFINE Good(n) == e[Len(w[n])] = Seek(Found(n))
           T == {n \in 0 .. N : Good(n)}
<1>10. 0 \in T
  <2>1. Len(w[0]) = 1 /\ w[0][1] = ListOpen
    BY <1>2
  <2>2. 0 \in 0 .. N
    BY <1>2
  <2>3. 1 \in 1 .. L /\ file[1] = ListOpen /\ 1 \in 1 .. L + 1
    BY <1>4, <1>6, <2>1, <2>2
  <2>4. ScanMoves(ObjectCap, e[0], ListOpen, e[1])
    BY <1>9, <2>3
  <2>5. Scan0.at = "seek" /\ ListOpen \notin {Open, ListClose}
    BY Signs DEF Scan0
  <2>6. e[1] = Scan0
    BY <1>8, <2>4, <2>5, Zenon DEF ScanMoves
  <2>7. Found(0) = <<>>
    OBVIOUS
  <2>8. QED
    BY <2>1, <2>2, <2>6, <2>7 DEF Scan0, Seek
<1>11. ASSUME NEW n \in 1 .. N, n - 1 \in T PROVE n \in T
  <2> DEFINE u == Serialized(t[n])
             p == Len(w[n - 1])
             z == Len(w[n])
             l == Len(u)
             c == Len(x[n])
  <2>1. e[p] = Seek(Found(n - 1))
    BY <1>11
  <2>2. IsObject(u, t[n])
    BY SerializedObject
  <2>3. u \in Text /\ l \in Nat /\ l < ObjectCap
    BY <2>2 DEF IsObject
  <2>4. x[n] = (IF n = 1 THEN <<>> ELSE <<Comma>>) \o u
    BY DEF Item
  <2>5. /\ p \in Nat /\ z = p + c /\ z <= L /\ z \in Nat
        /\ \A j \in 1 .. c : w[N][p + j] = x[n][j]
    <3>1. n - 1 \in 0 .. N /\ n \in 0 .. N
      BY <1>2
    <3> HIDE DEF x
    <3>2. QED
      BY <1>6, <3>1
  <2> HIDE DEF u, p, z, l, c, x, Found
  <2>6. PICK q \in Nat : /\ e[q] = Seek(Found(n - 1)) /\ q + l = z
                         /\ \A i \in 1 .. l : file[q + i] = u[i]
    <3>1. CASE n = 1
      <4>1. x[n] = u
        BY <2>3, <2>4, <3>1 DEF Text
      <4>2. c = l
        BY <4>1 DEF c, l
      <4>3. \A i \in 1 .. l : p + i \in 1 .. L /\ w[N][p + i] = u[i]
        BY <1>4, <2>3, <2>5, <4>1, <4>2
      <4>4. \A i \in 1 .. l : file[p + i] = u[i]
        BY <1>4, <4>3
      <4>5. p + l = z
        BY <2>5, <4>2
      <4>6. QED
        BY <2>1, <2>5, <4>4, <4>5
    <3>2. CASE n # 1
      <4>1. x[n] = <<Comma>> \o u
        BY <2>4, <3>2
      <4>2. <<Comma>> \in Seq(Char) /\ Len(<<Comma>>) = 1
            /\ <<Comma>>[1] = Comma
        BY DEF Char
      <4>3. Joins(Char, <<Comma>>, u, x[n])
        BY <2>3, <4>1, <4>2, Concat DEF Text
      <4>4. /\ c = 1 + l /\ x[n][1] = Comma
            /\ \A i \in 1 .. l : x[n][1 + i] = u[i]
        BY <4>2, <4>3 DEF Joins, c, l
      <4>5. 1 \in 1 .. c /\ \A i \in 1 .. l : 1 + i \in 1 .. c
        BY <2>3, <4>4
      <4>6. /\ p + 1 \in 1 .. L /\ w[N][p + 1] = Comma
            /\ \A i \in 1 .. l : /\ p + (1 + i) \in 1 .. L
                                 /\ w[N][p + (1 + i)] = u[i]
        BY <1>4, <2>3, <2>5, <4>4, <4>5
      <4>7. /\ file[p + 1] = Comma
            /\ \A i \in 1 .. l : file[p + (1 + i)] = u[i]
        BY <1>4, <4>6
      <4>8. \A i \in 1 .. l : (p + 1) + i = p + (1 + i)
        BY <2>5
      <4>9. p + 1 \in 1 .. L + 1 /\ (p + 1) - 1 = p /\ (p + 1) + l = z
            /\ p + 1 \in Nat
        BY <1>4, <2>3, <2>5, <4>4, <4>6
      <4>10. ScanMoves(ObjectCap, e[p], Comma, e[p + 1])
        BY <1>9, <4>7, <4>9
      <4>11. Seek(Found(n - 1)).at = "seek" /\ Comma \notin {Open, ListClose}
        BY Signs DEF Seek
      <4>12. e[p + 1] = e[p]
        BY <2>1, <4>10, <4>11, Zenon DEF ScanMoves
      <4>13. QED
        BY <2>1, <4>7, <4>8, <4>9, <4>12
    <3>3. QED
      BY <3>1, <3>2
  <2>7. PICK h, k : /\ u = Object(h, k)
                    /\ Quoted(h, {}, {}) /\ Quoted(k, {}, {})
    BY <2>2 DEF IsObject
  <2>8. /\ q \in 0 .. Len(file) /\ q + l <= Len(file)
    BY <1>4, <2>3, <2>5, <2>6
  <2>9. e[q + l] = Seek(Append(Found(n - 1), u))
    <3>1. /\ Stands(u, file, q) /\ Len(u) < ObjectCap /\ Len(u) = l
      BY <2>3, <2>6, <2>8 DEF l, Stands
    <3>2. e[q + Len(Object(h, k))] = Seek(Append(Found(n - 1), Object(h, k)))
      <4>1. Stands(Object(h, k), file, q) /\ Len(Object(h, k)) < ObjectCap
        BY <2>7, <3>1
      <4>2. QED
        BY <1>3, <1>4, <1>7, <2>6, <2>7, <4>1, ScanObject
    <3>3. QED
      BY <2>7, <3>1, <3>2
  <2>10. Append(Found(n - 1), u) = Found(n)
    <3>1. n - 1 \in Nat /\ n \in Nat
      BY <1>2
    <3>2. \A i \in 1 .. n : Serialized(t[i]) \in Text
      <4>1. \A i \in 1 .. n : t[i] \in Record
        BY <1>2
      <4>2. QED
        BY <4>1, SerializedText
    <3>3. /\ Found(n - 1) \in [1 .. n - 1 -> Text]
          /\ Found(n) \in [1 .. n -> Text]
          /\ \A i \in 1 .. n - 1 : Found(n)[i] = Found(n - 1)[i]
          /\ Found(n)[n] = u
      BY <3>1, <3>2 DEF Found, u
    <3>4. Found(n - 1) \in Seq(Text) /\ Len(Found(n - 1)) = n - 1
          /\ Found(n) \in Seq(Text) /\ Len(Found(n)) = n
      BY <3>1, <3>3
    <3> DEFINE f == Append(Found(n - 1), u)
               d == Found(n)
    <3>5. f \in Seq(Text) /\ Len(f) = n /\ \A i \in 1 .. n : f[i] = d[i]
      BY <2>3, <3>1, <3>3, <3>4
    <3>6. d \in Seq(Text) /\ Len(d) = n
      BY <3>4
    <3> HIDE DEF f, d
    <3>7. f = d
      BY <3>1, <3>5, <3>6
    <3>8. QED
      BY <3>7 DEF f, d
  <2>11. n \in 0 .. N
    BY <1>2
  <2>12. QED
    BY <2>6, <2>9, <2>10, <2>11 DEF z
<1>12. \A n \in 0 .. N : n \in T
  <2> HIDE DEF T, N
  <2>1. QED
    BY <1>2, <1>10, <1>11, Upto
<1>13. e[L] = Seek(Found(N))
  <2>1. N \in 0 .. N
    BY <1>2
  <2>2. Good(N)
    BY <1>12, <2>1
  <2>3. QED
    BY <2>2 DEF L
<1>14. e[L + 1].at = "end" /\ e[L + 1].found = Found(N)
  <2>1. L + 1 \in 1 .. L + 1 /\ (L + 1) - 1 = L
    BY <1>4
  <2>2. ScanMoves(ObjectCap, e[L], ListClose, e[L + 1])
    BY <1>4, <1>9, <2>1
  <2> DEFINE s == Seek(Found(N))
  <2>3. s.at = "seek" /\ s.found = Found(N)
    BY DEF Seek
  <2>4. e[L + 1] = [s EXCEPT !.at = "end"]
    BY <1>13, <2>2, <2>3, Zenon DEF ScanMoves
  <2>5. QED
    BY <2>4 DEF Seek
<1>15. Objects(file, ObjectCap) = Found(N)
  BY <1>4, <1>7, <1>14
<1>16. QED
  BY <1>1, <1>4, <1>15 DEF file

-----------------------------------------------------------------------------
(* What a load makes of what a save wrote.                                   *)

\* A connection after a save and a load.
Reread(r) == ReadRecord(Serialized(r), Cap)

\* One array holds less of a text than it has characters, and all of a text
\* that fits.
LEMMA CutFits ==
  ASSUME NEW text \in Text, NEW cap \in Nat, cap > 1
  PROVE  /\ Cut(text, cap) \in Text
         /\ Len(Cut(text, cap)) < cap
         /\ text # <<>> => Cut(text, cap) # <<>>
         /\ text \in Clean => Cut(text, cap) \in Clean
         /\ \A n \in Nat : n >= cap => Cut(Cut(text, cap), n) = Cut(text, cap)
<1> DEFINE c == Cut(text, cap)
<1>1. text \in Seq(Char) /\ Len(text) \in Nat
  BY DEF Text
<1>2. CASE Len(text) < cap
  <2>1. c = text
    BY <1>2 DEF Cut
  <2>2. \A n \in Nat : n >= cap => Cut(c, n) = c
    BY <1>1, <1>2, <2>1 DEF Cut
  <2>3. QED
    BY <1>1, <1>2, <2>1, <2>2
<1>3. CASE ~(Len(text) < cap)
  <2>1. c = SubSeq(text, 1, cap - 1)
    BY <1>3 DEF Cut
  <2>2. cap - 1 \in 1 .. Len(text)
    BY <1>1, <1>3
  <2>3. /\ c \in Seq(Char) /\ Len(c) = cap - 1
        /\ \A i \in 1 .. cap - 1 : c[i] = text[i]
    BY <1>1, <2>1, <2>2
  <2> HIDE DEF c
  <2>4. c # <<>>
    BY <2>2, <2>3
  <2>5. text \in Clean => c \in Clean
    <3>1. ASSUME text \in Clean
          PROVE  \A i \in 1 .. cap - 1 : c[i] \in Char \ {Newline}
      <4>1. \A i \in 1 .. cap - 1 : i \in 1 .. Len(text)
        BY <1>1, <2>2
      <4>2. \A i \in 1 .. Len(text) : text[i] \in Char \ {Newline}
        BY <3>1 DEF Clean
      <4>3. QED
        BY <2>3, <4>1, <4>2
    <3>2. QED
      BY <2>3, <3>1 DEF Clean
  <2>6. \A n \in Nat : n >= cap => Len(c) < n
    BY <2>2, <2>3
  <2>7. \A n \in Nat : n >= cap => Cut(c, n) = c
    BY <2>6 DEF Cut
  <2>8. QED
    BY <2>2, <2>3, <2>4, <2>5, <2>7 DEF c, Text
<1>4. QED
  BY <1>2, <1>3

\* A connection that a request gives is what json_field_str reads of it.
LEMMA ReadRequest ==
  ASSUME NEW r \in Record, NEW cap,
         \A f \in Field : cap[f] \in Nat /\ cap[f] > 1
  PROVE  ReadRecord(Message(r), cap) = [f \in Field |-> Cut(r[f], cap[f])]
<1> DEFINE h == MessageText(r["protocol"])
           k == MessageText(r["text"])
<1>1. r["protocol"] \in Text /\ r["text"] \in Text
      /\ "protocol" \in Field /\ "text" \in Field
  BY DEF Record, Field
<1>2. Quoted(h, {}, {}) /\ Quoted(k, {}, {})
  BY <1>1, MessageQuoted
<1>3. Message(r) = Object(h, k)
  BY DEF Message
<1> HIDE DEF h, k
<1>4. PICK v : /\ Begins(v, h)
               /\ FieldStr(Object(h, k), "protocol", cap["protocol"])
                      = Value(v, cap["protocol"])
  BY <1>2, FieldOfObject
<1>5. PICK z : /\ Begins(z, k)
               /\ FieldStr(Object(h, k), "text", cap["text"])
                      = Value(z, cap["text"])
  BY <1>2, FieldOfObject
<1>6. Value(v, cap["protocol"]) = Cut(r["protocol"], cap["protocol"])
  BY <1>1, <1>4, ReadMessage DEF h
<1>7. Value(z, cap["text"]) = Cut(r["text"], cap["text"])
  BY <1>1, <1>5, ReadMessage DEF k
<1>8. \A f \in Field : FieldStr(Message(r), f, cap[f]) = Cut(r[f], cap[f])
  BY <1>3, <1>4, <1>5, <1>6, <1>7 DEF Field
<1>9. QED
  BY <1>8, Zenon DEF ReadRecord

\* A tame connection after a save and a load: it is tame, its protocol is as it
\* was, its text is clean, not empty if it was not, and as it was if it was
\* clean already.
LEMMA RereadRecord ==
  ASSUME NEW r, Tame(r)
  PROVE  /\ Tame(Reread(r)) /\ Reread(r)["protocol"] = r["protocol"]
         /\ Reread(r)["text"] \in Clean
         /\ r["text"] # <<>> => Reread(r)["text"] # <<>>
         /\ r["text"] \in Clean => Reread(r)["text"] = r["text"]
<1> DEFINE h == r["protocol"]
           k == Escaped(r["text"], EscapeCap)
           u == Serialized(r)
           x == FieldStr(u, "protocol", ProtocolCap)
           z == FieldStr(u, "text", FieldCap)
<1>1. /\ EscapeCap \in Nat /\ EscapeCap > 6 /\ FieldCap \in Nat /\ FieldCap > 1
      /\ EscapeCap > 2 * (FieldCap - 1)
      /\ ProtocolCap \in Nat /\ ProtocolCap > 1
  BY CodecAssumption DEF CodecAssumption
<1>2. /\ h \in Text /\ Harmless(h) /\ r["text"] \in Text
      /\ Len(h) < ProtocolCap /\ Len(r["text"]) < FieldCap
  BY CapType DEF Record, Tame
<1>3. /\ Sealed(k) /\ Quoted(k, {}, {}) /\ (r["text"] # <<>> => k # <<>>)
      /\ Quoted(h, {}, {}) /\ MessageText(h) = h
  BY <1>1, <1>2, EscapedSealed, SealedQuoted, HarmlessText
<1>4. u = Object(h, k)
  BY DEF Serialized
<1> HIDE DEF h, k, u
<1>5. PICK v : Begins(v, h) /\ x = Value(v, ProtocolCap)
  BY <1>3, <1>4, FieldOfObject
<1>6. PICK w : Begins(w, k) /\ z = Value(w, FieldCap)
  BY <1>3, <1>4, FieldOfObject
<1> HIDE DEF x, z
<1>7. x = h
  <2>1. Value(v, ProtocolCap) = Cut(h, ProtocolCap)
    BY <1>1, <1>2, <1>3, <1>5, ReadMessage
  <2>2. QED
    BY <1>2, <1>5, <2>1 DEF Cut
<1>8. z \in Clean /\ Len(z) < FieldCap /\ (r["text"] # <<>> => z # <<>>)
  BY <1>1, <1>3, <1>6, ReadSealed
<1>9. ASSUME r["text"] \in Clean PROVE z = r["text"]
  <2>1. Len(r["text"]) \in Nat
    BY <1>2 DEF Text
  <2>2. 2 * Len(r["text"]) < EscapeCap
    BY <1>1, <1>2, <2>1
  <2>3. k = MessageText(r["text"])
    BY <1>1, <1>9, <2>2, EscapedPlain DEF k
  <2>4. Value(w, FieldCap) = Cut(r["text"], FieldCap)
    BY <1>1, <1>2, <1>6, <2>3, ReadMessage
  <2>5. QED
    BY <1>2, <1>6, <2>4 DEF Cut
<1>10. /\ Reread(r) = [f \in Field |-> FieldStr(u, f, Cap[f])]
       /\ Reread(r)["protocol"] = x /\ Reread(r)["text"] = z
  BY CapType DEF Reread, ReadRecord, u, x, z
<1>11. z \in Text
  BY <1>8, CleanText
<1>12. Reread(r) \in Record
  BY <1>2, <1>7, <1>10, <1>11, CapType DEF Record
<1>13. Tame(Reread(r))
  BY <1>2, <1>7, <1>8, <1>10, <1>12, CapType DEF Tame, h
<1>14. QED
  BY <1>7, <1>8, <1>9, <1>10, <1>13 DEF h

\* A table that the program can have: it has room for its connections, and every
\* text fits its array and is not empty.
Sound(t) ==
    /\ t \in Seq(Record) /\ Len(t) <= MaxRecords
    /\ \A i \in 1 .. Len(t), f \in Field :
          t[i][f] # <<>> /\ Len(t[i][f]) < Cap[f]

\* One whose protocols are harmless.
TameTable(t) == Sound(t) /\ \A i \in 1 .. Len(t) : Harmless(t[i]["protocol"])

\* Every connection of it is tame.
LEMMA TameRecords ==
  ASSUME NEW t, TameTable(t)
  PROVE  /\ t \in Seq(Record) /\ Sound(t)
         /\ \A i \in 1 .. Len(t) : Tame(t[i])
<1>1. t \in Seq(Record) /\ Sound(t)
  BY DEF TameTable, Sound
<1>2. \A i \in 1 .. Len(t) : t[i] \in Record
  BY <1>1
<1>3. QED
  BY <1>1, <1>2 DEF TameTable, Sound, Tame

\* A load takes every connection that a save wrote, in its place.
LEMMA StoreLoad ==
  ASSUME NEW t, TameTable(t)
  PROVE  Loaded(Stored(t)) = [i \in 1 .. Len(t) |-> Reread(t[i])]
<1> DEFINE N == Len(t)
           Part(n) == [i \in 1 .. n |-> Reread(t[i])]
           objects == Objects(Stored(t), ObjectCap)
           Eqn(l) == l = [n \in 0 .. Len(objects) |->
                             IF n = 0 THEN <<>>
                             ELSE LoadNext(l[n - 1],
                                           ReadRecord(objects[n], Cap))]
<1>1. /\ t \in Seq(Record) /\ N \in Nat /\ N <= MaxRecords
      /\ \A i \in 1 .. N : /\ Tame(t[i]) /\ t[i] \in Record
                            /\ \A f \in Field : t[i][f] # <<>>
      /\ MaxRecords \in Nat
  <2>1. t \in Seq(Record) /\ Sound(t) /\ \A i \in 1 .. N : Tame(t[i])
    BY TameRecords
  <2>2. QED
    BY <2>1, CodecAssumption DEF Sound, CodecAssumption, Tame
<1>2. objects = [i \in 1 .. N |-> Serialized(t[i])]
  BY <1>1, ScanStored
<1> HIDE DEF objects
<1>3. Len(objects) = N
  <2>1. \A i \in 1 .. N : Serialized(t[i]) \in Text
    BY <1>1, SerializedText
  <2> HIDE DEF N
  <2>2. objects \in [1 .. N -> Text]
    BY <1>2, <2>1
  <2>3. QED
    BY <1>1, <2>2
<1> HIDE DEF N
<1>4. ASSUME NEW n \in 1 .. N
      PROVE  LoadNext(Part(n - 1), ReadRecord(objects[n], Cap)) = Part(n)
  <2> DEFINE r == Reread(t[n])
  <2>1. ReadRecord(objects[n], Cap) = r
    BY <1>2 DEF Reread
  <2>2. \A i \in 1 .. n : Reread(t[i]) \in Record
    <3>1. \A i \in 1 .. n : Tame(t[i])
      BY <1>1
    <3>2. QED
      BY <3>1, RereadRecord DEF Tame
  <2>3. \A f \in Field : r[f] # <<>>
    <3>1. Tame(t[n]) /\ t[n]["protocol"] # <<>> /\ t[n]["text"] # <<>>
      BY <1>1 DEF Field
    <3>2. r["protocol"] # <<>> /\ r["text"] # <<>>
      BY <3>1, RereadRecord
    <3> HIDE DEF r
    <3>3. QED
      BY <3>2 DEF Field
  <2> DEFINE S == Record
             d == Part(n - 1)
             y == Part(n)
  <2>4. n \in Nat /\ n - 1 \in Nat /\ n - 1 < MaxRecords
    BY <1>1
  <2>5. /\ d \in [1 .. n - 1 -> S] /\ y \in [1 .. n -> S]
        /\ \A i \in 1 .. n - 1 : y[i] = d[i]
        /\ y[n] = r /\ r \in S
    <3> HIDE DEF S
    <3>1. \A i \in 1 .. n : Reread(t[i]) \in S
      BY <2>2 DEF S
    <3>2. QED
      BY <3>1, <2>4
  <2> HIDE DEF r, S, d, y
  <2>6. d \in Seq(S) /\ Len(d) = n - 1 /\ y \in Seq(S) /\ Len(y) = n
    BY <2>4, <2>5
  <2> DEFINE z == Append(d, r)
  <2>7. z \in Seq(S) /\ Len(z) = n /\ \A i \in 1 .. n : z[i] = y[i]
    BY <2>4, <2>5, <2>6
  <2> HIDE DEF z
  <2>8. z = y
    BY <2>4, <2>6, <2>7
  <2>9. LoadNext(d, r) = z
    <3>1. ~(\E f \in Field : r[f] = <<>>)
      BY <2>3, Zenon
    <3>2. ~(Len(d) >= MaxRecords)
      BY <1>1, <2>4, <2>6
    <3>3. QED
      BY <3>1, <3>2, Zenon DEF LoadNext, z
  <2>10. QED
    BY <2>1, <2>8, <2>9 DEF d, y
<1>5. Eqn([n \in 0 .. N |-> Part(n)])
  <2> DEFINE l == [n \in 0 .. N |-> Part(n)]
  <2>1. \A n \in 1 .. N : n - 1 \in 0 .. N /\ l[n - 1] = Part(n - 1)
    BY <1>1
  <2>2. l[0] = <<>> /\ Part(0) = <<>>
    BY <1>1
  <2>3. \A n \in 0 .. N : n = 0 \/ n \in 1 .. N
    BY <1>1
  <2>4. \A n \in 0 .. N :
            Part(n) = IF n = 0 THEN <<>>
                      ELSE LoadNext(l[n - 1], ReadRecord(objects[n], Cap))
    <3> HIDE DEF Part, l
    <3>1. QED
      BY <1>4, <2>1, <2>2, <2>3
  <2>5. QED
    BY <1>3, <2>4
<1>6. PICK l : Eqn(l) /\ Loaded(Stored(t)) = l[Len(objects)]
  <2>1. \E l : Eqn(l)
    <3> HIDE DEF Eqn
    <3>1. QED
      BY <1>5
  <2>2. QED
    BY <2>1 DEF Loaded, objects
<1>7. /\ l[0] = <<>>
      /\ \A n \in 1 .. N :
            l[n] = LoadNext(l[n - 1], ReadRecord(objects[n], Cap))
  <2>1. \A n \in 1 .. N : n # 0 /\ n \in 0 .. N
    BY <1>1
  <2>2. 0 \in 0 .. N
    BY <1>1
  <2>3. QED
    BY <1>3, <1>6, <2>1, <2>2
<1> DEFINE T == {n \in 0 .. N : l[n] = Part(n)}
<1>8. 0 \in T
  <2>1. Part(0) = <<>> /\ 0 \in 0 .. N
    BY <1>1
  <2>2. QED
    BY <1>7, <2>1
<1> HIDE DEF Part
<1>9. ASSUME NEW n \in 1 .. N, n - 1 \in T PROVE n \in T
  <2>1. l[n - 1] = Part(n - 1) /\ n \in 0 .. N
    BY <1>1, <1>9
  <2>2. QED
    BY <1>4, <1>7, <2>1
<1>10. \A n \in 0 .. N : n \in T
  <2> HIDE DEF T
  <2>1. QED
    BY <1>1, <1>8, <1>9, Upto
<1>11. l[N] = Part(N)
  <2>1. N \in 0 .. N
    BY <1>1
  <2>2. QED
    BY <1>10, <2>1
<1>12. QED
  BY <1>3, <1>6, <1>11 DEF Part, N

\* A store that nothing was written to has no connections.
LEMMA LoadNothing == Loaded(<<>>) = <<>>
<1>1. ObjectCap \in Nat /\ <<>> \in Seq(Char) /\ Len(<<>>) = 0
  BY CodecAssumption DEF CodecAssumption
<1>2. PICK e : /\ IsScan(<<>>, ObjectCap, e)
               /\ (e[Len(<<>>)].at \in {"seek", "end"} =>
                      Objects(<<>>, ObjectCap) = e[Len(<<>>)].found)
  BY <1>1, ScanRun
<1>3. Objects(<<>>, ObjectCap) = <<>>
  BY <1>1, <1>2 DEF IsScan, Scan0
<1> DEFINE Eqn(l) == l = [n \in 0 .. 0 |->
                             IF n = 0 THEN <<>>
                             ELSE LoadNext(l[n - 1],
                                           ReadRecord(<<>>[n], Cap))]
<1>4. Eqn([n \in 0 .. 0 |-> <<>>])
  OBVIOUS
<1>5. PICK l : Eqn(l) /\ Loaded(<<>>) = l[0]
  <2>1. \E l : Eqn(l)
    <3> HIDE DEF Eqn
    <3>1. QED
      BY <1>4
  <2>2. QED
    BY <1>1, <1>3, <2>1 DEF Loaded
<1>6. QED
  BY <1>5

\* What a load makes of any file is a table that the program can have.
LEMMA LoadedFits ==
  ASSUME NEW file \in Text
  PROVE  Sound(Loaded(file))
<1> DEFINE objects == Objects(file, ObjectCap)
           N == Len(objects)
           Tables == {t \in Seq(Record) : Sound(t)}
           g == [t \in Tables |->
                     [o \in Text |-> LoadNext(t, ReadRecord(o, Cap))]]
           Eqn(l) == l = [n \in 0 .. Len(objects) |->
                             IF n = 0 THEN <<>>
                             ELSE LoadNext(l[n - 1],
                                           ReadRecord(objects[n], Cap))]
<1>1. ObjectCap \in Nat /\ MaxRecords \in Nat
  BY CodecAssumption DEF CodecAssumption
<1>2. objects \in Seq(Text) /\ N \in Nat
  BY <1>1, ScanRun DEF Text
<1> HIDE DEF objects, N
<1>3. ASSUME NEW o \in Text
      PROVE  LET r == ReadRecord(o, Cap)
             IN  r \in Record /\ \A f \in Field : Len(r[f]) < Cap[f]
  <2>1. \A f \in Field :
            /\ FieldStr(o, f, Cap[f]) \in Text
            /\ Len(FieldStr(o, f, Cap[f])) < Cap[f]
    BY FieldFits, CapType
  <2>2. QED
    BY <2>1 DEF ReadRecord, Record
<1>4. ASSUME NEW t \in Tables, NEW o \in Text
      PROVE  LoadNext(t, ReadRecord(o, Cap)) \in Tables
  <2> DEFINE r == ReadRecord(o, Cap)
  <2>1. r \in Record /\ \A f \in Field : Len(r[f]) < Cap[f]
    BY <1>3
  <2> HIDE DEF r
  <2>2. CASE (\E f \in Field : r[f] = <<>>) \/ Len(t) >= MaxRecords
    <3>1. LoadNext(t, r) = t
      BY <2>2 DEF LoadNext
    <3>2. QED
      BY <3>1 DEF r
  <2>3. CASE ~((\E f \in Field : r[f] = <<>>) \/ Len(t) >= MaxRecords)
    <3> DEFINE u == Append(t, r)
    <3>1. LoadNext(t, r) = u
      BY <2>3, Zenon DEF LoadNext
    <3>2. t \in Seq(Record) /\ Len(t) \in Nat /\ Len(t) < MaxRecords
      BY <1>1, <2>3
    <3>3. /\ u \in Seq(Record) /\ Len(u) = Len(t) + 1
          /\ \A i \in 1 .. Len(t) : u[i] = t[i]
          /\ u[Len(t) + 1] = r
      BY <2>1, <3>2
    <3> HIDE DEF u
    <3>4. \A i \in 1 .. Len(t), f \in Field :
              t[i][f] # <<>> /\ Len(t[i][f]) < Cap[f]
      BY DEF Sound
    <3>5. \A f \in Field : r[f] # <<>> /\ Len(r[f]) < Cap[f]
      BY <2>1, <2>3, Zenon
    <3>6. \A i \in 1 .. Len(u) : i \in 1 .. Len(t) \/ i = Len(t) + 1
      BY <3>2, <3>3
    <3>7. \A i \in 1 .. Len(u), f \in Field :
              u[i][f] # <<>> /\ Len(u[i][f]) < Cap[f]
      BY <3>3, <3>4, <3>5, <3>6
    <3>8. Len(u) <= MaxRecords
      BY <1>1, <3>2, <3>3
    <3>9. u \in Tables
      BY <3>3, <3>7, <3>8 DEF Sound
    <3>10. QED
      BY <3>1, <3>9 DEF r
  <2>4. QED
    BY <2>2, <2>3
<1>5. <<>> \in Tables
  <2>1. <<>> \in Seq(Record) /\ Len(<<>>) = 0
    OBVIOUS
  <2>2. QED
    BY <1>1, <2>1 DEF Sound
<1>6. g \in [Tables -> [Text -> Tables]]
  <2> HIDE DEF Tables
  <2>1. QED
    BY <1>4
<1>7. PICK h : IsRun(Tables, <<>>, objects, g, h)
  <2> HIDE DEF g, Tables
  <2>1. QED
    BY <1>2, <1>5, <1>6, Runs, Zenon
<1> HIDE DEF Tables
<1>8. Eqn(h)
  <2>1. \A n \in 1 .. N : h[n - 1] \in Tables /\ objects[n] \in Text
    BY <1>2, <1>7 DEF IsRun, N
  <2>2. \A n \in 0 .. N : n # 0 => n \in 1 .. N
    BY <1>2
  <2>3. QED
    BY <1>7, <2>1, <2>2 DEF IsRun, N
<1>9. PICK l : Eqn(l) /\ Loaded(file) = l[N]
  <2>1. \E l : Eqn(l)
    BY <1>8
  <2>2. QED
    BY <2>1 DEF Loaded, objects, N
<1>10. /\ l[0] = <<>>
       /\ \A n \in 1 .. N :
             l[n] = LoadNext(l[n - 1], ReadRecord(objects[n], Cap))
  <2>1. \A n \in 1 .. N : n # 0 /\ n \in 0 .. N
    BY <1>2
  <2>2. 0 \in 0 .. N
    BY <1>2
  <2>3. QED
    BY <1>9, <2>1, <2>2 DEF N
<1> DEFINE T == {n \in 0 .. N : l[n] \in Tables}
<1>11. \A n \in 0 .. N : n \in T
  <2>1. 0 \in T
    BY <1>2, <1>5, <1>10
  <2>2. ASSUME NEW n \in 1 .. N, n - 1 \in T PROVE n \in T
    <3>1. l[n - 1] \in Tables /\ objects[n] \in Text /\ n \in 0 .. N
      BY <1>2, <2>2 DEF N
    <3>2. l[n] \in Tables
      BY <1>4, <1>10, <3>1
    <3>3. QED
      BY <3>1, <3>2
  <2> HIDE DEF T
  <2>3. QED
    BY <1>2, <2>1, <2>2, Upto
<1>12. l[N] \in Tables
  BY <1>2, <1>11
<1>13. QED
  BY <1>9, <1>12 DEF Tables

-----------------------------------------------------------------------------
(* The invariant.                                                            *)

\* What was given is one connection for each in the table, and a text given
\* without control characters is in the table as far as an array holds it.
Given ==
    /\ given \in Seq(Record) /\ Len(given) = Len(table)
    /\ \A i \in 1 .. Len(table), f \in Field :
          given[i][f] \in Clean =>
              \E cap \in {ValueCap, Cap[f]} :
                  table[i][f] = Cut(given[i][f], cap)

\* The table is sound, and what was stored last or loaded last.
CodecInv ==
    /\ Sound(table) /\ Given /\ disk \in Text
    /\ disk = Stored(table) \/ table = Loaded(disk)

\* The table after a load of what a save wrote, while protocols are harmless,
\* has harmless protocols and clean texts.
LEMMA LoadedTame ==
  ASSUME NEW t, TameTable(t)
  PROVE  LET l == Loaded(Stored(t))
         IN  /\ TameTable(l) /\ Len(l) = Len(t)
             /\ \A i \in 1 .. Len(t) :
                   l[i] = Reread(t[i]) /\ l[i]["text"] \in Clean
<1> DEFINE l == Loaded(Stored(t))
           N == Len(t)
<1>1. /\ t \in Seq(Record) /\ N \in Nat /\ N <= MaxRecords
      /\ \A i \in 1 .. N : /\ Tame(t[i])
                           /\ \A f \in Field : t[i][f] # <<>>
  BY TameRecords DEF Sound
<1>2. l = [i \in 1 .. N |-> Reread(t[i])]
  BY StoreLoad
<1>3. ASSUME NEW i \in 1 .. N
      PROVE  LET r == Reread(t[i])
             IN  /\ r \in Record /\ r["text"] \in Clean
                 /\ Harmless(r["protocol"])
                 /\ \A f \in Field : r[f] # <<>> /\ Len(r[f]) < Cap[f]
  <2> DEFINE r == Reread(t[i])
  <2>1. /\ Tame(t[i]) /\ t[i]["protocol"] # <<>> /\ t[i]["text"] # <<>>
    BY <1>1, CapType
  <2>2. /\ Tame(r) /\ r["text"] \in Clean
        /\ r["protocol"] # <<>> /\ r["text"] # <<>>
    BY <2>1, RereadRecord
  <2> HIDE DEF r
  <2>3. \A f \in Field : r[f] # <<>> /\ Len(r[f]) < Cap[f]
    BY <2>2, CapType DEF Tame
  <2>4. QED
    BY <2>2, <2>3 DEF Tame, r
<1> HIDE DEF N, l
<1>4. l \in Seq(Record) /\ Len(l) = N
  <2>1. l \in [1 .. N -> Record]
    BY <1>2, <1>3
  <2>2. QED
    BY <1>1, <2>1
<1>5. \A i \in 1 .. N : l[i] = Reread(t[i])
  BY <1>2
<1>6. TameTable(l)
  BY <1>1, <1>3, <1>4, <1>5 DEF TameTable, Sound
<1>7. QED
  BY <1>3, <1>4, <1>5, <1>6 DEF l, N

\* A second save and load change nothing then.
LEMMA LoadedTwice ==
  ASSUME NEW t, TameTable(t)
  PROVE  Loaded(Stored(Loaded(Stored(t)))) = Loaded(Stored(t))
<1> DEFINE l == Loaded(Stored(t))
           m == Loaded(Stored(l))
<1>1. TameTable(l) /\ Len(l) = Len(t)
      /\ \A i \in 1 .. Len(t) : l[i]["text"] \in Clean
  BY LoadedTame
<1>2. m = [i \in 1 .. Len(l) |-> Reread(l[i])]
  BY <1>1, StoreLoad
<1> HIDE DEF l, m
<1>3. l \in Seq(Record) /\ \A i \in 1 .. Len(l) : Tame(l[i])
  BY <1>1, TameRecords
<1>4. ASSUME NEW i \in 1 .. Len(l) PROVE Reread(l[i]) = l[i]
  <2> DEFINE r == Reread(l[i])
             d == l[i]
  <2>1. Tame(d) /\ d["text"] \in Clean
    BY <1>1, <1>3
  <2>2. Tame(r) /\ r["protocol"] = d["protocol"] /\ r["text"] = d["text"]
    BY <2>1, RereadRecord
  <2> HIDE DEF r, d
  <2>3. r \in Record /\ d \in Record
    BY <2>1, <2>2 DEF Tame
  <2>4. r = d
    BY <2>2, <2>3 DEF Record, Field
  <2>5. QED
    BY <2>4 DEF r, d
<1>5. m = l
  <2>1. m = [i \in 1 .. Len(l) |-> l[i]]
    BY <1>2, <1>4
  <2>2. QED
    BY <1>3, <2>1
<1>6. QED
  BY <1>5 DEF l, m

\* A request gives two texts.
LEMMA RequestRecord ==
  ASSUME NEW r \in Request
  PROVE  r \in Record
<1>1. Protocols \subseteq Seq(Char) /\ Texts \subseteq Seq(Char)
  BY CodecAssumption DEF CodecAssumption
<1>2. r["protocol"] \in Protocols /\ r["text"] \in Texts
      /\ r = [f \in {"protocol", "text"} |-> r[f]]
  BY DEF Request
<1>3. QED
  BY <1>1, <1>2 DEF Record, Text, Field

\* A save leaves the table and stores it.
LEMMA SaveKeeps ==
  ASSUME Sound(table'), Given', disk' = Stored(table')
  PROVE  CodecInv'
<1>1. table' \in Seq(Record)
  BY DEF Sound
<1>2. disk' \in Text
  BY <1>1, StoredRun
<1>3. QED
  BY <1>2 DEF CodecInv

\* The service starts with an empty table and no array in the store.
LEMMA CodecInit == Init => CodecInv
<1>1. SUFFICES ASSUME Init PROVE CodecInv
  OBVIOUS
<1>2. /\ table = <<>> /\ given = <<>> /\ disk = <<>> /\ <<>> \in Text
      /\ Len(<<>>) = 0 /\ <<>> \in Seq(Record) /\ MaxRecords \in Nat
  BY <1>1, CodecAssumption DEF Init, CodecAssumption, Text
<1>3. Sound(table)
  BY <1>2 DEF Sound
<1>4. Given
  BY <1>2 DEF Given
<1>5. QED
  BY <1>2, <1>3, <1>4, LoadNothing DEF CodecInv

\* An add appends what it reads of the request.
LEMMA AddKeeps ==
  ASSUME CodecInv, NEW r \in Request, Add(r)
  PROVE  CodecInv'
<1> DEFINE read == ReadRecord(Message(r), Cap)
           x == [f \in Field |-> Cut(r[f], Cap[f])]
           N == Len(table)
<1>1. /\ table \in Seq(Record) /\ N \in Nat /\ N < MaxRecords
      /\ given \in Seq(Record) /\ Len(given) = N
      /\ MaxRecords \in Nat /\ <<>> \notin Supported
  BY CodecAssumption DEF CodecInv, Sound, Given, Add, CodecAssumption
<1>2. r \in Record
  BY RequestRecord
<1>3. read = x
  BY <1>2, ReadRequest, CapType
<1>4. /\ x["protocol"] \in Supported /\ x["text"] # <<>>
      /\ table' = Append(table, x) /\ given' = Append(given, r)
      /\ disk' = Stored(table')
  <2> HIDE DEF read, x
  <2>1. /\ read["protocol"] \in Supported /\ read["text"] # <<>>
        /\ table' = Append(table, read) /\ given' = Append(given, r)
        /\ disk' = Stored(table')
    BY DEF Add, read
  <2>2. QED
    BY <1>3, <2>1
<1>5. \A f \in Field :
          /\ x[f] = Cut(r[f], Cap[f]) /\ x[f] \in Text
          /\ Len(x[f]) < Cap[f] /\ x[f] # <<>>
  <2>1. \A f \in Field : r[f] \in Text
    BY <1>2 DEF Record
  <2>2. \A f \in Field : x[f] = Cut(r[f], Cap[f])
    OBVIOUS
  <2>3. x["protocol"] # <<>> /\ x["text"] # <<>>
    BY <1>1, <1>4
  <2> HIDE DEF x
  <2>4. QED
    BY <2>1, <2>2, <2>3, CutFits, CapType
<1>6. x \in Record
  <2>1. x \in [Field -> Text]
    BY <1>5
  <2>2. QED
    BY <2>1 DEF Record
<1> HIDE DEF x, N, read
<1>7. /\ table' \in Seq(Record) /\ Len(table') = N + 1
      /\ \A i \in 1 .. N : table'[i] = table[i]
      /\ table'[N + 1] = x
      /\ given' \in Seq(Record) /\ Len(given') = N + 1
      /\ \A i \in 1 .. N : given'[i] = given[i]
      /\ given'[N + 1] = r
  BY <1>1, <1>2, <1>4, <1>6 DEF N
<1>8. \A i \in 1 .. N + 1 : i \in 1 .. N \/ i = N + 1
  BY <1>1
<1>9. Sound(table')
  <2>1. \A i \in 1 .. N, f \in Field :
            table[i][f] # <<>> /\ Len(table[i][f]) < Cap[f]
    BY DEF CodecInv, Sound, N
  <2>2. \A i \in 1 .. N + 1, f \in Field :
            table'[i][f] # <<>> /\ Len(table'[i][f]) < Cap[f]
    BY <1>5, <1>7, <1>8, <2>1
  <2>3. N + 1 <= MaxRecords
    BY <1>1
  <2>4. QED
    BY <1>7, <2>2, <2>3 DEF Sound
<1>10. Given'
  <2>1. \A i \in 1 .. N, f \in Field :
            given[i][f] \in Clean =>
                \E cap \in {ValueCap, Cap[f]} :
                    table[i][f] = Cut(given[i][f], cap)
    BY DEF CodecInv, Given, N
  <2>2. \A i \in 1 .. N + 1, f \in Field :
            given'[i][f] \in Clean =>
                \E cap \in {ValueCap, Cap[f]} :
                    table'[i][f] = Cut(given'[i][f], cap)
    BY <1>5, <1>7, <1>8, <2>1
  <2>3. QED
    BY <1>7, <2>2 DEF Given
<1>11. QED
  BY <1>4, <1>9, <1>10, SaveKeeps

\* What an update reads of a field is the text given, cut to one of two arrays.
LEMMA UpdateRead ==
  ASSUME NEW r \in Record
  PROVE  /\ ReadUpdate(r) \in Record
         /\ \A f \in Field :
               /\ Len(ReadUpdate(r)[f]) < Cap[f]
               /\ ReadUpdate(r)[f] = <<>> <=> r[f] = <<>>
               /\ \E cap \in {ValueCap, Cap[f]} :
                     ReadUpdate(r)[f] = Cut(r[f], cap)
<1> DEFINE cap == [f \in Field |-> ValueCap]
           read == ReadRecord(Message(r), cap)
<1>1. /\ ValueCap \in Nat /\ ValueCap > 1 /\ ProtocolCap \in Nat
      /\ FieldCap \in Nat /\ ProtocolCap <= ValueCap /\ ValueCap <= FieldCap
  BY CodecAssumption DEF CodecAssumption
<1>2. \A f \in Field : r[f] \in Text /\ cap[f] = ValueCap
  BY DEF Record
<1> HIDE DEF cap
<1>3. read = [f \in Field |-> Cut(r[f], cap[f])]
  BY <1>1, <1>2, ReadRequest
<1>4. \A f \in Field : read[f] = Cut(r[f], ValueCap)
  BY <1>2, <1>3
<1>5. ReadUpdate(r) = [f \in Field |-> Cut(read[f], Cap[f])]
  BY DEF ReadUpdate, cap, read
<1> HIDE DEF read
<1>6. ASSUME NEW f \in Field
      PROVE  LET x == Cut(read[f], Cap[f])
             IN  /\ x \in Text /\ Len(x) < Cap[f]
                 /\ x = <<>> <=> r[f] = <<>>
                 /\ \E c \in {ValueCap, Cap[f]} : x = Cut(r[f], c)
  <2> DEFINE x == Cut(read[f], Cap[f])
             v == Cut(r[f], ValueCap)
  <2>1. r[f] \in Text /\ read[f] = v
    BY <1>2, <1>4
  <2>2. v \in Text /\ Len(v) < ValueCap /\ (r[f] # <<>> => v # <<>>)
        /\ \A n \in Nat : n >= ValueCap => Cut(v, n) = v
    BY <1>1, <2>1, CutFits
  <2>3. x \in Text /\ Len(x) < Cap[f] /\ (v # <<>> => x # <<>>)
    <3> HIDE DEF v
    <3>1. QED
      BY <2>1, <2>2, CutFits, CapType
  <2>4. r[f] = <<>> => x = <<>>
    <3>1. \A n \in Nat : n > 1 => Cut(<<>>, n) = <<>>
      BY DEF Cut
    <3>2. QED
      BY <1>1, <2>1, <3>1, CapType
  <2>5. \E c \in {ValueCap, Cap[f]} : x = Cut(r[f], c)
    <3>1. CASE f = "text"
      <4>1. Cap[f] \in Nat /\ Cap[f] >= ValueCap
        BY <1>1, <3>1, CapType
      <4>2. x = v
        BY <2>1, <2>2, <4>1
      <4>3. QED
        BY <4>2
    <3>2. CASE f = "protocol"
      <4>1. Cap[f] \in Nat /\ Cap[f] > 1 /\ Cap[f] <= ValueCap
        BY <1>1, <3>2, CapType
      <4>2. x = Cut(r[f], Cap[f])
        <5> DEFINE c == Cap[f]
                   t == r[f]
        <5>1. /\ t \in Seq(Char) /\ Len(t) \in Nat /\ c \in Nat /\ c > 1
              /\ c <= ValueCap /\ v = Cut(t, ValueCap) /\ x = Cut(v, c)
          BY <2>1, <4>1 DEF Text
        <5> HIDE DEF c, t, v, x
        <5>2. CASE Len(t) < ValueCap
          <6>1. v = t
            BY <5>1, <5>2 DEF Cut
          <6>2. QED
            BY <5>1, <6>1 DEF c, t
        <5>3. CASE ~(Len(t) < ValueCap)
          <6>1. v = SubSeq(t, 1, ValueCap - 1)
            BY <5>1, <5>3 DEF Cut
          <6>2. /\ Len(v) = ValueCap - 1 /\ v \in Seq(Char)
                /\ \A i \in 1 .. ValueCap - 1 : v[i] = t[i]
            BY <1>1, <5>1, <5>3, <6>1
          <6>3. CASE c = ValueCap
            <7>1. x = v
              BY <1>1, <5>1, <6>2, <6>3 DEF Cut
            <7>2. QED
              BY <5>1, <6>3, <7>1 DEF c, t
          <6>4. CASE c < ValueCap
            <7>1. x = SubSeq(v, 1, c - 1)
              BY <1>1, <5>1, <6>2, <6>4 DEF Cut
            <7>2. Cut(t, c) = SubSeq(t, 1, c - 1)
              BY <1>1, <5>1, <5>3, <6>4 DEF Cut
            <7>3. SubSeq(v, 1, c - 1) = SubSeq(t, 1, c - 1)
              <8> DEFINE y == SubSeq(v, 1, c - 1)
                         z == SubSeq(t, 1, c - 1)
              <8>1. y \in Seq(Char) /\ Len(y) = c - 1
                    /\ \A i \in 1 .. c - 1 : y[i] = v[i]
                BY <1>1, <5>1, <6>2, <6>4
              <8>2. z \in Seq(Char) /\ Len(z) = c - 1
                    /\ \A i \in 1 .. c - 1 : z[i] = t[i]
                BY <1>1, <5>1, <5>3, <6>4
              <8>3. \A i \in 1 .. c - 1 : i \in 1 .. ValueCap - 1
                BY <1>1, <5>1, <6>4
              <8> HIDE DEF y, z
              <8>4. y = z
                BY <5>1, <6>2, <8>1, <8>2, <8>3
              <8>5. QED
                BY <8>4 DEF y, z
            <7>4. QED
              BY <7>1, <7>2, <7>3 DEF c, t
          <6>5. QED
            BY <1>1, <5>1, <6>3, <6>4
        <5>4. QED
          BY <5>2, <5>3
      <4>3. QED
        BY <4>2
    <3>3. QED
      BY <3>1, <3>2, CapType
  <2>6. QED
    BY <2>2, <2>3, <2>4, <2>5
<1>7. ReadUpdate(r) \in Record
  BY <1>5, <1>6 DEF Record
<1>8. \A f \in Field : ReadUpdate(r)[f] = Cut(read[f], Cap[f])
  BY <1>5
<1>9. QED
  BY <1>6, <1>7, <1>8

\* An update replaces what it is given, whatever the protocol is.
LEMMA UpdateKeeps ==
  ASSUME CodecInv, NEW p \in DOMAIN table, NEW r \in Request, Update(p, r)
  PROVE  CodecInv'
<1> DEFINE x == ReadUpdate(r)
           N == Len(table)
           old == table[p]
           gave == given[p]
           new == Updated(old, x)
           said == Updated(gave, r)
<1>1. /\ table \in Seq(Record) /\ N \in Nat /\ N <= MaxRecords
      /\ given \in Seq(Record) /\ Len(given) = N /\ p \in 1 .. N
  BY DEF CodecInv, Sound, Given
<1>2. /\ old \in Record /\ gave \in Record
      /\ \A f \in Field : old[f] # <<>> /\ Len(old[f]) < Cap[f]
      /\ \A f \in Field :
            gave[f] \in Clean =>
                \E cap \in {ValueCap, Cap[f]} : old[f] = Cut(gave[f], cap)
  BY <1>1 DEF CodecInv, Sound, Given
<1>3. r \in Record
  BY RequestRecord
<1>4. /\ x \in Record
      /\ \A f \in Field :
            /\ Len(x[f]) < Cap[f]
            /\ x[f] = <<>> <=> r[f] = <<>>
            /\ \E cap \in {ValueCap, Cap[f]} : x[f] = Cut(r[f], cap)
  BY <1>3, UpdateRead
<1>5. /\ table' = [table EXCEPT ![p] = new]
      /\ given' = [given EXCEPT ![p] = said]
      /\ disk' = Stored(table')
  BY DEF Update
<1> HIDE DEF x, old, gave
<1>6. /\ new \in Record /\ said \in Record
      /\ \A f \in Field :
            /\ new[f] = IF x[f] = <<>> THEN old[f] ELSE x[f]
            /\ said[f] = IF r[f] = <<>> THEN gave[f] ELSE r[f]
  BY <1>2, <1>3, <1>4 DEF Updated, Record
<1> HIDE DEF new, said
<1>7. \A f \in Field : new[f] # <<>> /\ Len(new[f]) < Cap[f]
  BY <1>2, <1>4, <1>6
<1>8. \A f \in Field :
          said[f] \in Clean =>
              \E cap \in {ValueCap, Cap[f]} : new[f] = Cut(said[f], cap)
  BY <1>2, <1>4, <1>6
<1> HIDE DEF N
<1>9. /\ table' \in Seq(Record) /\ Len(table') = N
      /\ given' \in Seq(Record) /\ Len(given') = N
      /\ \A i \in 1 .. N : table'[i] = IF i = p THEN new ELSE table[i]
      /\ \A i \in 1 .. N : given'[i] = IF i = p THEN said ELSE given[i]
  BY <1>1, <1>5, <1>6 DEF N
<1>10. Sound(table')
  <2>1. \A i \in 1 .. N, f \in Field :
            table[i][f] # <<>> /\ Len(table[i][f]) < Cap[f]
    BY DEF CodecInv, Sound, N
  <2>2. \A i \in 1 .. N, f \in Field :
            table'[i][f] # <<>> /\ Len(table'[i][f]) < Cap[f]
    BY <1>7, <1>9, <2>1
  <2>3. QED
    BY <1>1, <1>9, <2>2 DEF Sound
<1>11. Given'
  <2>1. \A i \in 1 .. N, f \in Field :
            given[i][f] \in Clean =>
                \E cap \in {ValueCap, Cap[f]} :
                    table[i][f] = Cut(given[i][f], cap)
    BY DEF CodecInv, Given, N
  <2>2. \A i \in 1 .. N, f \in Field :
            given'[i][f] \in Clean =>
                \E cap \in {ValueCap, Cap[f]} :
                    table'[i][f] = Cut(given'[i][f], cap)
    BY <1>8, <1>9, <2>1
  <2>3. QED
    BY <1>9, <2>2 DEF Given
<1>12. QED
  BY <1>5, <1>10, <1>11, SaveKeeps

\* A load of a store that was loaded already changes nothing.  One of a store
\* that a save wrote finds every connection and every clean text as it is, while
\* the protocols are harmless, and some table that fits when they are not.
LEMMA LoadKeeps ==
  ASSUME CodecInv, Load
  PROVE  CodecInv'
<1> DEFINE l == Loaded(disk)
<1>1. /\ table' = l /\ disk' = disk
      /\ given' = IF AllHarmless THEN given ELSE l
  BY DEF Load
<1>2. disk \in Text /\ Sound(l)
  BY LoadedFits DEF CodecInv
<1> HIDE DEF l
<1>3. /\ Sound(table') /\ disk' \in Text /\ table' = Loaded(disk')
  BY <1>1, <1>2 DEF l
<1>4. Given'
  <2>1. CASE ~AllHarmless
    <3>1. given' = l /\ l \in Seq(Record)
      BY <1>1, <1>2, <2>1 DEF Sound
    <3>2. ASSUME NEW i \in 1 .. Len(l), NEW f \in Field
          PROVE  l[i][f] = Cut(l[i][f], Cap[f])
      <4>1. Len(l[i][f]) < Cap[f]
        BY <1>2 DEF Sound
      <4>2. QED
        BY <4>1 DEF Cut
    <3>3. QED
      BY <1>1, <3>1, <3>2 DEF Given
  <2>2. CASE AllHarmless /\ table = l
    BY <1>1, <2>2 DEF CodecInv, Given
  <2>3. CASE AllHarmless /\ table # l
    <3>1. disk = Stored(table) /\ given' = given
      BY <1>1, <2>3 DEF CodecInv, l
    <3>2. TameTable(table)
      <4>1. table \in Seq(Record) /\ Sound(table)
        BY DEF CodecInv, Sound
      <4>2. DOMAIN table = 1 .. Len(table)
        BY <4>1
      <4>3. QED
        BY <2>3, <4>1, <4>2 DEF AllHarmless, TameTable
    <3>3. /\ Len(l) = Len(table)
          /\ \A i \in 1 .. Len(table) : l[i] = Reread(table[i])
      BY <3>1, <3>2, LoadedTame DEF l
    <3>4. \A i \in 1 .. Len(table) : Tame(table[i])
      BY <3>2, TameRecords
    <3>5. /\ given \in Seq(Record) /\ Len(given) = Len(table)
          /\ \A i \in 1 .. Len(table), f \in Field :
                given[i][f] \in Clean =>
                    \E cap \in {ValueCap, Cap[f]} :
                        table[i][f] = Cut(given[i][f], cap)
      BY DEF CodecInv, Given
    <3>6. ASSUME NEW i \in 1 .. Len(table), NEW f \in Field,
                 given[i][f] \in Clean
          PROVE  l[i][f] = table[i][f]
      <4> DEFINE r == table[i]
      <4>1. Tame(r) /\ l[i] = Reread(r)
        BY <3>3, <3>4
      <4>2. PICK cap \in {ValueCap, Cap[f]} : r[f] = Cut(given[i][f], cap)
        BY <3>5, <3>6
      <4>3. cap \in Nat /\ cap > 1
        BY <4>2, CapType, CodecAssumption DEF CodecAssumption
      <4>4. given[i][f] \in Text
        BY <3>6, CleanText
      <4>5. r[f] \in Clean
        BY <3>6, <4>2, <4>3, <4>4, CutFits
      <4> HIDE DEF r
      <4>6. Reread(r)[f] = r[f]
        BY <4>1, <4>5, RereadRecord, CapType
      <4>7. QED
        BY <4>1, <4>6 DEF r
    <3>7. QED
      BY <1>1, <3>1, <3>3, <3>5, <3>6 DEF Given
  <2>4. QED
    BY <2>1, <2>2, <2>3
<1>5. QED
  BY <1>3, <1>4 DEF CodecInv

\* Every step keeps the invariant.
LEMMA CodecStep == CodecInv /\ [Next]_vars => CodecInv'
<1>1. SUFFICES ASSUME CodecInv, [Next]_vars PROVE CodecInv'
  OBVIOUS
<1>2. ASSUME NEW r \in Request, Add(r) PROVE CodecInv'
  BY <1>1, <1>2, AddKeeps
<1>3. ASSUME NEW i \in DOMAIN table, NEW r \in Request, Update(i, r)
      PROVE  CodecInv'
  BY <1>1, <1>3, UpdateKeeps
<1>4. CASE Save
  <2>1. table' = table /\ given' = given /\ disk' = Stored(table')
    BY <1>4 DEF Save
  <2>2. Sound(table') /\ Given'
    BY <1>1, <2>1 DEF CodecInv, Given
  <2>3. QED
    BY <2>1, <2>2, SaveKeeps
<1>5. CASE Load
  BY <1>1, <1>5, LoadKeeps
<1>6. CASE UNCHANGED vars
  BY <1>1, <1>6 DEF CodecInv, Given, vars
<1>7. QED
  BY <1>1, <1>2, <1>3, <1>4, <1>5, <1>6 DEF Next

-----------------------------------------------------------------------------

\* The invariant holds in every state, for arrays of any sizes that hold what
\* the code writes into them, and any texts.
THEOREM CodecInvariant == Spec => []CodecInv
  BY CodecInit, CodecStep, PTL DEF Spec

\* Every text of the table fits its array, with any number of connections and
\* through any changes, saves and loads, of a spoiled store too.
THEOREM CodecTypeCorrect == Spec => []TypeOK
<1>1. CodecInv => TypeOK
  <2>1. SUFFICES ASSUME CodecInv PROVE TypeOK
    OBVIOUS
  <2>2. /\ table \in Seq(Record) /\ Len(table) <= MaxRecords
        /\ Len(given) = Len(table) /\ DOMAIN table = 1 .. Len(table)
        /\ \A i \in 1 .. Len(table), f \in Field : Len(table[i][f]) < Cap[f]
    BY <2>1 DEF CodecInv, Sound, Given
  <2>3. \A i \in 1 .. Len(table), f \in Field : table[i][f] \in Seq(Char)
    <3>1. \A i \in 1 .. Len(table) : table[i] \in Record
      BY <2>2
    <3>2. QED
      BY <3>1 DEF Record, Text
  <2>4. QED
    BY <2>2, <2>3 DEF TypeOK
<1>2. QED
  BY <1>1, CodecInvariant, PTL

\* A text without control characters is kept as far as an array holds it,
\* through any changes, saves and loads.
THEOREM PlainTextIsKept == Spec => []PlainTextKept
<1>1. CodecInv => PlainTextKept
  <2>1. SUFFICES ASSUME CodecInv, NEW i \in DOMAIN table, NEW f \in Field,
                        Plain(given[i][f])
                 PROVE  \E cap \in {ValueCap, Cap[f]} :
                            table[i][f] = Cut(given[i][f], cap)
    BY DEF PlainTextKept
  <2>2. /\ given \in Seq(Record) /\ Len(given) = Len(table)
        /\ table \in Seq(Record) /\ i \in 1 .. Len(table)
    BY <2>1 DEF CodecInv, Sound, Given
  <2>3. given[i][f] \in Text
    <3>1. given[i] \in Record
      BY <2>2
    <3>2. QED
      BY <3>1 DEF Record
  <2>4. given[i][f] \in Clean
    BY <2>1, <2>3, CleanText
  <2>5. QED
    BY <2>1, <2>2, <2>4 DEF CodecInv, Given
<1>2. QED
  BY <1>1, CodecInvariant, PTL

\* The tables whose protocols are all harmless are tame.
LEMMA AllTame ==
  ASSUME CodecInv, AllHarmless
  PROVE  TameTable(table)
<1>1. table \in Seq(Record) /\ Sound(table)
  BY DEF CodecInv, Sound
<1>2. DOMAIN table = 1 .. Len(table)
  BY <1>1
<1>3. QED
  BY <1>1, <1>2 DEF AllHarmless, TameTable

\* A load of what a save wrote has every connection, whatever their texts are,
\* while no protocol needs an escape.
THEOREM NothingIsLost == Spec => []NothingLost
<1>1. CodecInv => NothingLost
  BY AllTame, LoadedTame DEF NothingLost
<1>2. QED
  BY <1>1, CodecInvariant, PTL

\* A second save and load give what the first gave, while no protocol needs an
\* escape.
THEOREM DamageIsSettled == Spec => []DamageSettles
<1>1. CodecInv => DamageSettles
  BY AllTame, LoadedTwice DEF DamageSettles
<1>2. QED
  BY <1>1, CodecInvariant, PTL

=============================================================================
