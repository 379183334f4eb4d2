---------------------------- MODULE Relay_proofs ----------------------------
(* Proofs about a browser tunnel, for every capacity of its buffer and its   *)
(* sockets and for any number of frames and units of output.                 *)
EXTENDS Relay, SequenceTheorems, FiniteSetTheorems, TLAPS

USE DEF vars, thread, client, server, Environment, Exits

-----------------------------------------------------------------------------
(* The inductive invariant.                                                  *)

Frames == [part : {"head", "body"}, kind : Kinds]
Asks   == [part : {"http"}, kind : Requests]

\* A browser sends frames only after it has sent its request, and the thread
\* has read the whole request when it looks at a frame.
Asked ==
    /\ pc = "request" => /\ half = "none" /\ wrote = <<>> /\ ticket = "held"
                         /\ up \in Seq(Asks) /\ Len(up) <= 1
    /\ pc # "request" => up \in Seq(Frames)
    /\ half # "none" => sent < MaxFrames

\* What the thread has still to write, and the frame it has read.
Busy ==
    /\ pc \in {"select", "feed"} => feed # <<>>
    /\ pc = "body" => frame \in Kinds \ {"bad"}

\* The ticket is used up before anything but a refusal is written.
Answered ==
    /\ pc \in {"request", "refuse"} => ticket = "held"
    /\ pc = "upgrade" => out = <<Unit("http", 101)>> /\ wrote = <<>>
    /\ pc \notin {"request", "refuse", "upgrade", "gone"} \cup Exits =>
          \/ wrote = <<>> /\ browser = "closed"
          \/ wrote # <<>> /\ wrote[1] = Unit("http", 101)
    /\ pc \in Exits \cup {"gone"} =>
          \/ ticket = "held"
          \/ wrote = <<>>
          \/ wrote[1] = Unit("http", 101)

\* The stages at which the protocol client has been started.
Served == {"select", "poll", "head", "body", "feed", "pong", "output", "relay",
           "end", "bye", "unselected", "done"}

USE DEF Served

\* Who has which end of the pair, at every stage and at every exit.
Ends ==
    /\ pc # "gone" => ws = "open"
    /\ pc \in {"request", "refuse", "upgrade", "pair", "noRequest", "refused",
               "unanswered", "unpaired"} =>
          pair[1] = "none" /\ pair[2] = "none" /\ proto = "none"
    /\ pc \in {"start", "unstarted"} =>
          pair[1] = "open" /\ pair[2] = "open" /\ proto = "none"
    /\ pc \in Served => pair[1] = "open" /\ proto # "none"
    /\ proto = "ended" => pair[2] = "closed"
    /\ NothingLeaks

RInv == TypeOK /\ Asked /\ Busy /\ Answered /\ Ends

-----------------------------------------------------------------------------
(* Sequences.                                                                *)

\* A sequence of some length is not the empty one.
LEMMA NotEmpty ==
  ASSUME NEW S, NEW s \in Seq(S), Len(s) # 0
  PROVE  s # <<>>
  OBVIOUS

\* The head and the tail of a sequence over S.
LEMMA HeadTail ==
  ASSUME NEW S, NEW s \in Seq(S), s # <<>>
  PROVE  /\ Head(s) \in S /\ Tail(s) \in Seq(S)
         /\ Len(Tail(s)) = Len(s) - 1
         /\ Len(s) # 1 => Tail(s) # <<>>
<1> DEFINE t == Tail(s)
<1>1. /\ Head(s) \in S /\ t \in Seq(S)
      /\ Len(t) = Len(s) - 1 /\ Len(s) \in Nat
  OBVIOUS
<1>2. Len(s) # 1 => t # <<>>
  <2> HIDE DEF t
  <2>1. QED
    BY <1>1, NotEmpty
<1>3. QED
  BY <1>1, <1>2

\* Appending an element of S to a sequence over S.
LEMMA Appended ==
  ASSUME NEW S, NEW s \in Seq(S), NEW e \in S
  PROVE  /\ Append(s, e) \in Seq(S) /\ Len(Append(s, e)) = Len(s) + 1
         /\ Append(s, e) # <<>>
         /\ s # <<>> => Append(s, e)[1] = s[1]
         /\ s = <<>> => Append(s, e)[1] = e
  OBVIOUS

\* A text frame for output of the protocol client is made of units.
LEMMA FrameType ==
  ASSUME NEW first \in Nat, NEW n \in Nat \ {0}, first + n <= MaxOut
  PROVE  TextFrame(first, n) \in Seq(Units) /\ TextFrame(first, n) # <<>>
<1> USE CapsAssumption
<1> DEFINE data == [i \in 1..n |-> Unit("data", first + i)]
<1>1. data \in Seq(Units)
  <2>1. \A i \in 1..n : Unit("data", first + i) \in Units
    BY DEF Units, Unit
  <2>2. QED
    BY <2>1
<1>2. <<Unit("text", n)>> \in Seq(Units)
  BY DEF Units, Unit
<1>3. /\ <<Unit("text", n)>> \o data \in Seq(Units)
      /\ <<Unit("text", n)>> \o data # <<>>
  <2> HIDE DEF data
  <2>1. QED
    BY <1>1, <1>2, ConcatProperties
<1>4. QED
  BY <1>3 DEF TextFrame

\* The fixed answers are made of units.
LEMMA FixedType ==
  /\ Pong \in Seq(Units) /\ Close \in Seq(Units)
  /\ \A n \in {101, 400, 403, 404} : <<Unit("http", n)>> \in Seq(Units)
<1>1. Pong[1] \in Units /\ Pong[2] \in Units /\ Close[1] \in Units
  BY DEF Units
<1>2. QED
  BY <1>1 DEF Pong, Close, Units, Unit

\* Nothing has been asked of a tunnel that has just been accepted.
LEMMA InitRInv == Init => RInv
<1> USE CapsAssumption
<1> SUFFICES ASSUME Init PROVE RInv
  OBVIOUS
<1>1. TypeOK
  <2>1. pair \in [1..2 -> {"none", "open", "closed", "stray"}]
    BY DEF Init
  <2>2. revents \in [ws : BOOLEAN, guac : BOOLEAN, hup : BOOLEAN]
    BY DEF Init, Quiet
  <2>3. /\ feed \in Seq(Instructions \cup {"select"})
        /\ fed \in Seq(Instructions \cup {"select"})
        /\ typed \in Seq(Instructions) /\ out \in Seq(Units)
        /\ wrote \in Seq(Units) /\ Len(wrote) = 0 /\ Len(fed) = 0
        /\ up \in Seq(Asks \cup Frames)
    BY DEF Init
  <2>4. up \in Seq([part : {"http"}, kind : Requests]
                     \cup [part : {"head", "body"}, kind : Kinds])
    BY DEF Init
  <2>5. seen \in 0..Len(wrote) /\ taken \in 0..Len(fed)
    BY <2>3 DEF Init
  <2>6. /\ sent \in 0..MaxFrames /\ made \in 0..MaxOut
        /\ got \in 0..made /\ left \in 0..MaxOut
    BY DEF Init
  <2>7. QED
    BY <2>1, <2>2, <2>3, <2>4, <2>5, <2>6 DEF Init, TypeOK
<1>2. Asked /\ Busy /\ Answered /\ Ends
  BY DEF Init, Asked, Busy, Answered, Ends, NothingLeaks, Running
<1>3. QED
  BY <1>1, <1>2 DEF RInv

-----------------------------------------------------------------------------
(* The environment.                                                          *)

\* The steps of the browser.
LEMMA BrowserInv == RInv /\ Browser => RInv'
<1> SUFFICES ASSUME RInv, Browser PROVE RInv'
  OBVIOUS
<1> USE CapsAssumption DEF RInv
<1>1. ASSUME NEW kind \in Requests, BrowserAsks(kind) PROVE RInv'
  <2> USE <1>1 DEF BrowserAsks
  <2>1. up' \in Seq(Asks) /\ Len(up') = 1
    BY DEF Piece, Asks
  <2>2. TypeOK'
    BY <2>1 DEF TypeOK, Asks
  <2>3. QED
    BY <2>1, <2>2 DEF Asked, Busy, Answered, Ends, NothingLeaks, Running
<1>2. ASSUME NEW kind \in Kinds, BrowserStarts(kind) PROVE RInv'
  <2> USE <1>2 DEF BrowserStarts
  <2>1. pc # "request"
    BY DEF TypeOK, Asked
  <2>2. Piece("head", kind) \in Frames
    BY DEF Piece, Frames
  <2>3. up' \in Seq(Frames)
    BY <2>1, <2>2, Appended DEF Asked
  <2>4. TypeOK'
    BY <2>3 DEF TypeOK, Frames
  <2>5. QED
    BY <2>1, <2>3, <2>4 DEF Asked, Busy, Answered, Ends, NothingLeaks, Running
<1>3. CASE BrowserFinishes
  <2> USE <1>3 DEF BrowserFinishes
  <2>1. pc # "request"
    BY DEF TypeOK, Asked
  <2>2. Piece("body", half) \in Frames
    BY DEF Piece, Frames, TypeOK
  <2>3. up' \in Seq(Frames)
    BY <2>1, <2>2, Appended DEF Asked
  <2>4. typed' \in Seq(Instructions)
    BY DEF TypeOK
  <2>5. sent' \in 0..MaxFrames
    BY DEF TypeOK, Asked
  <2>6. TypeOK'
    BY <2>3, <2>4, <2>5 DEF TypeOK, Frames
  <2>7. QED
    BY <2>1, <2>3, <2>6 DEF Asked, Busy, Answered, Ends, NothingLeaks, Running
<1>4. CASE BrowserReads
  BY <1>4 DEF BrowserReads, TypeOK, Asked, Busy, Answered, Ends, NothingLeaks,
              Running
<1>5. CASE BrowserCloses
  BY <1>5 DEF BrowserCloses, TypeOK, Asked, Busy, Answered, Ends, NothingLeaks,
              Running
<1>6. QED
  BY <1>1, <1>2, <1>3, <1>4, <1>5 DEF Browser

\* The steps of the protocol client.
LEMMA ProtocolInv == RInv /\ Protocol => RInv'
<1> SUFFICES ASSUME RInv, Protocol PROVE RInv'
  OBVIOUS
<1> USE CapsAssumption DEF RInv
<1>1. CASE ProtocolReads
  <2>1. proto' \in {proto, "args", "live"} /\ Running /\ Running'
    BY <1>1 DEF ProtocolReads, Running
  <2>2. TypeOK'
    BY <1>1, <2>1 DEF ProtocolReads, TypeOK
  <2>3. QED
    BY <1>1, <2>1, <2>2 DEF ProtocolReads, Asked, Busy, Answered, Ends,
                            NothingLeaks, Running
<1>2. CASE ProtocolWrites
  <2>1. made' \in 0..MaxOut /\ got \in 0..made'
    BY <1>2 DEF ProtocolWrites, TypeOK, Lesser
  <2>2. QED
    BY <1>2, <2>1 DEF ProtocolWrites, TypeOK, Asked, Busy, Answered, Ends,
                      NothingLeaks, Running
<1>3. timedOut' \in BOOLEAN
  BY DEF Protocol, ProtocolReads, ProtocolWrites, ProtocolEnds,
         HandshakeTimeout, ProtocolReadsEnd, TypeOK
<1>4. ASSUME Running, EndProtocol PROVE RInv'
  <2> USE <1>4 DEF EndProtocol
  <2>1. left' \in 0..MaxOut
    BY DEF TypeOK
  <2>2. /\ pair' \in [1..2 -> {"none", "open", "closed", "stray"}]
        /\ pair'[1] = pair[1] /\ pair'[2] = "closed"
    BY DEF TypeOK
  <2>3. TypeOK'
    BY <1>3, <2>1, <2>2 DEF TypeOK
  <2>4. QED
    BY <2>2, <2>3 DEF Asked, Busy, Answered, Ends, NothingLeaks, Running
<1>5. QED
  BY <1>1, <1>2, <1>4 DEF Running, Protocol, ProtocolEnds, ProtocolReadsEnd,
                           HandshakeTimeout

-----------------------------------------------------------------------------
(* The thread.                                                               *)

\* The empty sequence is a sequence over any set.
LEMMA Nothing == \A S : <<>> \in Seq(S) /\ Len(<<>>) = 0
  OBVIOUS

\* What is left to read has a first piece, and a rest.
LEMMA Reads ==
  ASSUME RInv, up # <<>>, up' = Tail(up)
  PROVE  /\ pc = "request" => Head(up) \in Asks /\ up' = <<>>
         /\ pc # "request" => Head(up) \in Frames /\ up' \in Seq(Frames)
         /\ up' \in Seq(Asks \cup Frames)
<1>1. CASE pc = "request"
  <2>1. up \in Seq(Asks) /\ Len(up) <= 1
    BY <1>1 DEF RInv, Asked
  <2>2. Head(up) \in Asks /\ up' = <<>>
    BY <2>1
  <2>3. up' \in Seq(Asks \cup Frames)
    BY <2>2, Nothing
  <2>4. QED
    BY <1>1, <2>2, <2>3
<1>2. CASE pc # "request"
  <2>1. Head(up) \in Frames /\ up' \in Seq(Frames)
    BY <1>2, HeadTail DEF RInv, Asked
  <2>2. up' \in Seq(Asks \cup Frames)
    BY <2>1
  <2>3. QED
    BY <1>2, <2>1, <2>2
<1>3. QED
  BY <1>1, <1>2

\* The request is answered, or never comes.
LEMMA RequestInv == RInv /\ (Reject \/ Upgrade \/ NoRequest) => RInv'
<1> SUFFICES ASSUME RInv, Reject \/ Upgrade \/ NoRequest PROVE RInv'
  OBVIOUS
<1> USE CapsAssumption DEF RInv
<1>1. CASE Reject
  <2> USE <1>1 DEF Reject
  <2>1. up' = <<>> /\ Head(up).kind \in {"target", "headers", "ticket"}
    BY Reads DEF Asks, Requests
  <2>2. out' \in Seq(Units)
    BY <2>1, FixedType DEF Refusal
  <2>3. TypeOK'
    BY <2>1, <2>2, Nothing DEF TypeOK
  <2>4. up' \in Seq(Frames)
    BY <2>1, Nothing
  <2>5. QED
    BY <2>3, <2>4 DEF Asked, Busy, Answered, Ends, NothingLeaks, Running
<1>2. CASE Upgrade
  <2> USE <1>2 DEF Upgrade
  <2>1. up' = <<>>
    BY Reads
  <2>2. out' \in Seq(Units)
    BY FixedType
  <2>3. TypeOK'
    BY <2>1, <2>2, Nothing DEF TypeOK
  <2>4. up' \in Seq(Frames)
    BY <2>1, Nothing
  <2>5. QED
    BY <2>3, <2>4 DEF Asked, Busy, Answered, Ends, NothingLeaks, Running
<1>3. CASE NoRequest
  BY <1>3 DEF NoRequest, TypeOK, Asked, Busy, Answered, Ends, NothingLeaks,
              Running
<1>4. QED
  BY <1>1, <1>2, <1>3

\* The socket pair, and the protocol client on one end of it.
LEMMA SetupInv == RInv /\ (OpenPair \/ StartProtocol) => RInv'
<1> SUFFICES ASSUME RInv, OpenPair \/ StartProtocol PROVE RInv'
  OBVIOUS
<1> USE CapsAssumption DEF RInv
<1>1. CASE OpenPair
  <2> USE <1>1 DEF OpenPair
  <2>1. pair' \in [1..2 -> {"none", "open", "closed", "stray"}]
    <3>1. <<"open", "open">> \in [1..2 -> {"none", "open", "closed", "stray"}]
      OBVIOUS
    <3>2. QED
      BY <3>1 DEF TypeOK
  <2>2. TypeOK'
    BY <2>1 DEF TypeOK
  <2>3. QED
    BY <2>2 DEF Asked, Busy, Answered, Ends, NothingLeaks, Running
<1>2. CASE StartProtocol
  <2> USE <1>2 DEF StartProtocol
  <2>1. feed' \in Seq(Instructions \cup {"select"})
    <3>1. <<"select">> \in Seq(Instructions \cup {"select"})
      OBVIOUS
    <3>2. QED
      BY <3>1 DEF TypeOK
  <2>2. TypeOK'
    BY <2>1 DEF TypeOK
  <2>3. Ends'
    <3>1. CASE pc' = "select" /\ proto' = "greet"
      BY <3>1 DEF Ends, NothingLeaks, Running
    <3>2. CASE pc' = "unstarted" /\ UNCHANGED proto
      BY <3>2 DEF Ends, NothingLeaks, Running
    <3>3. QED
      BY <3>1, <3>2
  <2>4. Asked' /\ Answered'
    BY DEF Asked, Answered
  <2>5. Busy'
    <3>1. <<"select">> # <<>>
      OBVIOUS
    <3>2. QED
      BY <3>1 DEF Busy
  <2>6. QED
    BY <2>2, <2>3, <2>4, <2>5
<1>3. QED
  BY <1>1, <1>2

\* Writing to the browser: the first thing it gets is the answer.
LEMMA ToBrowserInv == RInv /\ (WriteBrowser \/ WriteBrowserFails) => RInv'
<1> SUFFICES ASSUME RInv, WriteBrowser \/ WriteBrowserFails PROVE RInv'
  OBVIOUS
<1> USE CapsAssumption DEF RInv
<1>1. CASE WriteBrowser
  <2> USE <1>1 DEF WriteBrowser, Writing
  <2>1. /\ out' \in Seq(Units) /\ Head(out) \in Units
        /\ Len(out) # 1 => out' # <<>>
    <3>1. out \in Seq(Units)
      BY DEF TypeOK
    <3>2. QED
      BY <3>1, HeadTail
  <2>2. /\ wrote' \in Seq(Units) /\ Len(wrote') >= Len(wrote)
        /\ wrote # <<>> => wrote' # <<>> /\ wrote'[1] = wrote[1]
    <3>1. wrote \in Seq(Units)
      BY DEF TypeOK
    <3>2. wrote' = wrote \/ wrote' = Append(wrote, Head(out))
      OBVIOUS
    <3>3. CASE wrote' = wrote
      BY <3>1, <3>3
    <3>4. CASE wrote' = Append(wrote, Head(out))
      <4>1. wrote' \in Seq(Units) /\ Len(wrote') = Len(wrote) + 1 /\ wrote' # <<>>
        BY <2>1, <3>1, <3>4, Appended
      <4>2. wrote # <<>> => wrote'[1] = wrote[1]
        BY <2>1, <3>1, <3>4, Appended
      <4>3. QED
        BY <3>1, <4>1, <4>2
    <3>5. QED
      BY <3>2, <3>3, <3>4
  <2>3. pc' \in {pc, "pair", "refused", "done", "poll", "output", "end"}
    BY DEF AfterWrite, AfterInput, AfterOutput
  <2>4. TypeOK'
    <3>1. seen' \in 0..Len(wrote')
      BY <2>2 DEF TypeOK
    <3>2. QED
      BY <2>1, <2>2, <2>3, <3>1 DEF TypeOK
  <2>5. Answered'
    <3>1. CASE pc = "upgrade"
      <4>1. Len(out) = 1 /\ pc' = "pair" /\ Head(out) = Unit("http", 101)
        BY <3>1 DEF Answered, AfterWrite
      <4>2. wrote = <<>>
        BY <3>1 DEF Answered
      <4>3. \/ wrote' = <<>> /\ browser' = "closed"
            \/ wrote' # <<>> /\ wrote'[1] = Unit("http", 101)
        BY <4>1, <4>2, Appended DEF TypeOK
      <4>4. QED
        BY <4>1, <4>3 DEF Answered
    <3>2. CASE pc = "refuse"
      <4>1. pc' \in {"refuse", "refused"} /\ ticket' = "held"
        BY <3>2 DEF Answered, AfterWrite
      <4>2. QED
        BY <4>1 DEF Answered
    <3>3. CASE pc \in {"pong", "relay", "bye"}
      <4>1. pc' \in {"pong", "relay", "bye", "output", "end", "poll", "done"}
        BY <3>3 DEF AfterWrite, AfterInput, AfterOutput
      <4>2. \/ wrote' = <<>> /\ browser' = "closed"
            \/ wrote' # <<>> /\ wrote'[1] = Unit("http", 101)
        BY <2>2, <3>3 DEF Answered
      <4>3. QED
        BY <4>1, <4>2 DEF Answered
    <3>4. QED
      BY <3>1, <3>2, <3>3
  <2>6. Asked' /\ Busy'
    BY <2>3 DEF Asked, Busy
  <2>7. Ends'
    <3>1. /\ pc = "upgrade" => pc' \in {"upgrade", "pair"}
          /\ pc = "refuse" => pc' \in {"refuse", "refused"}
          /\ pc \in {"pong", "relay", "bye"} =>
                pc' \in {"pong", "relay", "bye", "output", "end", "poll", "done"}
      BY DEF AfterWrite, AfterInput, AfterOutput
    <3>2. QED
      BY <3>1 DEF Ends, NothingLeaks, Running
  <2>8. QED
    BY <2>4, <2>5, <2>6, <2>7
<1>2. CASE WriteBrowserFails
  <2> USE <1>2 DEF WriteBrowserFails, Writing
  <2>1. /\ pc \in {"pong", "relay"} => pc' = "end"
        /\ pc = "refuse" => pc' = "refused"
        /\ pc = "upgrade" => pc' = "unanswered"
        /\ pc = "bye" => pc' = "done"
    BY DEF AfterFailure
  <2>2. out' \in Seq(Units)
    OBVIOUS
  <2>3. TypeOK'
    BY <2>1, <2>2 DEF TypeOK
  <2>4. QED
    BY <2>1, <2>3 DEF Asked, Busy, Answered, Ends, NothingLeaks, Running
<1>3. QED
  BY <1>1, <1>2

\* Writing to the protocol client: "select", then what the browser sends.
LEMMA ToProtocolInv == RInv /\ (WriteProtocol \/ WriteProtocolFails) => RInv'
<1> SUFFICES ASSUME RInv, WriteProtocol \/ WriteProtocolFails PROVE RInv'
  OBVIOUS
<1> USE CapsAssumption DEF RInv
<1> DEFINE Inputs == Instructions \cup {"select"}
<1>t. feed \in Seq(Inputs) /\ fed \in Seq(Inputs) /\ taken \in 0..Len(fed)
  BY DEF TypeOK
<1>1. CASE WriteProtocol
  <2> USE <1>1 DEF WriteProtocol
  <2> HIDE DEF Inputs
  <2>1. /\ Head(feed) \in Inputs /\ Tail(feed) \in Seq(Inputs)
        /\ Len(Tail(feed)) = Len(feed) - 1
    BY <1>t, HeadTail DEF Busy
  <2>2. Len(feed) # 1 => feed' # <<>>
    BY <1>t, <2>1, NotEmpty
  <2>3. fed' \in Seq(Inputs) /\ Len(fed') = Len(fed) + 1
    BY <1>t, <2>1, Appended
  <2>4. /\ pc' \in {"select", "feed", "poll", "output", "end"}
        /\ pc' \in {"select", "feed"} => Len(feed) # 1
    BY DEF AfterWrite, AfterInput, AfterOutput
  <2>5. TypeOK'
    <3>1. taken' \in 0..Len(fed')
      BY <1>t, <2>3
    <3>2. QED
      BY <2>1, <2>3, <2>4, <3>1 DEF TypeOK, Inputs
  <2>6. QED
    BY <2>2, <2>4, <2>5 DEF Asked, Busy, Answered, Ends, NothingLeaks, Running
<1>2. CASE WriteProtocolFails
  <2> USE <1>2 DEF WriteProtocolFails
  <2>1. pc' = IF pc = "select" THEN "unselected" ELSE "end"
    BY DEF AfterFailure
  <2>2. TypeOK'
    BY <2>1, Nothing DEF TypeOK
  <2>3. QED
    BY <2>1, <2>2 DEF Asked, Busy, Answered, Ends, NothingLeaks, Running
<1>3. QED
  BY <1>1, <1>2

\* The relay reads: a frame of the browser, or output of the protocol client.
LEMMA LoopInv ==
  ASSUME RInv, Poll \/ ReadHead \/ ReadBody \/ ReadEnd \/ ReadOutput
  PROVE  RInv'
<1> USE CapsAssumption DEF RInv
<1>1. CASE Poll
  <2> USE <1>1 DEF Poll
  <2>1. revents' \in [ws : BOOLEAN, guac : BOOLEAN, hup : BOOLEAN]
    OBVIOUS
  <2>2. TypeOK'
    BY <2>1 DEF TypeOK
  <2>3. QED
    BY <2>2 DEF Asked, Busy, Answered, Ends, NothingLeaks, Running
<1>2. CASE ReadHead
  <2> USE <1>2 DEF ReadHead
  <2>1. Head(up) \in Frames /\ up' \in Seq(Frames)
    BY Reads
  <2>2. frame' \in Kinds /\ (pc' = "body" => frame' # "bad")
    BY <2>1 DEF Frames
  <2>3. TypeOK'
    BY <2>1, <2>2 DEF TypeOK, Frames
  <2>4. QED
    BY <2>1, <2>2, <2>3 DEF Asked, Busy, Answered, Ends, NothingLeaks, Running
<1>3. CASE ReadBody
  <2> USE <1>3 DEF ReadBody
  <2>1. up' \in Seq(Frames)
    BY Reads
  <2>2. feed' \in Seq(Instructions \cup {"select"}) /\ (pc' = "feed" => feed' # <<>>)
    <3>1. frame \in Instructions =>
             /\ <<frame>> \in Seq(Instructions \cup {"select"})
             /\ <<frame>> # <<>>
      OBVIOUS
    <3>2. QED
      BY <3>1 DEF TypeOK, AfterInput, AfterOutput
  <2>3. out' \in Seq(Units)
    BY FixedType DEF TypeOK
  <2>4. pc' \in {"feed", "pong", "end", "output", "poll"}
    BY DEF AfterInput, AfterOutput
  <2>5. TypeOK'
    BY <2>1, <2>2, <2>3, <2>4 DEF TypeOK, Frames
  <2>6. QED
    BY <2>1, <2>2, <2>4, <2>5
       DEF Asked, Busy, Answered, Ends, NothingLeaks, Running
<1>4. CASE ReadEnd
  BY <1>4 DEF ReadEnd, TypeOK, Asked, Busy, Answered, Ends, NothingLeaks, Running
<1>5. CASE ReadOutput
  <2> USE <1>5 DEF ReadOutput
  <2> DEFINE n == Lesser(made - got, BufCap)
  <2>1. n \in Nat /\ got + n <= made /\ made \in 0..MaxOut /\ got \in 0..made
    BY DEF Lesser, TypeOK
  <2>2. \/ out' = out /\ got' = got /\ pc' = "end"
        \/ n # 0 /\ out' = TextFrame(got, n) /\ got' = got + n /\ pc' = "relay"
    OBVIOUS
  <2> HIDE DEF n
  <2>3. out' \in Seq(Units)
    <3>1. CASE out' = out
      BY <3>1 DEF TypeOK
    <3>2. CASE n # 0 /\ out' = TextFrame(got, n)
      BY <2>1, <3>2, FrameType
    <3>3. QED
      BY <2>2, <3>1, <3>2
  <2>4. got' \in 0..made'
    BY <2>1, <2>2
  <2>5. TypeOK'
    BY <2>2, <2>3, <2>4 DEF TypeOK
  <2>6. QED
    BY <2>2, <2>5 DEF Asked, Busy, Answered, Ends, NothingLeaks, Running
<1>6. QED
  BY <1>1, <1>2, <1>3, <1>4, <1>5

\* The tunnel says goodbye, and closes what it has opened.
LEMMA EndInv == RInv /\ (SayGoodbye \/ Shut) => RInv'
<1> SUFFICES ASSUME RInv, SayGoodbye \/ Shut PROVE RInv'
  OBVIOUS
<1> USE CapsAssumption DEF RInv
<1>1. CASE SayGoodbye
  <2> USE <1>1 DEF SayGoodbye
  <2>1. TypeOK'
    BY FixedType DEF TypeOK
  <2>2. QED
    BY <2>1 DEF Asked, Busy, Answered, Ends, NothingLeaks, Running
<1>2. CASE Shut
  <2> USE <1>2 DEF Shut
  <2>1. \A fd, name : AtExit(fd, name) =
                        IF name \notin Closes[pc] THEN fd
                        ELSE IF fd = "open" THEN "closed" ELSE "stray"
    BY DEF AtExit
  <2>2. /\ pair'[1] = AtExit(pair[1], "near")
        /\ pair'[2] = AtExit(pair[2], "far")
        /\ pair' = <<pair'[1], pair'[2]>>
    OBVIOUS
  <2>3. "ws" \in Closes[pc] /\ ws = "open" /\ ws' = "closed"
    <3>1. "ws" \in Closes[pc]
      BY DEF Closes
    <3>2. QED
      BY <2>1, <3>1 DEF Ends
  <2>p. ASSUME NEW S, pair'[1] \in S, pair'[2] \in S
        PROVE  pair' \in [1..2 -> S]
    BY <2>2, <2>p
  <2>q. ASSUME pair' \in [1..2 -> {"none", "open", "closed", "stray"}]
        PROVE  TypeOK'
    <3>1. reset' \in BOOLEAN
      OBVIOUS
    <3>2. /\ UNCHANGED <<revents, frame, feed, out, ticket, Environment, wrote,
                         got>>
          /\ pc' = "gone"
      OBVIOUS
    <3> HIDE DEF Shut
    <3>3. QED
      BY <2>3, <2>q, <3>1, <3>2 DEF TypeOK
  <2>4. CASE pc \in {"noRequest", "refused", "unanswered", "unpaired"}
    <3>1. Closes[pc] = {"ws"}
      BY <2>4 DEF Closes
    <3>2. pair'[1] = "none" /\ pair'[2] = "none" /\ proto' = "none"
      BY <2>1, <2>2, <2>4, <3>1 DEF Ends
    <3>3. TypeOK'
      BY <3>2, <2>p, <2>q
    <3>4. QED
      BY <2>3, <3>2, <3>3 DEF Asked, Busy, Answered, Ends, NothingLeaks, Running
  <2>5. CASE pc = "unstarted"
    <3>1. Closes[pc] = {"near", "far", "ws"}
      BY <2>5 DEF Closes
    <3>2. pair'[1] = "closed" /\ pair'[2] = "closed" /\ proto' = "none"
      BY <2>1, <2>2, <2>5, <3>1 DEF Ends
    <3>3. TypeOK'
      BY <3>2, <2>p, <2>q
    <3>4. QED
      BY <2>3, <3>2, <3>3 DEF Asked, Busy, Answered, Ends, NothingLeaks, Running
  <2>6. CASE pc \in {"unselected", "done"}
    <3>1. Closes[pc] = {"near", "ws"}
      BY <2>6 DEF Closes
    <3>2. pair'[1] = "closed" /\ pair'[2] = pair[2]
      BY <2>1, <2>2, <2>6, <3>1 DEF Ends
    <3>3. pair[2] \in {"none", "open", "closed", "stray"} /\ pair[2] # "stray"
      BY DEF TypeOK, Ends, NothingLeaks
    <3>4. TypeOK'
      <4> HIDE DEF Shut
      <4>1. QED
        BY <3>2, <3>3, <2>p, <2>q
    <3>5. pair[2] = "open" => Running
      <4>1. proto # "none" /\ (proto = "ended" => pair[2] = "closed")
        BY <2>6 DEF Ends
      <4>2. proto \in {"none", "greet", "args", "live", "ended"}
        BY DEF TypeOK
      <4>3. QED
        BY <4>1, <4>2 DEF Running
    <3>6. Ends'
      <4>1. pc' = "gone" /\ UNCHANGED proto
        OBVIOUS
      <4>2. Running' => pair'[2] = "open"
        BY <3>2, <4>1 DEF Ends, NothingLeaks, Running
      <4>3. proto' = "ended" => pair'[2] = "closed"
        BY <3>2, <4>1 DEF Ends
      <4>4. pair'[2] = "open" => Running'
        BY <3>2, <3>5, <4>1 DEF Running
      <4>5. QED
        BY <2>3, <3>2, <3>3, <4>1, <4>2, <4>3, <4>4 DEF Ends, NothingLeaks
    <3>7. QED
      BY <2>6, <3>4, <3>6 DEF Asked, Busy, Answered
  <2>7. QED
    BY <2>4, <2>5, <2>6
<1>3. QED
  BY <1>1, <1>2

\* Every step keeps the invariant.
LEMMA NextRInv == RInv /\ [Next]_vars => RInv'
<1>1. RInv /\ UNCHANGED vars => RInv'
  BY DEF RInv, TypeOK, Asked, Busy, Answered, Ends, NothingLeaks, Running
<1>2. RInv /\ Thread => RInv'
  BY RequestInv, SetupInv, ToBrowserInv, ToProtocolInv, LoopInv, EndInv
     DEF Thread
<1>3. QED
  BY <1>1, <1>2, BrowserInv, ProtocolInv, Zenon DEF Next

\* The invariant holds in every behaviour.
LEMMA RInvHolds == Spec => []RInv
<1>1. QED
  BY InitRInv, NextRInv, PTL DEF Spec

-----------------------------------------------------------------------------
(* The theorems.                                                             *)

\* The variables of a tunnel have the values the code gives them.
THEOREM TypeCorrect == Spec => []TypeOK
<1>1. RInv => TypeOK
  BY DEF RInv
<1>2. QED
  BY <1>1, RInvHolds, PTL

\* A refused upgrade does not cost the browser its ticket, however its request,
\* its reads and its closing fall among the steps of the thread.
THEOREM TicketsAreKept == Spec => []RefusedKeepsTicket
<1>1. RInv => RefusedKeepsTicket
  BY DEF RInv, Asked, Answered, RefusedKeepsTicket, TypeOK
<1>2. QED
  BY <1>1, RInvHolds, PTL

\* At each of the exits of a tunnel's thread, in the set-up or after the relay,
\* the list of descriptors it closes is the one it has open, whatever the
\* protocol client has closed by then.
THEOREM DescriptorsAreClosed == Spec => []NothingLeaks
<1>1. RInv => NothingLeaks
  BY DEF RInv, Ends
<1>2. QED
  BY <1>1, RInvHolds, PTL

-----------------------------------------------------------------------------
(* What the browser types.                                                   *)

\* The stages before "select" is sent, those of the relay, and all at which
\* frames may still be read.
Before   == {"request", "refuse", "upgrade", "pair", "start"}
Relaying == {"select", "poll", "head", "body", "feed", "pong", "output", "relay"}
Reading  == Relaying \cup {"upgrade", "pair", "start"}

\* The kind of the frame that is half read before the i-th piece, if one is.
Expect(i) ==
    IF i = 1 THEN IF pc = "body" THEN frame ELSE "none"
    ELSE IF up[i - 1].part = "head" THEN up[i - 1].kind ELSE "none"

\* Heads and bodies alternate, and the last frame is as far as the browser is.
Paired ==
    pc \in Reading =>
        /\ \A i \in 1..Len(up) :
              up[i] = IF Expect(i) = "none" THEN Piece("head", up[i].kind)
                      ELSE Piece("body", Expect(i))
        /\ half = Expect(Len(up) + 1)

\* How many of the instructions have been read.
Gone == IF pc \in Before THEN 0 ELSE Len(fed) + Len(feed) - 1

Typed(p) == p.part = "body" /\ p.kind \in Instructions

\* c[i] instructions come before the i-th piece: the bodies of the others are
\* in order what was typed after them.
Counts(c) ==
    /\ c \in [1..(Len(up) + 1) -> 0..Len(typed)]
    /\ c[1] = Gone /\ c[Len(up) + 1] = Len(typed)
    /\ \A i \in 1..Len(up) :
          IF Typed(up[i])
          THEN c[i + 1] = c[i] + 1 /\ typed[c[i + 1]] = up[i].kind
          ELSE c[i + 1] = c[i]

\* What has been fed, and what is about to be, is what was typed.
InOrder ==
    /\ Len(fed) <= Len(typed) + 1
    /\ \A k \in 1..Len(fed) :
          fed[k] = IF k = 1 THEN "select" ELSE typed[k - 1]
    /\ pc \in Before => fed = <<>>
    /\ pc = "request" => typed = <<>>
    /\ pc = "select" => fed = <<>> /\ feed = <<"select">>
    /\ pc \in Relaying \ {"select", "feed"} => fed # <<>> /\ feed = <<>>
    /\ pc = "feed" => /\ fed # <<>> /\ Len(fed) <= Len(typed)
                      /\ feed = <<typed[Len(fed)]>>

Input == Paired /\ InOrder /\ (pc \in Reading => \E c : Counts(c))

-----------------------------------------------------------------------------
(* What the browser is sent.                                                 *)

Headers  == {h \in DOMAIN wrote : wrote[h].t = "text"}
Whole(h) == h + wrote[h].n <= Len(wrote)

\* A text frame is under way in the relay only, and is written to its end as
\* long as the browser is there: then what it is sent is all that was read.
Framing ==
    /\ pc # "relay" => \A j \in DOMAIN out : out[j].t \notin {"text", "data"}
    /\ pc = "relay" =>
          /\ out # <<>>
          /\ \A j \in 2..Len(out) : out[j].t = "data"
          /\ out[1].t = "data" \/ (out[1].t = "text" /\ out[1].n = Len(out) - 1)
          /\ \A j \in DOMAIN out : out[j].t = "data" => out[j].n = got - Len(out) + j
    /\ browser = "open" /\ pc # "relay" =>
          Cardinality(Data) = got /\ \A h \in Headers : Whole(h)
    /\ browser = "open" /\ pc = "relay" =>
          IF out[1].t = "text"
          THEN /\ Cardinality(Data) = got - (Len(out) - 1)
               /\ \A h \in Headers : Whole(h)
          ELSE /\ Cardinality(Data) = got - Len(out)
               /\ \E h \in Headers : /\ h + wrote[h].n = Len(wrote) + Len(out)
                                     /\ \A g \in Headers \ {h} : Whole(g)

-----------------------------------------------------------------------------
(* What is relayed when the protocol client has hung up.                     *)

Polled == {"head", "body", "feed", "pong", "output", "relay"}

\* Nothing broke the tunnel off but the protocol client.
Unbroken ==
    /\ browser = "open" /\ Len(fed) = Len(typed) + 1
    /\ frame \notin {"close", "bad"}

\* All that was left has been read, if the buffer takes it.
ReadUp == proto = "ended" /\ (left <= BufCap => got = made)

HangUp ==
    /\ pair[2] = "closed" /\ pc \notin Exits \cup {"gone"} => proto = "ended"
    /\ proto = "ended" => made - got <= left
    /\ pc \in Polled /\ revents.hup /\ browser = "open" =>
          revents.guac /\ proto = "ended"
    /\ pc = "output" => revents.guac
    /\ pc \in Polled \ {"relay"} /\ revents.guac => got < made \/ proto = "ended"
    /\ pc = "relay" /\ revents.hup /\ browser = "open" => ReadUp
    /\ pc \in {"end", "bye", "gone"} \cup Exits /\ proto # "none" /\ Unbroken =>
          ReadUp

-----------------------------------------------------------------------------
(* The protocol client gets what the browser types.                          *)

\* Where the browser and the thread are among the frames is unchanged by a step
\* that reads and sends no piece of one.
LEMMA NoPiece ==
  ASSUME Input, UNCHANGED <<up, half, typed>>,
         pc' \in Reading => /\ pc \in Reading /\ Gone' = Gone
                            /\ \/ pc' # "body" /\ pc # "body"
                               \/ pc' = pc /\ frame' = frame
  PROVE  Paired' /\ (pc' \in Reading => (\E c : Counts(c))')
<1>1. CASE pc' \notin Reading
  BY <1>1 DEF Paired
<1>2. CASE pc' \in Reading
  <2>1. \A i : Expect(i)' = Expect(i)
    BY <1>2 DEF Expect
  <2>2. Paired'
    BY <1>2, <2>1 DEF Paired, Input
  <2>3. PICK c : Counts(c)
    BY <1>2 DEF Input
  <2>4. Counts(c)'
    BY <1>2, <2>3 DEF Counts
  <2>5. QED
    BY <2>2, <2>4
<1>3. QED
  BY <1>1, <1>2

\* A piece that the browser sends goes behind the others, and continues them.
LEMMA OnePieceMore ==
  ASSUME RInv, Input, NEW piece \in Frames, pc \in Reading,
         up' = Append(up, piece), UNCHANGED <<pc, frame, fed, feed>>,
         piece = IF half = "none" THEN Piece("head", piece.kind)
                 ELSE Piece("body", half),
         half' = IF half = "none" THEN piece.kind ELSE "none",
         typed' = IF Typed(piece) THEN Append(typed, piece.kind) ELSE typed
  PROVE  Paired' /\ (\E c : Counts(c))'
<1>0. PICK L : L = Len(up)
  OBVIOUS
<1> USE <1>0
<1>1. /\ up \in Seq(Frames) /\ L \in Nat
      /\ up' \in Seq(Frames) /\ Len(up') = L + 1
      /\ \A i \in 1..L : up'[i] = up[i]
      /\ up'[L + 1] = piece
  <2>1. up \in Seq(Frames)
    BY DEF RInv, Asked, Reading, Relaying
  <2>2. QED
    BY <2>1
<1>2. /\ typed \in Seq(Instructions) /\ Len(typed) \in Nat
      /\ Len(typed') = IF Typed(piece) THEN Len(typed) + 1 ELSE Len(typed)
      /\ \A k \in 1..Len(typed) : typed'[k] = typed[k]
      /\ Typed(piece) => typed'[Len(typed) + 1] = piece.kind
  <2>1. typed \in Seq(Instructions)
    BY DEF RInv, TypeOK
  <2>2. Typed(piece) => piece.kind \in Instructions
    BY DEF Typed
  <2>3. QED
    BY <2>1, <2>2
<1>3. PICK c : Counts(c)
  BY DEF Input
<1>4. \A i \in 1..(L + 1) : Expect(i)' = Expect(i)
  BY <1>1 DEF Expect
<1>5. Expect(L + 2)' = half'
  <2>1. piece.part = "head" <=> half = "none"
    BY DEF Piece
  <2>2. QED
    BY <1>1, <2>1 DEF Expect
<1>6. Paired'
  <2>1. /\ \A i \in 1..L :
              up[i] = IF Expect(i) = "none" THEN Piece("head", up[i].kind)
                      ELSE Piece("body", Expect(i))
        /\ half = Expect(L + 1)
    BY DEF Input, Paired
  <2>2. \A i \in 1..(L + 1) :
           up'[i] = IF Expect(i) = "none" THEN Piece("head", up'[i].kind)
                    ELSE Piece("body", Expect(i))
    <3>1. \A i \in 1..L :
           up'[i] = IF Expect(i) = "none" THEN Piece("head", up'[i].kind)
                    ELSE Piece("body", Expect(i))
      BY <1>1, <2>1
    <3>2. up'[L + 1] = IF Expect(L + 1) = "none" THEN Piece("head", up'[L + 1].kind)
                    ELSE Piece("body", Expect(L + 1))
      BY <1>1, <2>1
    <3>3. QED
      BY <1>1, <3>1, <3>2
  <2>3. Len(up') + 1 = L + 2
    BY <1>1
  <2>4. QED
    BY <1>1, <1>4, <1>5, <2>2, <2>3 DEF Paired
<1>7. \E e : Counts(e)'
  <2>0. PICK T, e : /\ T = Len(typed)
                    /\ e = [i \in 1..(L + 2) |->
                              IF i <= L + 1 THEN c[i] ELSE Len(typed')]
    OBVIOUS
  <2> USE <2>0
  <2>1. /\ c \in [1..(L + 1) -> 0..T]
        /\ c[1] = Gone /\ c[L + 1] = T
        /\ \A i \in 1..L : IF Typed(up[i])
              THEN c[i + 1] = c[i] + 1 /\ typed[c[i + 1]] = up[i].kind
              ELSE c[i + 1] = c[i]
    BY <1>3 DEF Counts
  <2>2. e \in [1..(Len(up') + 1) -> 0..Len(typed')]
    BY <1>1, <1>2, <2>1
  <2>3. Gone' = Gone
    BY DEF Gone
  <2>4. e[1] = Gone' /\ e[Len(up') + 1] = Len(typed')
    BY <1>1, <2>1, <2>3
  <2>5. ASSUME NEW i \in 1..Len(up')
        PROVE  IF Typed(up'[i])
               THEN e[i + 1] = e[i] + 1 /\ typed'[e[i + 1]] = up'[i].kind
               ELSE e[i + 1] = e[i]
    <3>1. CASE i \in 1..L
      <4>0. /\ i \in 1..(L + 1) /\ i + 1 \in 1..(L + 1)
            /\ i \in 1..(L + 2) /\ i + 1 \in 1..(L + 2) /\ i + 1 <= L + 1
        BY <1>1, <3>1
      <4>1. /\ e[i] = c[i] /\ e[i + 1] = c[i + 1] /\ up'[i] = up[i]
            /\ c[i] \in 0..T /\ c[i + 1] \in 0..T
        BY <1>1, <2>1, <3>1, <4>0
      <4>2. CASE Typed(up[i])
        <5>1. c[i + 1] = c[i] + 1 /\ typed[c[i + 1]] = up[i].kind
          BY <2>1, <3>1, <4>2
        <5>2. c[i + 1] \in 1..T
          BY <1>2, <4>1, <5>1
        <5>3. QED
          BY <1>2, <4>1, <4>2, <5>1, <5>2
      <4>3. CASE ~Typed(up[i])
        BY <2>1, <3>1, <4>1, <4>3
      <4>4. QED
        BY <4>2, <4>3
    <3>2. CASE i = L + 1
      <4>1. e[i] = T /\ e[i + 1] = Len(typed') /\ up'[i] = piece
        BY <1>1, <2>1, <3>2
      <4>2. QED
        BY <1>2, <4>1
    <3>3. i \in 1..L \/ i = L + 1
      BY <1>1
    <3>4. QED
      BY <3>1, <3>2, <3>3, Zenon
  <2>6. Counts(e)'
    BY <2>2, <2>4, <2>5 DEF Counts
  <2>7. QED
    BY <2>6
<1>8. QED
  BY <1>6, <1>7

\* The thread reads the first piece: an instruction is the next that was typed.
LEMMA OnePieceLess ==
  ASSUME RInv, Input, pc \in {"head", "body"}, up # <<>>, up' = Tail(up),
         UNCHANGED <<half, typed, fed>>,
         IF pc = "head" THEN /\ frame' = Head(up).kind
                             /\ pc' \in {"end", "body"} /\ feed' = feed
         ELSE /\ frame' = frame /\ pc' # "body"
              /\ \/ frame \in Instructions /\ feed' = <<frame>>
                 \/ frame \notin Instructions /\ feed' = feed
         ,
         pc' \notin Before
  PROVE  /\ Paired'
         /\ (pc' \in Reading => (\E c : Counts(c))')
         /\ pc = "body" /\ frame \in Instructions =>
               Len(fed) <= Len(typed) /\ frame = typed[Len(fed)]
<1>0. PICK L : L = Len(up)
  OBVIOUS
<1> USE <1>0
<1>1. /\ up \in Seq(Frames) /\ L \in Nat /\ L > 0
      /\ up' \in Seq(Frames) /\ Len(up') = L - 1
      /\ \A i \in 1..(L - 1) : up'[i] = up[i + 1]
      /\ Head(up) = up[1]
  <2>1. up \in Seq(Frames)
    BY DEF RInv, Asked
  <2>2. QED
    BY <2>1
<1>2. PICK c : Counts(c)
  BY DEF Input, Reading, Relaying
<1>3. /\ fed \in Seq(Instructions \cup {"select"}) /\ Len(fed) \in Nat
      /\ feed = <<>> /\ Gone = Len(fed) - 1 /\ Len(typed) \in Nat
  <2>1. feed = <<>> /\ fed \in Seq(Instructions \cup {"select"})
    BY DEF Input, InOrder, Relaying, RInv, TypeOK
  <2>2. Gone = Len(fed) - 1
    BY <2>1 DEF Gone, Before
  <2>3. typed \in Seq(Instructions)
    BY DEF RInv, TypeOK
  <2>4. QED
    BY <2>1, <2>2, <2>3
<1>4. /\ \A i \in 1..L :
            up[i] = IF Expect(i) = "none" THEN Piece("head", up[i].kind)
                    ELSE Piece("body", Expect(i))
      /\ half = Expect(L + 1)
  BY DEF Input, Paired, Reading, Relaying
<1>5. up[1] = IF pc = "head" THEN Piece("head", up[1].kind) ELSE Piece("body", frame)
  <2>1. pc = "head" => Expect(1) = "none"
    BY DEF Expect
  <2>2. pc = "body" => Expect(1) = frame /\ frame # "none"
    BY KindsAssumption DEF Expect, RInv, Busy, Kinds
  <2>3. QED
    BY <1>1, <1>4, <2>1, <2>2
<1>6. up[1].part = (IF pc = "head" THEN "head" ELSE "body")
      /\ (pc = "body" => up[1].kind = frame)
  BY <1>5 DEF Piece
<1>7. /\ c \in [1..(L + 1) -> 0..Len(typed)]
      /\ c[1] = Gone /\ c[L + 1] = Len(typed)
      /\ \A i \in 1..L : IF Typed(up[i])
            THEN c[i + 1] = c[i] + 1 /\ typed[c[i + 1]] = up[i].kind
            ELSE c[i + 1] = c[i]
  BY <1>2 DEF Counts
<1>8. pc' \in Reading => \A i \in 1..L : Expect(i)' = Expect(i + 1)
  <2>1. ASSUME pc' \in Reading PROVE Expect(1)' = Expect(2)
    <3>1. Expect(2) = IF pc = "head" THEN up[1].kind ELSE "none"
      BY <1>6 DEF Expect
    <3>2. Expect(1)' = IF pc = "head" THEN up[1].kind ELSE "none"
      BY <1>1, <2>1 DEF Expect, Reading, Relaying
    <3>3. QED
      BY <3>1, <3>2
  <2>2. ASSUME NEW i \in 2..L PROVE Expect(i)' = Expect(i + 1)
    <3>1. up'[i - 1] = up[i]
      <4>1. i - 1 \in 1..(L - 1) /\ (i - 1) + 1 = i
        BY <1>1
      <4>2. QED
        BY <1>1, <4>1
    <3>2. QED
      BY <1>1, <3>1 DEF Expect
  <2>3. QED
    BY <1>1, <2>1, <2>2
<1>9. Paired'
  <2> SUFFICES ASSUME pc' \in Reading
               PROVE  /\ \A i \in 1..Len(up') :
                            up'[i] = IF Expect(i)' = "none"
                                     THEN Piece("head", up'[i].kind)
                                     ELSE Piece("body", Expect(i)')
                      /\ half' = Expect(L)'
    BY <1>1 DEF Paired
  <2>1. ASSUME NEW i \in 1..Len(up')
        PROVE  up'[i] = IF Expect(i)' = "none"
                        THEN Piece("head", up'[i].kind)
                        ELSE Piece("body", Expect(i)')
    <3>1. i \in 1..L /\ i + 1 \in 1..L /\ up'[i] = up[i + 1]
      BY <1>1
    <3>2. Expect(i)' = Expect(i + 1)
      BY <1>8, <3>1
    <3>3. QED
      BY <1>4, <3>1, <3>2
  <2>2. half' = Expect(L)'
    BY <1>1, <1>4, <1>8
  <2>3. QED
    BY <2>1, <2>2
<1>10. /\ Typed(up[1]) <=> pc = "body" /\ frame \in Instructions
       /\ Typed(up[1]) => /\ c[2] = Len(fed) /\ typed[c[2]] = frame
                          /\ Len(fed) <= Len(typed)
       /\ ~Typed(up[1]) => c[2] = Gone
  <2>1. Typed(up[1]) <=> pc = "body" /\ frame \in Instructions
    BY <1>6 DEF Typed
  <2>2. c[2] \in 0..Len(typed) /\ c[1] = Len(fed) - 1
    BY <1>1, <1>3, <1>7
  <2>3. 1 \in 1..L /\ 1 + 1 = 2
    BY <1>1
  <2>4. IF Typed(up[1])
        THEN c[2] = c[1] + 1 /\ typed[c[2]] = up[1].kind
        ELSE c[2] = c[1]
    BY <1>7, <2>3
  <2>5. QED
    BY <1>3, <1>6, <1>7, <2>1, <2>2, <2>4
<1>11. ASSUME pc' \in Reading PROVE \E e : Counts(e)'
  <2>0. PICK e : e = [i \in 1..L |-> c[i + 1]]
    OBVIOUS
  <2> USE <2>0
  <2>1. e \in [1..(Len(up') + 1) -> 0..Len(typed')]
    BY <1>1, <1>7
  <2>2. Gone' = c[2]
    <3>1. CASE Typed(up[1])
      <4>1. feed' = <<frame>> /\ Len(feed') = 1
        BY <1>10, <3>1
      <4>2. Gone' = Len(fed) + 1 - 1
        BY <4>1 DEF Gone
      <4>3. QED
        BY <1>3, <1>10, <3>1, <4>2
    <3>2. CASE ~Typed(up[1])
      <4>1. feed' = <<>>
        BY <1>3, <1>10, <3>2
      <4>2. Gone' = Len(fed) + 0 - 1
        BY <4>1, Nothing DEF Gone
      <4>3. QED
        BY <1>3, <1>10, <3>2, <4>2
    <3>3. QED
      BY <3>1, <3>2
  <2>3. e[1] = Gone' /\ e[Len(up') + 1] = Len(typed')
    BY <1>1, <1>7, <2>2
  <2>4. ASSUME NEW i \in 1..Len(up')
        PROVE  IF Typed(up'[i])
               THEN e[i + 1] = e[i] + 1 /\ typed'[e[i + 1]] = up'[i].kind
               ELSE e[i + 1] = e[i]
    <3>1. /\ i + 1 \in 1..L /\ i \in 1..L /\ up'[i] = up[i + 1]
          /\ e[i] = c[i + 1] /\ e[i + 1] = c[(i + 1) + 1]
      BY <1>1
    <3>2. QED
      BY <1>7, <3>1
  <2>5. Counts(e)'
    BY <2>1, <2>3, <2>4 DEF Counts
  <2>6. QED
    BY <2>5
<1>12. QED
  BY <1>9, <1>10, <1>11

\* Nothing has been typed at first.
LEMMA InitInput == Init => Input
<1> SUFFICES ASSUME Init PROVE Input
  OBVIOUS
<1>1. Paired /\ pc \notin Reading
  BY DEF Init, Paired, Reading, Relaying
<1>2. InOrder
  BY DEF Init, InOrder, Before, Relaying
<1>3. QED
  BY <1>1, <1>2 DEF Input

\* The steps of the browser.
LEMMA BrowserInput == RInv /\ Input /\ Browser => Input'
<1> SUFFICES ASSUME RInv, Input, Browser PROVE Input'
  OBVIOUS
<1>1. ASSUME NEW kind \in Requests, BrowserAsks(kind) PROVE Input'
  <2>1. Paired' /\ pc' \notin Reading
    BY <1>1 DEF BrowserAsks, Paired, Reading, Relaying
  <2>2. InOrder'
    BY <1>1 DEF BrowserAsks, Input, InOrder
  <2>3. QED
    BY <2>1, <2>2 DEF Input
<1>2. ASSUME NEW kind \in Kinds, BrowserStarts(kind) PROVE Input'
  <2> USE <1>2 DEF BrowserStarts
  <2>1. Piece("head", kind) \in Frames /\ Piece("head", kind).kind = kind
        /\ ~Typed(Piece("head", kind))
    BY DEF Piece, Frames, Typed
  <2>2. pc' \in Reading => Paired' /\ (\E c : Counts(c))'
    BY <2>1, OnePieceMore
  <2>3. Paired' /\ (pc' \in Reading => (\E c : Counts(c))')
    BY <2>2 DEF Paired
  <2>4. InOrder'
    BY DEF Input, InOrder
  <2>5. QED
    BY <2>3, <2>4 DEF Input
<1>3. CASE BrowserFinishes
  <2> USE <1>3 DEF BrowserFinishes
  <2>1. /\ half \in Kinds
        /\ Piece("body", half) \in Frames /\ Piece("body", half).kind = half
        /\ Typed(Piece("body", half)) <=> half \in Instructions
    BY DEF Piece, Frames, Typed, RInv, TypeOK
  <2>2. pc' \in Reading => Paired' /\ (\E c : Counts(c))'
    BY <2>1, OnePieceMore
  <2>3. Paired' /\ (pc' \in Reading => (\E c : Counts(c))')
    BY <2>2 DEF Paired
  <2>4. /\ typed \in Seq(Instructions) /\ Len(fed) \in Nat
        /\ Len(typed) \in Nat /\ Len(typed') >= Len(typed)
        /\ \A k \in 1..Len(typed) : typed'[k] = typed[k]
        /\ pc # "request"
    BY DEF RInv, TypeOK, Asked
  <2>5. InOrder'
    <3>1. Len(fed') <= Len(typed') + 1
      BY <2>4 DEF Input, InOrder
    <3>2. \A k \in 1..Len(fed') :
             fed'[k] = IF k = 1 THEN "select" ELSE typed'[k - 1]
      BY <2>4 DEF Input, InOrder
    <3>3. pc' = "feed" => /\ fed' # <<>> /\ Len(fed') <= Len(typed')
                          /\ feed' = <<typed'[Len(fed')]>>
      <4>1. SUFFICES ASSUME pc = "feed"
                     PROVE  /\ fed # <<>> /\ Len(fed) <= Len(typed')
                            /\ feed = <<typed'[Len(fed)]>>
        OBVIOUS
      <4>2. /\ fed # <<>> /\ Len(fed) <= Len(typed)
            /\ feed = <<typed[Len(fed)]>>
        BY <4>1 DEF Input, InOrder
      <4>3. fed \in Seq(Instructions \cup {"select"})
        BY DEF RInv, TypeOK
      <4>4. Len(fed) \in 1..Len(typed)
        BY <2>4, <4>2, <4>3
      <4>5. QED
        BY <2>4, <4>2, <4>4
    <3>4. QED
      BY <2>4, <3>1, <3>2, <3>3 DEF Input, InOrder
  <2>6. QED
    BY <2>3, <2>5 DEF Input
<1>4. CASE BrowserReads \/ BrowserCloses
  <2>1. UNCHANGED <<pc, frame, up, half, typed, fed, feed>>
    BY <1>4 DEF BrowserReads, BrowserCloses
  <2>2. InOrder'
    BY <2>1 DEF Input, InOrder
  <2>3. Gone' = Gone
    BY <2>1 DEF Gone
  <2>4. QED
    BY <2>1, <2>2, <2>3, NoPiece DEF Input
<1>5. QED
  BY <1>1, <1>2, <1>3, <1>4 DEF Browser

\* The steps of the protocol client change nothing of it.
LEMMA ProtocolInput == Input /\ Protocol => Input'
<1> SUFFICES ASSUME Input, Protocol PROVE Input'
  OBVIOUS
<1>1. UNCHANGED <<pc, frame, up, half, typed, fed, feed>>
  BY DEF Protocol, ProtocolReads, ProtocolWrites, ProtocolEnds,
         HandshakeTimeout, ProtocolReadsEnd, EndProtocol
<1>2. InOrder'
  BY <1>1 DEF Input, InOrder
<1>3. Gone' = Gone
  BY <1>1 DEF Gone
<1>4. QED
  BY <1>1, <1>2, <1>3, NoPiece DEF Input

\* The steps of the thread that neither read from the browser nor write to the
\* protocol client.
LEMMA AsideInput ==
  ASSUME RInv, Input,
         \/ NoRequest \/ OpenPair \/ StartProtocol \/ WriteBrowser
         \/ WriteBrowserFails \/ WriteProtocolFails \/ Poll \/ ReadEnd
         \/ ReadOutput \/ SayGoodbye \/ Shut
  PROVE  Input'
<1> USE DEF Before, Reading, Relaying
<1>1. CASE StartProtocol
  <2> USE <1>1 DEF StartProtocol
  <2>1. InOrder'
    BY DEF Input, InOrder
  <2>2. pc' \in Reading => feed' = <<"select">> /\ Len(feed') = 1 /\ fed' = <<>>
    BY DEF Input, InOrder
  <2>3. pc' \in Reading => Gone' = Gone
    <3>1. SUFFICES ASSUME pc' \in Reading PROVE Gone' = Gone
      OBVIOUS
    <3>2. Gone = 0 /\ Gone' = Len(fed') + Len(feed') - 1
      BY <3>1 DEF Gone
    <3>3. Len(feed') = 1 /\ Len(fed') = 0
      BY <2>2, <3>1, Nothing, Zenon
    <3>4. QED
      BY <3>2, <3>3
  <2>4. QED
    BY <2>1, <2>3, NoPiece DEF Input
<1>2. CASE WriteProtocolFails
  <2> USE <1>2 DEF WriteProtocolFails, AfterFailure
  <2>1. InOrder'
    BY DEF Input, InOrder
  <2>2. QED
    BY <2>1, NoPiece DEF Input
<1>3. CASE WriteBrowser
  <2> USE <1>3 DEF WriteBrowser, Writing, AfterWrite, AfterInput, AfterOutput
  <2>1. InOrder'
    BY DEF Input, InOrder
  <2>2. pc' \in Reading =>
            pc \in Reading /\ (pc' \in Before <=> pc \in Before)
    OBVIOUS
  <2>3. pc' \in Reading => Gone' = Gone
    BY <2>2 DEF Gone
  <2>4. QED
    BY <2>1, <2>2, <2>3, NoPiece DEF Input
<1>4. CASE WriteBrowserFails
  <2> USE <1>4 DEF WriteBrowserFails, AfterFailure, Writing
  <2>1. InOrder'
    BY DEF Input, InOrder
  <2>2. pc' \notin Reading
    OBVIOUS
  <2>3. QED
    BY <2>1, <2>2, NoPiece DEF Input
<1>5. CASE \/ NoRequest \/ OpenPair \/ Poll \/ ReadEnd
           \/ ReadOutput \/ SayGoodbye \/ Shut
  <2> USE <1>5 DEF NoRequest, OpenPair, Poll, ReadEnd, ReadOutput, SayGoodbye,
                   Shut
  <2>1. InOrder'
    BY DEF Input, InOrder
  <2>2. pc' \in Reading => Gone' = Gone
    BY DEF Gone
  <2>3. QED
    BY <2>1, <2>2, NoPiece DEF Input
<1>6. QED
  BY <1>1, <1>2, <1>3, <1>4, <1>5

\* The request: no frame has been sent.
LEMMA RequestInput == RInv /\ Input /\ (Reject \/ Upgrade) => Input'
<1> SUFFICES ASSUME RInv, Input, Reject \/ Upgrade PROVE Input'
  OBVIOUS
<1>1. InOrder'
  BY DEF Reject, Upgrade, Input, InOrder, Before, Relaying
<1>2. CASE Reject
  BY <1>1, <1>2 DEF Reject, Input, Paired, Reading, Relaying
<1>3. CASE Upgrade
  <2>1. /\ pc = "request" /\ pc' = "upgrade" /\ up' = <<>> /\ Len(up') = 0
        /\ half' = "none" /\ typed' = <<>> /\ Len(typed') = 0
    BY <1>3, Reads DEF Upgrade, RInv, Asked, Input, InOrder
  <2>2. Paired'
    BY <2>1 DEF Paired, Expect
  <2>3. PICK c : c = [i \in 1..1 |-> 0]
    OBVIOUS
  <2>4. Counts(c)'
    BY <2>1, <2>3 DEF Counts, Gone, Before
  <2>5. QED
    BY <1>1, <2>2, <2>4 DEF Input
<1>4. QED
  BY <1>2, <1>3

\* A frame is read, in two pieces.
LEMMA FrameInput == RInv /\ Input /\ (ReadHead \/ ReadBody) => Input'
<1> SUFFICES ASSUME RInv, Input, ReadHead \/ ReadBody PROVE Input'
  OBVIOUS
<1> USE DEF Before, Reading, Relaying
<1>1. CASE ReadHead
  <2> USE <1>1 DEF ReadHead
  <2>1. Paired' /\ (pc' \in Reading => (\E c : Counts(c))')
    BY OnePieceLess
  <2>2. InOrder'
    BY DEF Input, InOrder
  <2>3. QED
    BY <2>1, <2>2 DEF Input
<1>2. CASE ReadBody
  <2> USE <1>2 DEF ReadBody, AfterInput, AfterOutput
  <2>1. "ping" \notin Instructions /\ "close" \notin Instructions
        /\ "other" \notin Instructions
    BY KindsAssumption
  <2>2. /\ Paired' /\ (pc' \in Reading => (\E c : Counts(c))')
        /\ frame \in Instructions =>
              Len(fed) <= Len(typed) /\ frame = typed[Len(fed)]
    BY <2>1, OnePieceLess
  <2>3. InOrder'
    BY <2>1, <2>2 DEF Input, InOrder
  <2>4. QED
    BY <2>2, <2>3 DEF Input
<1>3. QED
  BY <1>1, <1>2

\* The protocol client is sent the next of what it is owed.
LEMMA FeedInput == RInv /\ Input /\ WriteProtocol => Input'
<1> SUFFICES ASSUME RInv, Input, WriteProtocol PROVE Input'
  OBVIOUS
<1> USE DEF WriteProtocol
<1>1. /\ fed \in Seq(Instructions \cup {"select"}) /\ Len(fed) \in Nat
      /\ typed \in Seq(Instructions) /\ Len(typed) \in Nat
  BY DEF RInv, TypeOK
<1>2. PICK e : /\ feed = <<e>> /\ e \in Instructions \cup {"select"}
               /\ e = IF Len(fed) = 0 THEN "select" ELSE typed[Len(fed)]
               /\ Len(fed) <= Len(typed)
               /\ pc = "select" <=> Len(fed) = 0
  <2>1. CASE pc = "select"
    BY <1>1, <2>1, Nothing DEF Input, InOrder
  <2>2. CASE pc = "feed"
    <3>1. /\ fed # <<>> /\ Len(fed) <= Len(typed) /\ feed = <<typed[Len(fed)]>>
      BY <2>2 DEF Input, InOrder
    <3>2. Len(fed) # 0
      BY <1>1, <3>1
    <3>3. typed[Len(fed)] \in Instructions
      BY <1>1, <3>1, <3>2
    <3>4. QED
      BY <2>2, <3>1, <3>2, <3>3
  <2>3. QED
    BY <2>1, <2>2
<1>3. /\ Head(feed) = e /\ feed' = <<>> /\ Len(feed) = 1 /\ Len(feed') = 0
  BY <1>2
<1>4. /\ Len(fed') = Len(fed) + 1 /\ fed' # <<>>
      /\ \A k \in 1..Len(fed) : fed'[k] = fed[k]
      /\ fed'[Len(fed) + 1] = e
  BY <1>1, <1>2, <1>3
<1>5. /\ pc' \in {"poll", "output", "end"}
      /\ pc \in Relaying /\ pc \notin Before /\ pc' \notin Before
  BY <1>3 DEF AfterWrite, AfterInput, AfterOutput, Before, Relaying
<1>6. InOrder'
  <2>1. Len(fed') <= Len(typed') + 1
    BY <1>1, <1>2, <1>4
  <2>2. ASSUME NEW k \in 1..Len(fed')
        PROVE  fed'[k] = IF k = 1 THEN "select" ELSE typed'[k - 1]
    <3>1. CASE k \in 1..Len(fed)
      BY <1>4, <3>1 DEF Input, InOrder
    <3>2. CASE k = Len(fed) + 1
      BY <1>1, <1>2, <1>4, <3>2
    <3>3. QED
      BY <1>1, <1>4, <3>1, <3>2
  <2>3. QED
    BY <1>3, <1>4, <1>5, <2>1, <2>2 DEF InOrder, Before, Relaying
<1>7. Gone' = Gone
  <2>1. /\ Gone = Len(fed) + Len(feed) - 1
        /\ Gone' = Len(fed') + Len(feed') - 1
    BY <1>5 DEF Gone
  <2>2. QED
    BY <1>1, <1>3, <1>4, <2>1
<1>8. QED
  BY <1>5, <1>6, <1>7, NoPiece DEF Input, Reading, Relaying

\* Every step keeps the invariant of the input.
LEMMA NextInput == RInv /\ Input /\ [Next]_vars => Input'
<1>1. ASSUME Input, UNCHANGED vars PROVE Input'
  <2>1. Gone' = Gone /\ InOrder'
    BY <1>1 DEF Gone, Input, InOrder
  <2>2. QED
    BY <1>1, <2>1, NoPiece DEF Input
<1>2. RInv /\ Input /\ Thread => Input'
  BY AsideInput, RequestInput, FrameInput, FeedInput, Zenon DEF Thread
<1>3. QED
  BY <1>1, <1>2, BrowserInput, ProtocolInput, Zenon DEF Next

\* The invariant of the input holds in every behaviour.
LEMMA InputHolds == Spec => []Input
<1>1. QED
  BY InitInput, NextInput, RInvHolds, PTL DEF Spec

-----------------------------------------------------------------------------
\* What reaches the protocol client is "select" and then the instructions the
\* browser sends, each once and in order, wherever a frame is broken in two, a
\* read stops half-way and pings or unknown frames come between.
THEOREM InputArrivesInOrder == Spec => []InputInOrder
<1>1. RInv /\ Input => InputInOrder
  <2>1. SUFFICES ASSUME RInv, Input PROVE InputInOrder
    OBVIOUS
  <2>2. PICK s : s = <<"select">> \o typed
    OBVIOUS
  <2>3. /\ fed \in Seq(Instructions \cup {"select"})
        /\ typed \in Seq(Instructions)
    BY <2>1 DEF RInv, TypeOK
  <2>4. /\ s \in Seq(Instructions \cup {"select"}) /\ Len(s) = Len(typed) + 1
        /\ \A k \in 1..Len(s) : s[k] = IF k = 1 THEN "select" ELSE typed[k - 1]
    BY <2>2, <2>3
  <2>5. Len(fed) <= Len(s) /\ \A k \in 1..Len(fed) : fed[k] = s[k]
    <3>1. /\ Len(fed) <= Len(typed) + 1
          /\ \A k \in 1..Len(fed) :
                fed[k] = IF k = 1 THEN "select" ELSE typed[k - 1]
      BY <2>1 DEF Input, InOrder
    <3>2. Len(fed) \in Nat /\ Len(typed) \in Nat
      BY <2>3
    <3>3. QED
      BY <2>4, <3>1, <3>2
  <2>6. fed = SubSeq(s, 1, Len(fed))
    <3>1. PICK m \in Nat : m = Len(fed)
      BY <2>3
    <3>2. PICK b : b = SubSeq(s, 1, m)
      OBVIOUS
    <3>3. /\ b \in Seq(Instructions \cup {"select"}) /\ Len(b) = m
          /\ \A k \in 1..m : b[k] = s[k]
      BY <2>4, <2>5, <3>1, <3>2
    <3>4. fed = b
      BY <2>3, <2>5, <3>1, <3>3, SeqEqual
    <3>5. QED
      BY <3>1, <3>2, <3>4
  <2>7. QED
    BY <2>2, <2>5, <2>6 DEF InputInOrder, IsPrefix
<1>2. QED
  BY <1>1, RInvHolds, InputHolds, PTL

-----------------------------------------------------------------------------
(* The browser gets what the protocol client writes, in whole frames.        *)

\* What the browser is sent has so many units, of which so many are output.
LEMMA Sent ==
  ASSUME wrote \in Seq(Units)
  PROVE  /\ Len(wrote) \in Nat /\ DOMAIN wrote = 1..Len(wrote)
         /\ \A d \in 1..Len(wrote) : wrote[d] \in Units /\ wrote[d].n \in Nat
         /\ Data \subseteq 1..Len(wrote) /\ Headers \subseteq 1..Len(wrote)
         /\ IsFiniteSet(Data) /\ Cardinality(Data) \in Nat
<1>1. Len(wrote) \in Nat /\ DOMAIN wrote = 1..Len(wrote)
  OBVIOUS
<1>2. \A u \in Units : u.n \in Nat
  BY CapsAssumption DEF Units, Pong, Close, Unit
<1>3. \A d \in 1..Len(wrote) : wrote[d] \in Units
  OBVIOUS
<1>4. Data \subseteq 1..Len(wrote) /\ Headers \subseteq 1..Len(wrote)
  BY <1>1 DEF Data, Headers
<1>5. IsFiniteSet(1..Len(wrote))
  BY <1>1, FS_Interval
<1>6. IsFiniteSet(Data) /\ Cardinality(Data) \in Nat
  BY <1>4, <1>5, FS_Subset, FS_CardinalityType
<1>7. QED
  BY <1>1, <1>2, <1>3, <1>4, <1>6

\* One unit more is one unit more of output, or one more header, or neither.
LEMMA OneUnitMore ==
  ASSUME wrote \in Seq(Units), NEW u \in Units, wrote' = Append(wrote, u)
  PROVE  /\ wrote' \in Seq(Units) /\ Len(wrote') = Len(wrote) + 1
         /\ \A d \in 1..Len(wrote) : wrote'[d] = wrote[d]
         /\ wrote'[Len(wrote) + 1] = u
         /\ Data' = IF u.t = "data" THEN Data \cup {Len(wrote) + 1} ELSE Data
         /\ Headers' = IF u.t = "text" THEN Headers \cup {Len(wrote) + 1} ELSE Headers
         /\ Cardinality(Data') =
               IF u.t = "data" THEN Cardinality(Data) + 1 ELSE Cardinality(Data)
         /\ \A d \in Data : {e \in Data' : e <= d} = {e \in Data : e <= d}
         /\ {e \in Data' : e <= Len(wrote) + 1} = Data'
<1>1. PICK L \in Nat : L = Len(wrote)
  OBVIOUS
<1>2. PICK w : w = wrote'
  OBVIOUS
<1>3. /\ w \in Seq(Units) /\ Len(w) = L + 1 /\ DOMAIN w = 1..(L + 1)
      /\ \A d \in 1..L : w[d] = wrote[d]
      /\ w[L + 1] = u
  BY <1>1, <1>2
<1>4. /\ DOMAIN wrote = 1..L
      /\ Data \subseteq 1..L /\ IsFiniteSet(Data) /\ Cardinality(Data) \in Nat
  BY <1>1, Sent
<1>5. 1..(L + 1) = (1..L) \cup {L + 1} /\ L + 1 \notin 1..L
  BY <1>1
<1>6. Data' = IF u.t = "data" THEN Data \cup {L + 1} ELSE Data
  <2>1. Data' = {d \in 1..(L + 1) : w[d].t = "data"}
    BY <1>2, <1>3 DEF Data
  <2>2. Data = {d \in 1..L : w[d].t = "data"}
    BY <1>3, <1>4 DEF Data
  <2>3. QED
    BY <1>3, <1>5, <2>1, <2>2
<1>7. Headers' = IF u.t = "text" THEN Headers \cup {L + 1} ELSE Headers
  <2>1. Headers' = {d \in 1..(L + 1) : w[d].t = "text"}
    BY <1>2, <1>3 DEF Headers
  <2>2. Headers = {d \in 1..L : w[d].t = "text"}
    BY <1>3, <1>4 DEF Headers
  <2>3. QED
    BY <1>3, <1>5, <2>1, <2>2
<1>8. Cardinality(Data \cup {L + 1}) = Cardinality(Data) + 1
  <2>1. L + 1 \notin Data
    BY <1>4, <1>5
  <2>2. QED
    BY <1>4, <2>1, FS_AddElement
<1>9. \A d \in Data : {e \in Data' : e <= d} = {e \in Data : e <= d}
  BY <1>1, <1>4, <1>6
<1>10. {e \in Data' : e <= L + 1} = Data'
  <2>1. \A e \in Data' : e <= L + 1
    BY <1>1, <1>4, <1>6
  <2>2. QED
    BY <2>1, Zenon
<1>11. QED
  BY <1>1, <1>2, <1>3, <1>6, <1>7, <1>8, <1>9, <1>10

\* Nothing has been sent at first.
LEMMA InitFraming == Init => OutputIntact /\ Framing
<1> SUFFICES ASSUME Init PROVE OutputIntact /\ Framing
  OBVIOUS
<1>1. DOMAIN wrote = {} /\ DOMAIN out = {} /\ Len(wrote) = 0
  BY DEF Init
<1>2. Data = {} /\ Headers = {} /\ Cardinality(Data) = 0
  BY <1>1, FS_EmptySet DEF Data, Headers
<1>3. QED
  BY <1>1, <1>2 DEF Init, OutputIntact, Framing

\* What has been sent is as it was after a step that sends nothing: then it is
\* enough to look at what is to be sent.
LEMMA SendsNothing ==
  ASSUME OutputIntact, Framing, UNCHANGED wrote,
         browser' = "open" => browser = "open",
         \/ UNCHANGED <<out, got>> /\ (pc' = "relay" <=> pc = "relay")
         \/ /\ pc' # "relay"
            /\ \A j \in DOMAIN out' : out'[j].t \notin {"text", "data"}
            /\ browser' = "open" => pc # "relay" /\ UNCHANGED got
  PROVE  OutputIntact' /\ Framing'
<1>1. Data' = Data /\ Headers' = Headers /\ \A h : Whole(h)' = Whole(h)
  BY DEF Data, Headers, Whole
<1>2. OutputIntact'
  BY <1>1 DEF OutputIntact
<1>3. Framing'
  BY <1>1 DEF Framing
<1>4. QED
  BY <1>2, <1>3

\* The fixed answers have no output in them.
LEMMA FixedParts ==
  /\ \A j \in DOMAIN Pong : Pong[j].t \notin {"text", "data"}
  /\ \A j \in DOMAIN Close : Close[j].t \notin {"text", "data"}
  /\ \A n : \A j \in DOMAIN <<Unit("http", n)>> :
        <<Unit("http", n)>>[j].t \notin {"text", "data"}
  BY DEF Pong, Close, Unit

\* The parts of the frame that carries n units.
LEMMA FrameParts ==
  ASSUME NEW first \in Nat, NEW n \in Nat
  PROVE  /\ Len(TextFrame(first, n)) = n + 1
         /\ DOMAIN TextFrame(first, n) = 1..(n + 1)
         /\ TextFrame(first, n)[1] = Unit("text", n)
         /\ \A j \in 2..(n + 1) :
               TextFrame(first, n)[j] = Unit("data", first + j - 1)
<1>1. PICK data : data = [i \in 1..n |-> Unit("data", first + i)]
  OBVIOUS
<1>2. PICK U : U = {Unit("text", n)} \cup {Unit("data", first + i) : i \in 1..n}
  OBVIOUS
<1>3. data \in Seq(U) /\ Len(data) = n /\ \A i \in 1..n : data[i] = Unit("data", first + i)
  BY <1>1, <1>2
<1>4. PICK head : head = <<Unit("text", n)>>
  OBVIOUS
<1>5. head \in Seq(U) /\ Len(head) = 1 /\ head[1] = Unit("text", n)
  BY <1>2, <1>4
<1>6. /\ Len(head \o data) = n + 1 /\ DOMAIN (head \o data) = 1..(n + 1)
      /\ (head \o data)[1] = Unit("text", n)
      /\ \A j \in 2..(n + 1) : (head \o data)[j] = data[j - 1]
  <2>1. PICK s : s = head \o data
    OBVIOUS
  <2>2. /\ s \in Seq(U) /\ Len(s) = 1 + n
        /\ \A i \in 1..(1 + n) : s[i] = IF i <= 1 THEN head[i] ELSE data[i - 1]
    <3>1. /\ s \in Seq(U) /\ Len(s) = Len(head) + Len(data)
          /\ \A i \in 1..(Len(head) + Len(data)) :
                s[i] = IF i <= Len(head) THEN head[i] ELSE data[i - Len(head)]
      BY <1>3, <1>5, <2>1, ConcatProperties, Zenon
    <3>2. QED
      BY <1>3, <1>5, <3>1
  <2>3. QED
    BY <1>5, <2>1, <2>2
<1>7. TextFrame(first, n) = head \o data
  BY <1>1, <1>4 DEF TextFrame
<1>8. QED
  BY <1>3, <1>6, <1>7

\* The steps of the browser and of the protocol client send nothing.
LEMMA EnvironmentFraming ==
  ASSUME OutputIntact, Framing, Browser \/ Protocol
  PROVE  OutputIntact' /\ Framing'
<1>1. /\ UNCHANGED <<wrote, out, got, pc>>
      /\ browser' = "open" => browser = "open"
  BY DEF Browser, BrowserAsks, BrowserStarts, BrowserFinishes, BrowserReads,
         BrowserCloses, Protocol, ProtocolReads, ProtocolWrites, ProtocolEnds,
         HandshakeTimeout, ProtocolReadsEnd, EndProtocol, thread
<1>2. QED
  BY <1>1, SendsNothing

\* Nor do the steps of the thread that do not write to the browser, but for
\* what they prepare.
LEMMA QuietFraming ==
  ASSUME OutputIntact, Framing,
         \/ Reject \/ Upgrade \/ NoRequest \/ OpenPair \/ StartProtocol
         \/ WriteBrowserFails \/ WriteProtocol \/ WriteProtocolFails
         \/ Poll \/ ReadHead \/ ReadBody \/ ReadEnd \/ SayGoodbye \/ Shut
  PROVE  OutputIntact' /\ Framing'
<1>1. UNCHANGED <<wrote, browser, got>>
  BY DEF Reject, Upgrade, NoRequest, OpenPair, StartProtocol,
         WriteBrowserFails, WriteProtocol, WriteProtocolFails,
         Poll, ReadHead, ReadBody, ReadEnd, SayGoodbye, Shut
<1>2. CASE \/ NoRequest \/ OpenPair \/ StartProtocol \/ WriteProtocol
           \/ WriteProtocolFails \/ Poll \/ ReadHead \/ ReadEnd \/ Shut
  <2>1. CASE WriteProtocol \/ WriteProtocolFails
    BY <1>1, <2>1, SendsNothing
       DEF WriteProtocol, WriteProtocolFails, AfterWrite, AfterInput,
           AfterOutput, AfterFailure
  <2>2. CASE \/ NoRequest \/ OpenPair \/ StartProtocol \/ Poll \/ ReadHead
             \/ ReadEnd \/ Shut
    BY <1>1, <2>2, SendsNothing
       DEF NoRequest, OpenPair, StartProtocol, Poll, ReadHead, ReadEnd, Shut
  <2>3. QED
    BY <1>2, <2>1, <2>2
<1>3. CASE WriteBrowserFails
  <2>1. /\ pc' # "relay" /\ out' = <<>> /\ browser' = "closed"
    BY <1>3 DEF WriteBrowserFails, Writing, AfterFailure
  <2>2. DOMAIN out' = {}
    BY <2>1
  <2>3. QED
    BY <1>1, <2>1, <2>2, SendsNothing
<1>4. CASE Reject \/ Upgrade \/ SayGoodbye
  <2>1. /\ pc # "relay" /\ pc' # "relay"
        /\ out' = Close \/ \E n : out' = <<Unit("http", n)>>
    BY <1>4 DEF Reject, Upgrade, SayGoodbye
  <2>2. \A j \in DOMAIN out' : out'[j].t \notin {"text", "data"}
    BY <2>1, FixedParts
  <2>3. QED
    BY <1>1, <2>1, <2>2, SendsNothing
<1>5. CASE ReadBody
  <2>1. /\ pc # "relay" /\ pc' # "relay"
        /\ out' = out \/ out' = Pong
    BY <1>5 DEF ReadBody, AfterInput, AfterOutput
  <2>2. \A j \in DOMAIN out' : out'[j].t \notin {"text", "data"}
    BY <2>1, FixedParts DEF Framing
  <2>3. QED
    BY <1>1, <2>1, <2>2, SendsNothing
<1>6. QED
  BY <1>2, <1>3, <1>4, <1>5

\* The output that was read becomes a frame.
LEMMA OutputFraming ==
  ASSUME RInv, OutputIntact, Framing, ReadOutput
  PROVE  OutputIntact' /\ Framing'
<1> USE DEF ReadOutput
<1>1. PICK n : n = Lesser(made - got, BufCap)
  OBVIOUS
<1>2. n \in Nat /\ got \in Nat /\ UNCHANGED <<wrote, browser>>
  BY <1>1, CapsAssumption DEF Lesser, RInv, TypeOK
<1>3. CASE n = 0
  BY <1>1, <1>3, SendsNothing
<1>4. CASE n # 0
  <2>1. /\ pc = "output" /\ pc' = "relay" /\ got' = got + n
        /\ out' = TextFrame(got, n)
    BY <1>1, <1>4
  <2>2. /\ Len(out') = n + 1 /\ DOMAIN out' = 1..(n + 1)
        /\ out'[1] = Unit("text", n)
        /\ \A j \in 2..(n + 1) : out'[j] = Unit("data", got + j - 1)
    BY <1>2, <2>1, FrameParts
  <2>3. out' # <<>>
    <3>1. Len(out') # 0
      BY <1>2, <2>2
    <3>2. QED
      BY <3>1, Nothing
  <2>4. Data' = Data /\ Headers' = Headers /\ \A h : Whole(h)' = Whole(h)
    BY <1>2 DEF Data, Headers, Whole
  <2>5. OutputIntact'
    BY <1>2, <2>4 DEF OutputIntact
  <2>6. /\ \A j \in 2..Len(out') : out'[j].t = "data"
        /\ out'[1].t = "text" /\ out'[1].n = Len(out') - 1
        /\ \A j \in DOMAIN out' :
              out'[j].t = "data" => out'[j].n = got' - Len(out') + j
    <3>1. /\ out'[1].t = "text" /\ out'[1].n = n
          /\ \A j \in 2..(n + 1) :
                out'[j].t = "data" /\ out'[j].n = got + j - 1
      <4>1. \A a, b : Unit(a, b).t = a /\ Unit(a, b).n = b
        BY DEF Unit
      <4>2. QED
        BY <2>2, <4>1
    <3>2. \A j \in 1..(n + 1) : j = 1 \/ j \in 2..(n + 1)
      BY <1>2
    <3>3. /\ Len(out') - 1 = n
          /\ \A j \in 2..(n + 1) : got + j - 1 = got' - Len(out') + j
      BY <1>2, <2>1, <2>2
    <3>4. QED
      BY <2>2, <3>1, <3>2, <3>3
  <2>7. browser' = "open" =>
           /\ Cardinality(Data') = got' - (Len(out') - 1)
           /\ \A h \in Headers' : Whole(h)'
    <3>1. browser = "open" =>
             Cardinality(Data) = got /\ \A h \in Headers : Whole(h)
      BY <2>1 DEF Framing
    <3>2. QED
      BY <1>2, <2>1, <2>2, <2>4, <3>1
  <2>8. Framing'
    BY <2>1, <2>3, <2>6, <2>7 DEF Framing
  <2>9. QED
    BY <2>5, <2>8
<1>5. QED
  BY <1>3, <1>4

\* One unit is written to the browser, or swallowed: what it was sent stays
\* whole, and the frame that is under way goes on where it was.
LEMMA SendFraming ==
  ASSUME RInv, OutputIntact, Framing, WriteBrowser
  PROVE  OutputIntact' /\ Framing'
<1> USE DEF WriteBrowser, Writing
<1>1. /\ wrote \in Seq(Units) /\ out \in Seq(Units) /\ got \in Nat
      /\ Len(wrote) \in Nat /\ DOMAIN wrote = 1..Len(wrote)
      /\ Data \subseteq 1..Len(wrote) /\ Headers \subseteq 1..Len(wrote)
      /\ Cardinality(Data) \in Nat
      /\ \A h \in Headers : wrote[h].n \in Nat
  <2>1. wrote \in Seq(Units) /\ out \in Seq(Units) /\ got \in Nat
    BY DEF RInv, TypeOK
  <2>2. QED
    BY <2>1, Sent
<1>2. PICK u \in Units : u = out[1]
  BY <1>1
<1>3. /\ Head(out) = u
      /\ Len(out) \in Nat /\ Len(out) > 0 /\ DOMAIN out = 1..Len(out)
      /\ out' \in Seq(Units) /\ Len(out') = Len(out) - 1
      /\ DOMAIN out' = 1..(Len(out) - 1)
      /\ \A j \in 1..(Len(out) - 1) : out'[j] = out[j + 1]
  BY <1>1, <1>2
<1>4. /\ pc # "relay" => pc' # "relay"
      /\ pc = "relay" => (pc' = "relay" <=> Len(out) # 1)
  BY DEF AfterWrite, AfterInput, AfterOutput
<1>5. pc = "relay" =>
         /\ \A j \in 2..Len(out) : out[j].t = "data"
         /\ u.t = "data" \/ (u.t = "text" /\ u.n = Len(out) - 1)
         /\ \A j \in 1..Len(out) : out[j].t = "data" => out[j].n = got - Len(out) + j
         /\ u.t = "text" => Len(out) # 1
  <2>1. pc = "relay" =>
         /\ \A j \in 2..Len(out) : out[j].t = "data"
         /\ u.t = "data" \/ (u.t = "text" /\ u.n = Len(out) - 1)
         /\ \A j \in 1..Len(out) : out[j].t = "data" => out[j].n = got - Len(out) + j
    BY <1>2, <1>3 DEF Framing
  <2>2. u.t = "text" => u.n \in 1..MaxOut
    BY CapsAssumption DEF Units, Pong, Close, Unit
  <2>3. QED
    BY <1>3, <2>1, <2>2, CapsAssumption
\* What is left to write.
<1>6. /\ pc' # "relay" => \A j \in DOMAIN out' : out'[j].t \notin {"text", "data"}
      /\ pc' = "relay" =>
            /\ out' # <<>>
            /\ \A j \in 1..Len(out') :
                  out'[j].t = "data" /\ out'[j].n = got' - Len(out') + j
  <2>1. CASE pc # "relay"
    <3>1. \A j \in 1..Len(out) : out[j].t \notin {"text", "data"}
      BY <1>3, <2>1 DEF Framing
    <3>2. \A j \in 1..(Len(out) - 1) : j + 1 \in 1..Len(out)
      BY <1>3
    <3>3. QED
      BY <1>3, <1>4, <2>1, <3>1, <3>2
  <2>2. CASE pc = "relay"
    <3>1. \A j \in 1..(Len(out) - 1) :
             /\ j + 1 \in 2..Len(out) /\ j + 1 \in 1..Len(out)
             /\ got - Len(out) + (j + 1) = got' - Len(out') + j
      BY <1>1, <1>3
    <3>2. \A j \in 1..(Len(out) - 1) :
             out'[j].t = "data" /\ out'[j].n = got' - Len(out') + j
      BY <1>3, <1>5, <2>2, <3>1
    <3>3. pc' # "relay" => DOMAIN out' = {}
      BY <1>3, <1>4, <2>2
    <3>4. pc' = "relay" => out' # <<>>
      <4>1. pc' = "relay" => Len(out') # 0
        BY <1>3, <1>4, <2>2
      <4>2. QED
        BY <4>1, Nothing
    <3>5. QED
      BY <1>3, <3>2, <3>3, <3>4
  <2>3. QED
    BY <2>1, <2>2
<1>7. CASE UNCHANGED wrote
  <2>1. Data' = Data /\ Headers' = Headers
    BY <1>7 DEF Data, Headers
  <2>2. OutputIntact'
    BY <1>7, <2>1 DEF OutputIntact
  <2>3. CASE browser = "closed"
    <3>1. Framing'
      BY <1>3, <1>6, <2>3 DEF Framing
    <3>2. QED
      BY <2>2, <3>1
  <2>4. CASE browser # "closed"
    <3>1. wrote' = Append(wrote, Head(out)) /\ Len(wrote') = Len(wrote) + 1
      BY <1>1, <1>2, <1>3, <2>4, Appended
    <3>2. QED
      BY <1>1, <1>7, <3>1
  <2>5. QED
    BY <2>3, <2>4
<1>8. CASE browser = "open" /\ wrote' = Append(wrote, u)
  <2>1. PICK L \in Nat, m \in Nat : L = Len(wrote) /\ m = Len(out)
    BY <1>1, <1>3
  <2>2. /\ wrote' \in Seq(Units) /\ Len(wrote') = L + 1
        /\ DOMAIN wrote' = 1..(L + 1)
        /\ \A d \in 1..L : wrote'[d] = wrote[d]
        /\ wrote'[L + 1] = u
        /\ Data' = IF u.t = "data" THEN Data \cup {L + 1} ELSE Data
        /\ Headers' = IF u.t = "text" THEN Headers \cup {L + 1} ELSE Headers
        /\ Cardinality(Data') =
              IF u.t = "data" THEN Cardinality(Data) + 1 ELSE Cardinality(Data)
        /\ \A d \in Data : {e \in Data' : e <= d} = {e \in Data : e <= d}
        /\ {e \in Data' : e <= L + 1} = Data'
    <3>1. /\ wrote' \in Seq(Units) /\ Len(wrote') = L + 1
          /\ \A d \in 1..L : wrote'[d] = wrote[d]
          /\ wrote'[L + 1] = u
          /\ Data' = IF u.t = "data" THEN Data \cup {L + 1} ELSE Data
          /\ Headers' = IF u.t = "text" THEN Headers \cup {L + 1} ELSE Headers
          /\ Cardinality(Data') =
                IF u.t = "data" THEN Cardinality(Data) + 1 ELSE Cardinality(Data)
          /\ \A d \in Data : {e \in Data' : e <= d} = {e \in Data : e <= d}
          /\ {e \in Data' : e <= L + 1} = Data'
      BY <1>1, <1>8, <2>1, OneUnitMore
    <3>2. DOMAIN wrote' = 1..(L + 1)
      BY <3>1
    <3>3. QED
      BY <3>1, <3>2
  \* Before this unit, every frame was whole but the one it belongs to.
  <2>3. /\ u.t = "data" => pc = "relay"
        /\ u.t = "text" => pc = "relay"
    BY <1>2, <1>3 DEF Framing
  <2>4. u.t # "data" =>
           /\ \A h \in Headers : h + wrote[h].n <= L
           /\ pc # "relay" => Cardinality(Data) = got
           /\ pc = "relay" => Cardinality(Data) = got - (m - 1)
    BY <1>2, <1>5, <1>8, <2>1 DEF Framing, Whole
  <2>5. u.t = "data" =>
           /\ Cardinality(Data) = got - m
           /\ \E h \in Headers : /\ h + wrote[h].n = L + m
                                 /\ \A g \in Headers \ {h} : g + wrote[g].n <= L
    BY <1>2, <1>8, <2>1, <2>3 DEF Framing, Whole
  <2>6. OutputIntact'
    <3>1. ASSUME NEW d \in Data'
          PROVE  wrote'[d].n = Cardinality({e \in Data' : e <= d})
      <4>1. CASE d \in Data
        BY <1>1, <2>1, <2>2, <4>1 DEF OutputIntact
      <4>2. CASE d \notin Data
        <5>1. d = L + 1 /\ u.t = "data"
          BY <2>2, <3>1, <4>2
        <5>2. u.n = got - m + 1
          <6>1. 1 \in 1..Len(out)
            BY <1>3
          <6>2. QED
            BY <1>2, <1>5, <2>1, <2>3, <5>1, <6>1
        <5>3. QED
          BY <1>1, <2>1, <2>2, <2>5, <5>1, <5>2
      <4>3. QED
        BY <4>1, <4>2
    <3>2. ASSUME NEW h \in Headers', NEW j \in 1..wrote'[h].n, h + j <= L + 1
          PROVE  wrote'[h + j].t = "data"
      <4>1. h # L + 1
        <5>1. u.n \in Nat
          BY CapsAssumption DEF Units, Pong, Close, Unit
        <5>2. SUFFICES ASSUME h = L + 1 PROVE FALSE
          OBVIOUS
        <5>3. j >= 1 /\ j \in Int
          BY <2>2, <3>2, <5>1, <5>2
        <5>4. QED
          BY <2>1, <3>2, <5>2, <5>3
      <4>2. h \in Headers /\ h \in 1..L /\ wrote'[h] = wrote[h] /\ wrote[h].n \in Nat
        BY <1>1, <2>1, <2>2, <3>2, <4>1
      <4>3. j \in 1..wrote[h].n /\ j \in Nat
        BY <3>2, <4>2
      <4>4. CASE h + j <= L
        <5>1. h + j \in 1..L
          BY <4>2, <4>3, <4>4
        <5>2. wrote[h + j].t = "data"
          BY <1>1, <2>1, <4>2, <4>3, <4>4 DEF OutputIntact, Headers
        <5>3. QED
          BY <2>2, <5>1, <5>2
      <4>5. CASE h + j = L + 1
        <5>1. CASE u.t = "data"
          BY <2>2, <4>5, <5>1
        <5>2. CASE u.t # "data"
          <6>1. h + wrote[h].n <= L
            BY <2>4, <4>2, <5>2
          <6>2. QED
            BY <2>1, <4>2, <4>3, <4>5, <6>1
        <5>3. QED
          BY <5>1, <5>2
      <4>6. QED
        BY <2>1, <3>2, <4>2, <4>3, <4>4, <4>5
    <3>3. ASSUME NEW d \in Data'
          PROVE  \E h \in 1..(d - 1) : wrote'[h].t = "text" /\ d <= h + wrote'[h].n
      <4>1. CASE d \in Data
        <5>1. PICK h \in 1..(d - 1) : wrote[h].t = "text" /\ d <= h + wrote[h].n
          BY <4>1 DEF OutputIntact
        <5>2. h \in 1..L
          BY <1>1, <2>1, <4>1
        <5>3. QED
          BY <2>2, <5>1, <5>2
      <4>2. CASE d \notin Data
        <5>1. d = L + 1 /\ u.t = "data"
          BY <2>2, <3>3, <4>2
        <5>2. PICK h \in Headers : h + wrote[h].n = L + m
          BY <2>5, <5>1
        <5>3. h \in 1..L /\ wrote'[h] = wrote[h] /\ wrote[h].t = "text"
          BY <1>1, <2>1, <2>2 DEF Headers
        <5>4. h \in 1..(d - 1) /\ d <= h + wrote[h].n
          BY <1>3, <2>1, <5>1, <5>2, <5>3
        <5>5. QED
          BY <5>3, <5>4
      <4>3. QED
        BY <4>1, <4>2
    <3>4. QED
      BY <2>2, <3>1, <3>2, <3>3 DEF OutputIntact, Headers
  <2>7. Framing'
    <3>1. ASSUME u.t # "data", u.t # "text"
          PROVE  /\ pc' # "relay" /\ Cardinality(Data') = got'
                 /\ \A h \in Headers' : h + wrote'[h].n <= L + 1
      <4>1. pc # "relay"
        BY <1>5, <3>1
      <4>2. QED
        BY <1>1, <1>4, <2>1, <2>2, <2>4, <3>1, <4>1
    <3>2. ASSUME u.t = "text"
          PROVE  /\ pc' = "relay" /\ Cardinality(Data') = got' - (m - 1)
                 /\ L + 1 \in Headers' /\ (L + 1) + wrote'[L + 1].n = (L + 1) + (m - 1)
                 /\ \A h \in Headers' \ {L + 1} : h + wrote'[h].n <= L + 1
      <4>1. pc = "relay" /\ pc' = "relay" /\ u.n = m - 1
        BY <1>4, <1>5, <2>1, <2>3, <3>2
      <4>2. QED
        BY <1>1, <2>1, <2>2, <2>4, <3>2, <4>1
    <3>3. ASSUME u.t = "data"
          PROVE  /\ pc' = "relay" <=> m # 1
                 /\ Cardinality(Data') = got' - (m - 1)
                 /\ \E h \in Headers' :
                       /\ h + wrote'[h].n = (L + 1) + (m - 1)
                       /\ \A g \in Headers' \ {h} : g + wrote'[g].n <= L + 1
      <4>1. pc' = "relay" <=> m # 1
        BY <1>4, <2>1, <2>3, <3>3
      <4>2. Cardinality(Data') = got' - (m - 1)
        BY <1>1, <2>1, <2>2, <2>5, <3>3
      <4>3. PICK h \in Headers :
               /\ h + wrote[h].n = L + m
               /\ \A g \in Headers \ {h} : g + wrote[g].n <= L
        BY <2>5, <3>3
      <4>4. \A g \in Headers : wrote'[g] = wrote[g] /\ g \in 1..L /\ wrote[g].n \in Nat
        BY <1>1, <2>1, <2>2
      <4>5. Headers' = Headers
        BY <2>2, <3>3
      <4>6. h + wrote'[h].n = (L + 1) + (m - 1)
        BY <2>1, <4>3, <4>4
      <4>7. \A g \in Headers' \ {h} : g + wrote'[g].n <= L + 1
        BY <2>1, <4>3, <4>4, <4>5
      <4>8. QED
        BY <4>1, <4>2, <4>5, <4>6, <4>7
    <3>4. /\ Len(out') = m - 1 /\ Len(wrote') = L + 1 /\ browser' = "open"
          /\ \A h : Whole(h)' <=> h + wrote'[h].n <= L + 1
      BY <1>3, <1>8, <2>1, <2>2 DEF Whole
    <3>5. pc' = "relay" => out'[1].t = "data"
      <4>1. SUFFICES ASSUME pc' = "relay" PROVE out'[1].t = "data"
        OBVIOUS
      <4>2. out' # <<>>
        BY <1>6, <4>1
      <4>3. 1 \in 1..Len(out')
        BY <1>3, <4>2
      <4>4. QED
        BY <1>6, <4>1, <4>3
    <3>6. /\ \A j \in DOMAIN out' : j \in 1..Len(out')
          /\ \A j \in 2..Len(out') : j \in 1..Len(out')
      BY <1>3
    <3>7. browser' = "open" /\ pc' # "relay" =>
             Cardinality(Data') = got' /\ \A h \in Headers' : Whole(h)'
      <4>1. SUFFICES ASSUME pc' # "relay"
                     PROVE  /\ Cardinality(Data') = got'
                            /\ \A h \in Headers' : h + wrote'[h].n <= L + 1
        BY <3>4
      <4>2. CASE u.t = "data"
        <5>1. m = 1
          BY <3>3, <4>1, <4>2
        <5>2. Cardinality(Data') = got'
          BY <1>1, <3>3, <4>2, <5>1
        <5>3. PICK h \in Headers' :
                 /\ h + wrote'[h].n = (L + 1) + (m - 1)
                 /\ \A g \in Headers' \ {h} : g + wrote'[g].n <= L + 1
          BY <3>3, <4>2
        <5>4. h + wrote'[h].n <= L + 1
          BY <2>1, <5>1, <5>3
        <5>5. QED
          BY <5>2, <5>3, <5>4
      <4>3. QED
        BY <3>1, <3>2, <4>1, <4>2
    <3>8. browser' = "open" /\ pc' = "relay" =>
             /\ Cardinality(Data') = got' - Len(out')
             /\ \E h \in Headers' : /\ h + wrote'[h].n = Len(wrote') + Len(out')
                                    /\ \A g \in Headers' \ {h} : Whole(g)'
      <4>1. SUFFICES ASSUME pc' = "relay"
                     PROVE  /\ Cardinality(Data') = got' - (m - 1)
                            /\ \E h \in Headers' :
                                 /\ h + wrote'[h].n = (L + 1) + (m - 1)
                                 /\ \A g \in Headers' \ {h} : g + wrote'[g].n <= L + 1
        BY <3>4
      <4>2. CASE u.t = "text"
        BY <3>2, <4>2
      <4>3. CASE u.t = "data"
        BY <3>3, <4>3
      <4>4. QED
        BY <3>1, <4>1, <4>2, <4>3
    <3>9. QED
      BY <1>6, <3>5, <3>6, <3>7, <3>8 DEF Framing
  <2>8. QED
    BY <2>6, <2>7
<1>9. QED
  BY <1>2, <1>3, <1>7, <1>8

\* Every step keeps what has been sent whole.
LEMMA NextFraming ==
  RInv /\ OutputIntact /\ Framing /\ [Next]_vars => OutputIntact' /\ Framing'
<1>1. ASSUME OutputIntact, Framing, UNCHANGED vars PROVE OutputIntact' /\ Framing'
  BY <1>1, SendsNothing
<1>2. RInv /\ OutputIntact /\ Framing /\ Thread => OutputIntact' /\ Framing'
  BY QuietFraming, OutputFraming, SendFraming, Zenon DEF Thread
<1>3. QED
  BY <1>1, <1>2, EnvironmentFraming, Zenon DEF Next

\* What has been sent is whole in every behaviour.
LEMMA FramingHolds == Spec => [](OutputIntact /\ Framing)
<1>1. QED
  BY InitFraming, NextFraming, RInvHolds, PTL DEF Spec

-----------------------------------------------------------------------------
\* The browser gets whole frames, whose payloads are the output of the protocol
\* client in order and without a gap, with whatever capacities, and wherever
\* the browser's reads fall among the units that are written.
THEOREM OutputIsIntact == Spec => []OutputIntact
<1>1. QED
  BY FramingHolds, PTL

-----------------------------------------------------------------------------
(* The browser gets the last words of the protocol client.                   *)

\* The counts of the output are numbers, and so is the capacity.
LEMMA Numbers ==
  ASSUME RInv
  PROVE  /\ made \in Nat /\ got \in Nat /\ got <= made /\ left \in Nat
         /\ BufCap \in Nat /\ BufCap > 0
         /\ Len(fed) \in Nat /\ Len(typed) \in Nat
         /\ browser \in {"open", "closed"}
<1>1. /\ fed \in Seq(Instructions \cup {"select"}) /\ typed \in Seq(Instructions)
      /\ browser \in {"open", "closed"}
  BY DEF RInv, TypeOK
<1>2. Len(fed) \in Nat /\ Len(typed) \in Nat
  BY <1>1
<1>3. QED
  BY <1>1, <1>2, CapsAssumption DEF RInv, TypeOK

\* The steps of the browser: what it types after the end breaks the tunnel off.
LEMMA BrowserHangUp ==
  ASSUME RInv, Input, HangUp, Browser
  PROVE  HangUp'
<1>1. /\ UNCHANGED <<pc, revents, frame, pair, proto, made, got, left, fed>>
      /\ browser' = "open" => browser = "open"
      /\ typed' = typed \/ Len(typed') = Len(typed) + 1
  <2>1. typed \in Seq(Instructions)
    BY DEF RInv, TypeOK
  <2>2. CASE BrowserFinishes
    BY <2>1, <2>2 DEF BrowserFinishes
  <2>3. CASE ~BrowserFinishes
    BY <2>3 DEF Browser, BrowserAsks, BrowserStarts, BrowserReads, BrowserCloses
  <2>4. QED
    BY <2>2, <2>3
<1>2. Unbroken' => Unbroken
  <2>1. Len(fed) <= Len(typed) + 1
    BY DEF Input, InOrder
  <2>2. QED
    BY <1>1, <2>1, Numbers DEF Unbroken
<1>3. ReadUp' = ReadUp
  BY <1>1 DEF ReadUp
<1>4. QED
  BY <1>1, <1>2, <1>3 DEF HangUp

\* The steps of the protocol client: it does not hang up behind the tunnel's
\* back.
LEMMA ProtocolHangUp ==
  ASSUME RInv, HangUp, Protocol
  PROVE  HangUp'
<1>1. UNCHANGED <<pc, revents, frame, got, browser, fed, typed>>
  BY DEF Protocol, ProtocolReads, ProtocolWrites, ProtocolEnds,
         HandshakeTimeout, ProtocolReadsEnd, EndProtocol
<1>2. Unbroken' = Unbroken
  BY <1>1 DEF Unbroken
<1>3. CASE ProtocolReads \/ ProtocolWrites
  <2>1. /\ UNCHANGED <<pair, left>> /\ Running /\ proto # "ended" /\ proto' # "ended"
        /\ proto # "none" /\ made' \in Nat /\ made' >= made
    BY <1>3, Numbers DEF ProtocolReads, ProtocolWrites, Running
  <2>2. QED
    BY <1>1, <1>2, <2>1, Numbers DEF HangUp, ReadUp
<1>4. CASE Running /\ EndProtocol
  <2>1. /\ proto # "ended" /\ proto # "none" /\ proto' = "ended"
        /\ left' = made - got /\ UNCHANGED made
    BY <1>4 DEF EndProtocol, Running
  <2>2. QED
    BY <1>1, <1>2, <2>1, Numbers DEF HangUp, ReadUp
<1>5. QED
  BY <1>3, <1>4 DEF Running, Protocol, ProtocolEnds, ProtocolReadsEnd,
                    HandshakeTimeout

\* The steps before the relay, and after it.
LEMMA OutsideHangUp ==
  ASSUME RInv, HangUp,
         \/ Reject \/ Upgrade \/ NoRequest \/ OpenPair \/ StartProtocol
         \/ SayGoodbye \/ Shut
  PROVE  HangUp'
<1> USE DEF Polled
<1>1. CASE Reject \/ Upgrade \/ NoRequest
  BY <1>1 DEF Reject, Upgrade, NoRequest, HangUp, RInv, Ends
<1>2. CASE OpenPair
  BY <1>2 DEF OpenPair, HangUp, RInv, Ends
<1>3. CASE StartProtocol
  BY <1>3 DEF StartProtocol, HangUp, RInv, Ends
<1>4. CASE SayGoodbye \/ Shut
  <2>1. /\ \/ pc = "end" /\ pc' = "bye" /\ UNCHANGED pair
           \/ pc \in Exits /\ pc' = "gone"
        /\ UNCHANGED <<frame, proto, made, got, left, browser, fed, typed>>
    BY <1>4 DEF SayGoodbye, Shut
  <2>2. Unbroken' = Unbroken /\ ReadUp' = ReadUp
    BY <2>1 DEF Unbroken, ReadUp
  <2>3. QED
    BY <2>1, <2>2 DEF HangUp
<1>5. QED
  BY <1>1, <1>2, <1>3, <1>4

\* Writing, to either side.
LEMMA WriteHangUp ==
  ASSUME RInv, Input, HangUp,
         \/ WriteBrowser \/ WriteBrowserFails
         \/ WriteProtocol \/ WriteProtocolFails
  PROVE  HangUp'
<1> USE DEF Polled
<1>1. UNCHANGED <<revents, frame, pair, proto, made, got, left, browser, typed>>
  BY DEF WriteBrowser, WriteBrowserFails, WriteProtocol, WriteProtocolFails
<1>2. ReadUp' = ReadUp
  BY <1>1 DEF ReadUp
<1>3. CASE WriteBrowser
  <2>1. /\ Unbroken' = Unbroken
        /\ pc' = pc \/ (pc' = AfterWrite /\ Writing)
    BY <1>3 DEF WriteBrowser, Unbroken
  <2>2. CASE pc' = pc
    BY <1>1, <1>2, <2>1, <2>2 DEF HangUp
  <2>3. CASE Writing /\ pc' = AfterWrite /\ pc \in {"upgrade", "refuse"}
    BY <1>1, <2>3 DEF HangUp, AfterWrite, RInv, Ends
  <2>4. CASE pc' = AfterWrite /\ pc \in {"pong", "relay", "bye"}
    BY <1>1, <1>2, <2>1, <2>4
       DEF HangUp, AfterWrite, AfterInput, AfterOutput, Unbroken
  <2>5. QED
    BY <2>1, <2>2, <2>3, <2>4 DEF Writing
<1>4. CASE WriteBrowserFails
  <2>1. /\ browser = "closed" /\ pc' \in {"end"} \cup Exits
        /\ pc' = "end" <=> pc \in {"pong", "relay"}
        /\ pc \notin Exits /\ pc # "gone"
    BY <1>4 DEF WriteBrowserFails, Writing, AfterFailure
  <2>2. QED
    BY <1>1, <2>1 DEF HangUp, Unbroken
<1>5. CASE WriteProtocol
  <2>1. \/ pc' = pc /\ pc \in {"select", "feed"}
        \/ pc = "select" /\ pc' = "poll"
        \/ pc = "feed" /\ pc' = AfterInput
    BY <1>5 DEF WriteProtocol, AfterWrite
  <2>2. QED
    BY <1>1, <2>1 DEF HangUp, AfterInput, AfterOutput, Unbroken
<1>6. CASE WriteProtocolFails
  <2>1. /\ pc \in {"select", "feed"} /\ pc' \in {"end", "unselected"} /\ UNCHANGED fed
        /\ Len(fed) <= Len(typed)
    BY <1>6, Nothing, Numbers
       DEF WriteProtocolFails, AfterFailure, Input, InOrder
  <2>2. ~Unbroken'
    BY <1>1, <2>1, Numbers DEF Unbroken
  <2>3. QED
    BY <1>1, <2>1, <2>2 DEF HangUp
<1>7. QED
  BY <1>3, <1>4, <1>5, <1>6

\* The relay: what it reads when the protocol client is gone is all there is.
LEMMA RelayHangUp ==
  ASSUME RInv, HangUp,
         Poll \/ ReadHead \/ ReadBody \/ ReadEnd \/ ReadOutput
  PROVE  HangUp'
<1> USE DEF Polled
<1>1. UNCHANGED <<pair, proto, made, left, browser, typed, fed>>
  BY DEF Poll, ReadHead, ReadBody, ReadEnd, ReadOutput
<1>2. CASE Poll
  <2>1. /\ pc = "poll" /\ pc' \in {"head", "output"} /\ got' = got
        /\ revents'.guac <=> got < made \/ pair[2] = "closed"
        /\ browser = "open" => (revents'.hup <=> pair[2] = "closed")
        /\ pc' = "output" => revents'.guac
    <3>1. PICK isReset \in {FALSE, browser = "closed"} :
             revents' = [ws   |-> up # <<>> \/ browser = "closed",
                         guac |-> got < made \/ pair[2] = "closed",
                         hup  |-> isReset \/ pair[2] = "closed"]
      BY <1>2 DEF Poll
    <3>2. /\ revents'.guac <=> got < made \/ pair[2] = "closed"
          /\ revents'.hup <=> isReset \/ pair[2] = "closed"
      BY <3>1
    <3>3. browser = "open" => ~isReset
      OBVIOUS
    <3>4. /\ pc = "poll" /\ got' = got
          /\ revents'.ws \/ revents'.guac
          /\ pc' = IF revents'.ws THEN "head" ELSE "output"
      BY <1>2 DEF Poll
    <3>5. QED
      BY <3>2, <3>3, <3>4
  <2>2. QED
    BY <1>1, <2>1 DEF HangUp
<1>3. CASE ReadHead \/ ReadBody \/ ReadEnd
  <2>1. /\ UNCHANGED <<revents, got>> /\ pc \in {"head", "body"}
        /\ \/ pc' \in {"body", "feed", "pong"}
           \/ pc' = AfterInput
           \/ pc' = "end" /\ (frame' \in {"close", "bad"} \/ browser = "closed")
    BY <1>3 DEF ReadHead, ReadBody, ReadEnd
  <2>2. QED
    BY <1>1, <2>1 DEF HangUp, AfterInput, AfterOutput, Unbroken
<1>4. CASE ReadOutput
  <2>1. PICK n : n = Lesser(made - got, BufCap)
    OBVIOUS
  <2>2. /\ pc = "output" /\ UNCHANGED <<revents, frame>>
        /\ \/ n = 0 /\ pc' = "end" /\ UNCHANGED got
           \/ n # 0 /\ pc' = "relay" /\ got' = got + n
    BY <1>4, <2>1 DEF ReadOutput
  <2>3. /\ n \in Nat /\ got + n <= made
        /\ n = 0 => got = made
        /\ made - got <= BufCap => got + n = made
    BY <2>1, Numbers DEF Lesser
  <2>4. revents.guac /\ (got < made \/ proto = "ended")
    BY <2>2 DEF HangUp
  <2>5. CASE n = 0
    BY <1>1, <2>2, <2>3, <2>4, <2>5, Numbers DEF HangUp, ReadUp
  <2>6. CASE n # 0
    <3>1. proto = "ended" => made - got <= left
      BY DEF HangUp
    <3>2. proto = "ended" => ReadUp'
      BY <1>1, <2>2, <2>3, <2>6, <3>1, Numbers DEF ReadUp
    <3>3. proto' = "ended" => made' - got' <= left'
      BY <1>1, <2>2, <2>3, <2>6, <3>1, Numbers
    <3>4. QED
      BY <1>1, <2>2, <2>6, <3>2, <3>3 DEF HangUp
  <2>7. QED
    BY <2>5, <2>6
<1>5. QED
  BY <1>2, <1>3, <1>4

\* Every step keeps what the relay knows of a hang-up.
LEMMA NextHangUp == RInv /\ Input /\ HangUp /\ [Next]_vars => HangUp'
<1>1. ASSUME HangUp, UNCHANGED vars PROVE HangUp'
  BY <1>1 DEF HangUp, ReadUp, Unbroken
<1>2. RInv /\ Input /\ HangUp /\ Thread => HangUp'
  BY OutsideHangUp, WriteHangUp, RelayHangUp, Zenon DEF Thread
<1>3. QED
  BY <1>1, <1>2, BrowserHangUp, ProtocolHangUp, Zenon DEF Next

-----------------------------------------------------------------------------
\* What the protocol client wrote before it hung up reaches a browser that is
\* still there, when what is left fits one buffer and no input of the browser
\* is pending or broke the tunnel off: for every capacity, and wherever the
\* last units, the hang-up and the frames fall between a poll and the read
\* that follows it.
THEOREM LastWordsAreSent == Spec => []LastWords
<1>1. Init => HangUp
  BY DEF Init, HangUp, Polled
<1>2. RInv /\ Framing /\ HangUp => LastWords
  <2>1. SUFFICES ASSUME RInv, Framing, HangUp,
                        pc = "gone" /\ proto = "ended" /\ browser = "open",
                        Unbroken, left <= BufCap
                 PROVE  Cardinality(Data) = made
    BY DEF LastWords, Unbroken
  <2>2. got = made
    BY <2>1 DEF HangUp, ReadUp
  <2>3. QED
    BY <2>1, <2>2 DEF Framing
<1>3. QED
  BY <1>1, <1>2, NextHangUp, RInvHolds, InputHolds, FramingHolds, PTL DEF Spec

=============================================================================
