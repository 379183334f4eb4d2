------------------------------- MODULE Relay --------------------------------
(***************************************************************************)
(* One browser tunnel of guacamole.service (tunnel.c): the thread          *)
(* tunnel_client answers the WebSocket request, spends its ticket, starts  *)
(* a protocol client on one end of a socket pair, and relays between the   *)
(* two until either goes away.  It reads a frame, or writes what it has    *)
(* read, to the end before it looks at anything else.                      *)
(*                                                                         *)
(* The browser and the protocol client are the environment.  The browser   *)
(* sends a frame in two pieces, so that a read can stop half-way.  The     *)
(* protocol client reads and writes on threads of its own; its output is   *)
(* counted in units, of which two make an instruction, the first being     *)
(* the "args" it answers "select" with.                                    *)
(***************************************************************************)
EXTENDS Integers, Sequences, FiniteSets, SequencesExt

CONSTANTS
    Instructions,  \* what the browser's client sends: "input", "connect"
    Odd,           \* the other frames it sends: "ping", "close", "bad", "other"
    BufCap,        \* units the 65536 bytes of `buf' hold
    PairCap,       \* units either direction of the socket pair holds
    DownCap,       \* units the way to the browser holds
    MaxFrames,     \* bound: frames the browser sends
    MaxOut,        \* bound: units the protocol client writes
    SetupFails     \* whether a step of the set-up may fail

ASSUME KindsAssumption ==
    /\ Instructions \subseteq {"input", "connect"}
    /\ Odd \subseteq {"ping", "close", "bad", "other"}
    /\ SetupFails \in BOOLEAN

ASSUME CapsAssumption ==
    /\ BufCap \in Nat \ {0} /\ PairCap \in Nat \ {0} /\ DownCap \in Nat \ {0}
    /\ MaxFrames \in Nat /\ MaxOut \in Nat

VARIABLES
    pc,       \* where tunnel_client is
    revents,  \* what its last poll returned
    frame,    \* the kind of the frame it reads
    feed,     \* units it has still to write to the protocol client
    out,      \* units it has still to write to the browser
    ws, pair, \* its descriptors: the WebSocket, and both ends of the pair
    ticket,   \* whether the ticket of the request is used up
    browser,  \* "open" or "closed"
    up,       \* pieces the browser sent and the tunnel has not read
    half,     \* the kind of the frame the browser is in the middle of
    sent,     \* frames it has sent
    typed,    \* history: the instructions it has sent
    wrote,    \* history: everything written to the browser
    seen,     \* how much of that the browser has read
    reset,    \* the WebSocket was closed on unread input: the rest is lost
    proto,    \* the protocol client
    fed,      \* history: everything written to the protocol client
    taken,    \* how much of that it has read
    made,     \* the units it has written
    got,      \* how many of them the tunnel has read
    left,     \* history: units it left unread when it closed
    timedOut  \* history: it closed because nothing answered its "args"

thread == <<pc, revents, frame, feed, out, ws, pair, ticket>>
client == <<browser, up, half, sent, typed, seen>>
server == <<proto, taken, made, left, timedOut>>
vars   == <<thread, client, server, wrote, reset, fed, got>>

Kinds  == Instructions \cup Odd

\* A request that fails at its target, its headers or its ticket, or not.
Requests == {"target", "headers", "ticket", "good"}

Piece(part, kind) == [part |-> part, kind |-> kind]
Unit(t, n)        == [t |-> t, n |-> n]
Quiet             == [ws |-> FALSE, guac |-> FALSE, hup |-> FALSE]

\* A frame with no payload but one echoed unit, and the closing frame.
Pong  == <<Unit("pong", 1), Unit("echo", 0)>>
Close == <<Unit("close", 0)>>

\* ws_send(ws, 1, ...): a header that names the length, and the payload.
TextFrame(first, n) == <<Unit("text", n)>> \o [i \in 1..n |-> Unit("data", first + i)]

Running == proto \in {"greet", "args", "live"}

\* The exits of tunnel_client: the request never came, was refused, could not
\* be answered; no pair, no protocol client, no "select"; the end of the loop.
Exits == {"noRequest", "refused", "unanswered", "unpaired", "unstarted",
          "unselected", "done"}

\* Mutant: one end of the pair is forgotten when the client does not start.
ClosesForgetsFar ==
    [noRequest |-> {"ws"}, refused |-> {"ws"}, unanswered |-> {"ws"},
     unpaired |-> {"ws"}, unstarted |-> {"near", "ws"},
     unselected |-> {"near", "ws"}, done |-> {"near", "ws"}]

\* Mutant: the end of the loop closes the WebSocket only.
ClosesForgetsNear ==
    [noRequest |-> {"ws"}, refused |-> {"ws"}, unanswered |-> {"ws"},
     unpaired |-> {"ws"}, unstarted |-> {"near", "far", "ws"},
     unselected |-> {"near", "ws"}, done |-> {"ws"}]

\* What each of them closes, near and far being the ends of the pair.
Closes ==
    [noRequest |-> {"ws"}, refused |-> {"ws"}, unanswered |-> {"ws"},
     unpaired |-> {"ws"}, unstarted |-> {"near", "far", "ws"},
     unselected |-> {"near", "ws"}, done |-> {"near", "ws"}]

\* close(fd) if this exit closes it: one that is not open is someone else's.
AtExit(fd, name) ==
    IF name \notin Closes[pc] THEN fd
    ELSE IF fd = "open" THEN "closed" ELSE "stray"

Lesser(a, b) == IF a < b THEN a ELSE b

-----------------------------------------------------------------------------
(* The browser.                                                            *)

\* The HTTP request, all of it; frames follow once the answer 101 is read.
BrowserAsks(kind) ==
    /\ browser = "open"
    /\ sent = 0 /\ seen = 0 /\ up = <<>> /\ pc = "request"
    /\ up' = <<Piece("http", kind)>>
    /\ UNCHANGED <<thread, browser, half, sent, typed, seen, server,
                   wrote, reset, fed, got>>

BrowserStarts(kind) ==
    /\ browser = "open" /\ half = "none"
    /\ seen > 0 /\ wrote[1] = Unit("http", 101)
    /\ sent < MaxFrames
    /\ up' = Append(up, Piece("head", kind))
    /\ half' = kind
    /\ UNCHANGED <<thread, browser, sent, typed, seen, server,
                   wrote, reset, fed, got>>

BrowserFinishes ==
    /\ browser = "open" /\ half # "none"
    /\ up' = Append(up, Piece("body", half))
    /\ half' = "none"
    /\ sent' = sent + 1
    /\ typed' = IF half \in Instructions THEN Append(typed, half) ELSE typed
    /\ UNCHANGED <<thread, browser, seen, server, wrote, reset, fed, got>>

BrowserReads ==
    /\ browser = "open" /\ ~reset
    /\ seen < Len(wrote)
    /\ seen' = seen + 1
    /\ UNCHANGED <<thread, browser, up, half, sent, typed, server,
                   wrote, reset, fed, got>>

BrowserCloses ==
    /\ browser = "open"
    /\ browser' = "closed"
    /\ UNCHANGED <<thread, up, half, sent, typed, seen, server,
                   wrote, reset, fed, got>>

-----------------------------------------------------------------------------
(* The protocol client: connection_thread and the plugin.                  *)

\* What it reads moves its handshake: "select", then "connect".
ProtocolReads ==
    /\ Running
    /\ taken < Len(fed)
    /\ taken' = taken + 1
    /\ proto' = IF proto = "greet" /\ fed[taken'] = "select" THEN "args"
                ELSE IF proto = "args" /\ fed[taken'] = "connect" THEN "live"
                ELSE proto
    /\ UNCHANGED <<thread, client, made, left, timedOut, wrote, reset, fed, got>>

\* It writes "args" when it has been selected, and the display once it is
\* connected, as far as the pair takes it.
ProtocolWrites ==
    /\ pair[1] = "open"
    /\ made - got < PairCap
    /\ \/ proto = "args" /\ made < Lesser(2, MaxOut)
       \/ proto = "live" /\ made < MaxOut
    /\ made' = made + 1
    /\ UNCHANGED <<thread, client, proto, taken, left, timedOut,
                   wrote, reset, fed, got>>

EndProtocol ==
    /\ proto' = "ended"
    /\ pair' = [pair EXCEPT ![2] = "closed"]
    /\ left' = made - got
    /\ UNCHANGED <<pc, revents, frame, feed, out, ws, ticket, client,
                   taken, made, wrote, reset, fed, got>>

\* It hangs up on its own: the desktop is gone, it was refused, or its wait
\* for an instruction that is still on its way was over.
ProtocolEnds == Running /\ EndProtocol /\ UNCHANGED timedOut

\* guac_user_handle_connection gives up: for 30 seconds no instruction came
\* that answers its "args", and none is on its way.
HandshakeTimeout ==
    /\ proto = "args" /\ made = Lesser(2, MaxOut)
    /\ taken = Len(fed)
    /\ pc = "poll" /\ got = made /\ up = <<>>
    /\ timedOut' = TRUE
    /\ EndProtocol

\* It has read to the end of what the tunnel sent before closing.
ProtocolReadsEnd ==
    /\ Running
    /\ pair[1] = "closed" /\ taken = Len(fed)
    /\ EndProtocol /\ UNCHANGED timedOut

-----------------------------------------------------------------------------
(* tunnel_client: the request.                                             *)

Environment == <<client, server, fed>>

Refusal == [target |-> 404, headers |-> 400, ticket |-> 403]

\* Mutant: the ticket is spent before the headers are looked at.
RejectSpends ==
    /\ pc = "request"
    /\ up # <<>> /\ Head(up).kind # "good"
    /\ up' = Tail(up)
    /\ out' = <<Unit("http", Refusal[Head(up).kind])>>
    /\ ticket' = IF Head(up).kind = "headers" THEN "used" ELSE ticket
    /\ pc' = "refuse"
    /\ UNCHANGED <<revents, frame, feed, ws, pair, browser, half, sent, typed,
                   seen, server, wrote, reset, fed, got>>

\* The request is answered 404, 400 or 403.
Reject ==
    /\ pc = "request"
    /\ up # <<>> /\ Head(up).kind # "good"
    /\ up' = Tail(up)
    /\ out' = <<Unit("http", Refusal[Head(up).kind])>>
    /\ pc' = "refuse"
    /\ UNCHANGED <<revents, frame, feed, ws, pair, ticket, browser, half, sent,
                   typed, seen, server, wrote, reset, fed, got>>

\* The ticket is consumed and the upgrade answered.
Upgrade ==
    /\ pc = "request"
    /\ up # <<>> /\ Head(up).kind = "good"
    /\ up' = Tail(up)
    /\ ticket' = "used"
    /\ out' = <<Unit("http", 101)>>
    /\ pc' = "upgrade"
    /\ UNCHANGED <<revents, frame, feed, ws, pair, browser, half, sent, typed,
                   seen, server, wrote, reset, fed, got>>

NoRequest ==
    /\ pc = "request"
    /\ up = <<>> /\ browser = "closed"
    /\ pc' = "noRequest"
    /\ UNCHANGED <<revents, frame, feed, out, ws, pair, ticket,
                   Environment, wrote, reset, got>>

\* socketpair.
OpenPair ==
    /\ pc = "pair"
    /\ \/ pair' = <<"open", "open">> /\ pc' = "start"
       \/ SetupFails /\ pc' = "unpaired" /\ UNCHANGED pair
    /\ UNCHANGED <<revents, frame, feed, out, ws, ticket,
                   Environment, wrote, reset, got>>

\* start_protocol_client hands one end to a new thread; "select" is next.
StartProtocol ==
    /\ pc = "start"
    /\ \/ /\ proto' = "greet"
          /\ feed' = <<"select">>
          /\ pc' = "select"
       \/ SetupFails /\ pc' = "unstarted" /\ UNCHANGED <<proto, feed>>
    /\ UNCHANGED <<revents, frame, out, ws, pair, ticket, client, taken, made,
                   left, timedOut, wrote, reset, fed, got>>

-----------------------------------------------------------------------------
(* tunnel_client: writing, to either side, unit by unit.                   *)

\* Where the loop goes on after the browser's side, and after the other.
AfterOutput == IF revents.hup THEN "end" ELSE "poll"
AfterInput  == IF revents.guac THEN "output" ELSE AfterOutput

\* What write_all returns to once it has written everything.
AfterWrite ==
    [upgrade |-> "pair", refuse |-> "refused", select |-> "poll",
     feed |-> AfterInput, pong |-> AfterInput, relay |-> AfterOutput,
     bye |-> "done"][pc]

\* And when it fails.
AfterFailure ==
    [upgrade |-> "unanswered", refuse |-> "refused", select |-> "unselected",
     feed |-> "end", pong |-> "end", relay |-> "end", bye |-> "done"][pc]

Writing == pc \in {"refuse", "upgrade", "pong", "relay", "bye"}

\* write_all(ws, ...): it waits while the way to the browser is full.  A
\* browser that has closed swallows what is sent, or the write fails.
WriteBrowser ==
    /\ Writing /\ out # <<>>
    /\ \/ /\ browser = "open" /\ Len(wrote) - seen < DownCap
          /\ wrote' = Append(wrote, Head(out))
       \/ browser = "closed" /\ UNCHANGED wrote
    /\ out' = Tail(out)
    /\ pc' = IF Len(out) = 1 THEN AfterWrite ELSE pc
    /\ UNCHANGED <<revents, frame, feed, ws, pair, ticket,
                   Environment, reset, got>>

WriteBrowserFails ==
    /\ Writing /\ out # <<>>
    /\ browser = "closed"
    /\ out' = <<>>
    /\ pc' = AfterFailure
    /\ UNCHANGED <<revents, frame, feed, ws, pair, ticket,
                   Environment, wrote, reset, got>>

\* write_all(guac, ...).
WriteProtocol ==
    /\ pc \in {"select", "feed"}
    /\ pair[2] = "open" /\ Len(fed) - taken < PairCap
    /\ fed' = Append(fed, Head(feed))
    /\ feed' = Tail(feed)
    /\ pc' = IF Len(feed) = 1 THEN AfterWrite ELSE pc
    /\ UNCHANGED <<revents, frame, out, ws, pair, ticket, client, server,
                   wrote, reset, got>>

WriteProtocolFails ==
    /\ pc \in {"select", "feed"}
    /\ pair[2] = "closed"
    /\ feed' = <<>>
    /\ pc' = AfterFailure
    /\ UNCHANGED <<revents, frame, out, ws, pair, ticket,
                   Environment, wrote, reset, got>>

-----------------------------------------------------------------------------
(* tunnel_client: the loop.                                                *)

\* Mutant: only the protocol client is polled.
PollOneSide ==
    /\ pc = "poll"
    /\ revents' = [ws |-> FALSE,
                   guac |-> got < made \/ pair[2] = "closed",
                   hup  |-> pair[2] = "closed"]
    /\ revents'.guac
    /\ pc' = "output"
    /\ UNCHANGED <<frame, feed, out, ws, pair, ticket,
                   Environment, wrote, reset, got>>

\* poll: what can be read now, and what has hung up; a browser that has
\* closed may show as a hang-up or only as the end of its input.
Poll ==
    /\ pc = "poll"
    /\ \E isReset \in {FALSE, browser = "closed"} :
          revents' = [ws   |-> up # <<>> \/ browser = "closed",
                      guac |-> got < made \/ pair[2] = "closed",
                      hup  |-> isReset \/ pair[2] = "closed"]
    /\ revents'.ws \/ revents'.guac
    /\ pc' = IF revents'.ws THEN "head" ELSE "output"
    /\ UNCHANGED <<frame, feed, out, ws, pair, ticket,
                   Environment, wrote, reset, got>>

\* ws_receive_to_guac, up to the length: an unmasked frame, an unfinished one
\* or one that is too long ends the tunnel.
ReadHead ==
    /\ pc = "head"
    /\ up # <<>>
    /\ up' = Tail(up)
    /\ frame' = Head(up).kind
    /\ pc' = IF Head(up).kind = "bad" THEN "end" ELSE "body"
    /\ UNCHANGED <<revents, feed, out, ws, pair, ticket, browser, half, sent,
                   typed, seen, server, wrote, reset, fed, got>>

\* Mutant: a pong goes on to the protocol client as well.
ReadBodyPingFed ==
    /\ pc = "body"
    /\ up # <<>>
    /\ up' = Tail(up)
    /\ \/ /\ frame \in Instructions \cup {"ping"}
          /\ feed' = <<frame>> /\ pc' = "feed" /\ UNCHANGED out
       \/ frame = "close" /\ pc' = "end" /\ UNCHANGED <<out, feed>>
       \/ frame = "other" /\ pc' = AfterInput /\ UNCHANGED <<out, feed>>
    /\ UNCHANGED <<revents, frame, ws, pair, ticket, browser, half, sent,
                   typed, seen, server, wrote, reset, fed, got>>

\* The payload, then what the opcode asks for.
ReadBody ==
    /\ pc = "body"
    /\ up # <<>>
    /\ up' = Tail(up)
    /\ \/ /\ frame \in Instructions
          /\ feed' = <<frame>> /\ pc' = "feed" /\ UNCHANGED out
       \/ frame = "ping" /\ out' = Pong /\ pc' = "pong" /\ UNCHANGED feed
       \/ frame = "close" /\ pc' = "end" /\ UNCHANGED <<out, feed>>
       \/ frame = "other" /\ pc' = AfterInput /\ UNCHANGED <<out, feed>>
    /\ UNCHANGED <<revents, frame, ws, pair, ticket, browser, half, sent,
                   typed, seen, server, wrote, reset, fed, got>>

\* Mutant: the end of the input is taken for a read to try again.
ReadEndRetries ==
    /\ pc \in {"head", "body"}
    /\ up = <<>> /\ browser = "closed"
    /\ UNCHANGED vars

\* recv_exact meets the end of the browser's input.
ReadEnd ==
    /\ pc \in {"head", "body"}
    /\ up = <<>> /\ browser = "closed"
    /\ pc' = "end"
    /\ UNCHANGED <<revents, frame, feed, out, ws, pair, ticket,
                   Environment, wrote, reset, got>>

\* Mutant: the frame's header names the size of the buffer.
ReadOutputSizeOfBuf ==
    /\ pc = "output"
    /\ LET n == Lesser(made - got, BufCap) IN
          IF n = 0 THEN pc' = "end" /\ UNCHANGED <<out, got>>
          ELSE /\ out' = <<Unit("text", BufCap)>> \o Tail(TextFrame(got, n))
               /\ got' = got + n
               /\ pc' = "relay"
    /\ UNCHANGED <<revents, frame, feed, ws, pair, ticket,
                   Environment, wrote, reset>>

\* Mutant: a hang-up is looked at before the output that is left.
ReadOutputHupFirst ==
    /\ pc = "output"
    /\ LET n == Lesser(made - got, BufCap) IN
          IF n = 0 \/ revents.hup THEN pc' = "end" /\ UNCHANGED <<out, got>>
          ELSE /\ out' = TextFrame(got, n)
               /\ got' = got + n
               /\ pc' = "relay"
    /\ UNCHANGED <<revents, frame, feed, ws, pair, ticket,
                   Environment, wrote, reset>>

\* recv of what the protocol client has written, as much as buf takes: it
\* becomes one text frame.
ReadOutput ==
    /\ pc = "output"
    /\ LET n == Lesser(made - got, BufCap) IN
          IF n = 0 THEN pc' = "end" /\ UNCHANGED <<out, got>>
          ELSE /\ out' = TextFrame(got, n)
               /\ got' = got + n
               /\ pc' = "relay"
    /\ UNCHANGED <<revents, frame, feed, ws, pair, ticket,
                   Environment, wrote, reset>>

\* The loop has ended: the closing frame.
SayGoodbye ==
    /\ pc = "end"
    /\ out' = Close
    /\ pc' = "bye"
    /\ UNCHANGED <<revents, frame, feed, ws, pair, ticket,
                   Environment, wrote, reset, got>>

\* The exit it has come to closes its list of descriptors.  Closing a socket
\* on unread input resets the connection.
Shut ==
    /\ pc \in Exits
    /\ ws' = AtExit(ws, "ws")
    /\ pair' = <<AtExit(pair[1], "near"), AtExit(pair[2], "far")>>
    /\ pc' = "gone"
    /\ reset' \in {FALSE, up # <<>>}
    /\ UNCHANGED <<revents, frame, feed, out, ticket,
                   Environment, wrote, got>>

-----------------------------------------------------------------------------

Init ==
    /\ pc = "request" /\ revents = Quiet /\ frame = "none"
    /\ feed = <<>> /\ out = <<>>
    /\ ws = "open" /\ pair = <<"none", "none">> /\ ticket = "held"
    /\ browser = "open" /\ up = <<>> /\ half = "none" /\ sent = 0 /\ typed = <<>>
    /\ wrote = <<>> /\ seen = 0 /\ reset = FALSE
    /\ proto = "none" /\ fed = <<>> /\ taken = 0
    /\ made = 0 /\ got = 0 /\ left = 0 /\ timedOut = FALSE

\* Every step of the tunnel's thread.
Thread ==
    \/ Reject \/ Upgrade \/ NoRequest \/ OpenPair \/ StartProtocol
    \/ WriteBrowser \/ WriteBrowserFails \/ WriteProtocol \/ WriteProtocolFails
    \/ Poll \/ ReadHead \/ ReadBody \/ ReadEnd \/ ReadOutput \/ SayGoodbye
    \/ Shut

Browser ==
    \/ \E kind \in Requests : BrowserAsks(kind)
    \/ \E kind \in Kinds : BrowserStarts(kind)
    \/ BrowserFinishes \/ BrowserReads \/ BrowserCloses

Protocol ==
    \/ ProtocolReads \/ ProtocolWrites \/ ProtocolEnds
    \/ HandshakeTimeout \/ ProtocolReadsEnd

Next == Thread \/ Browser \/ Protocol

\* The scheduler runs the thread.  The browser finishes a frame it has begun
\* and reads what it is sent, and the protocol client reads its input: without
\* that the thread waits for ever, and the code has no timeout for it.  The
\* one it has is the protocol client's, for its handshake.
Fairness ==
    /\ WF_vars(Thread)
    /\ WF_vars(BrowserFinishes) /\ WF_vars(BrowserReads)
    /\ WF_vars(ProtocolReads) /\ WF_vars(ProtocolReadsEnd)
    /\ WF_vars(ProtocolWrites) /\ WF_vars(HandshakeTimeout)

Spec == Init /\ [][Next]_vars /\ Fairness

-----------------------------------------------------------------------------
(* Properties.                                                             *)

Units ==
    [t : {"http"}, n : {101, 400, 403, 404}]
        \cup [t : {"text", "data"}, n : 1..MaxOut]
        \cup {Pong[1], Pong[2], Close[1]}

TypeOK ==
    /\ pc \in {"request", "refuse", "upgrade", "pair", "start", "select",
               "poll", "head", "body", "feed", "pong", "output", "relay",
               "end", "bye", "gone"} \cup Exits
    /\ revents \in [ws : BOOLEAN, guac : BOOLEAN, hup : BOOLEAN]
    /\ frame \in Kinds \cup {"none"} /\ half \in Kinds \cup {"none"}
    /\ feed \in Seq(Instructions \cup {"select"})
    /\ fed \in Seq(Instructions \cup {"select"})
    /\ typed \in Seq(Instructions)
    /\ out \in Seq(Units) /\ wrote \in Seq(Units)
    /\ ws \in {"open", "closed", "stray"}
    /\ pair \in [1..2 -> {"none", "open", "closed", "stray"}]
    /\ ticket \in {"held", "used"} /\ browser \in {"open", "closed"}
    /\ up \in Seq([part : {"http"}, kind : Requests]
                     \cup [part : {"head", "body"}, kind : Kinds])
    /\ sent \in 0..MaxFrames /\ seen \in 0..Len(wrote)
    /\ reset \in BOOLEAN
    /\ proto \in {"none", "greet", "args", "live", "ended"}
    /\ taken \in 0..Len(fed)
    /\ made \in 0..MaxOut /\ got \in 0..made /\ left \in 0..MaxOut
    /\ timedOut \in BOOLEAN

\* The protocol client is sent the tunnel's "select" and after it, each once
\* and in order, the payloads of the browser's text frames, whatever pings,
\* unknown and half-read frames come between them.
InputInOrder == IsPrefix(fed, <<"select">> \o typed)

\* Where the units of the protocol client are in what the browser is sent.
Data == {d \in DOMAIN wrote : wrote[d].t = "data"}

\* What the browser is sent after the answer to its request are whole frames:
\* a header names the length of what follows it, nothing comes between, and
\* the payloads are the protocol client's output, in order, with no gap.
OutputIntact ==
    /\ \A d \in Data : wrote[d].n = Cardinality({e \in Data : e <= d})
    /\ \A h \in DOMAIN wrote : wrote[h].t = "text" =>
          \A j \in 1..wrote[h].n : h + j <= Len(wrote) => wrote[h + j].t = "data"
    /\ \A d \in Data :
          \E h \in 1..(d - 1) : wrote[h].t = "text" /\ d <= h + wrote[h].n

\* What the protocol client wrote before it hung up, an error perhaps, is sent
\* to the browser when it fits the buffer, unless the browser left or broke off
\* first, or the last input could no longer be written to the client.
LastWords ==
    /\ pc = "gone" /\ proto = "ended" /\ pair[1] = "closed"
    /\ browser = "open"
    /\ Len(fed) = Len(typed) + 1
    /\ frame \notin {"close", "bad"}
    /\ left <= BufCap
    => Cardinality(Data) = made

\* A request that is refused for its target or its headers can be repeated:
\* its ticket is not used up.
RefusedKeepsTicket ==
    wrote # <<>> /\ wrote[1] # Unit("http", 101) => ticket = "held"

\* However a tunnel ends, each of its exits closes what is open by then: the
\* thread leaves no descriptor behind, closes none that is not open, and the
\* end it has handed to the protocol client is open as long as the client runs.
NothingLeaks ==
    /\ "stray" \notin {ws, pair[1], pair[2]}
    /\ Running => pair[2] = "open"
    /\ pc = "gone" =>
          /\ ws = "closed" /\ pair[1] # "open"
          /\ pair[2] = "open" => Running

\* When either side goes away, before or during the relay, the tunnel ends:
\* no read, no write and no poll of its thread waits for a side that is gone.
TunnelEnds == (browser = "closed" \/ proto = "ended") ~> pc = "gone"

\* And when it has ended, both sides learn of it: the protocol client ends,
\* and a browser that is still there reads to the end of what it was sent.
BothSidesEnd ==
    pc = "gone" ~> /\ ~Running
                   /\ browser = "closed" \/ reset \/ seen = Len(wrote)

\* What the browser's user types reaches the protocol client, however much the
\* client writes and with both ways full at times, unless the tunnel ends.
InputDelivered ==
    \A n \in 1..MaxFrames :
        (Len(typed) >= n) ~> (Len(fed) > n \/ pc = "gone")

\* The tunnel does the protocol's handshake for the browser: TESTING.md, "no
\* client handshake - the tunnel does the guacd handshake server-side".  The
\* client's "args" are answered, and its 30 seconds do not run out on them.
HandshakeServed ==
    (proto = "args" /\ made = 2)
        ~> \/ proto = "live" \/ browser = "closed"
           \/ proto = "ended" /\ ~timedOut
=============================================================================
