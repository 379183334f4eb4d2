------------------------------ MODULE AdminApp ------------------------------
(* The admin app in a browser: app.js and guac-viewer.js.  JavaScript runs   *)
(* one task at a time, so a function runs to its next await without a break; *)
(* between the request and the code after the await anything can happen: the *)
(* user goes on, answers to other requests arrive, and in any order, and     *)
(* other clients change what the service keeps.                              *)
(*                                                                           *)
(* A call is a request under way and what its answer is for.  The list and   *)
(* the rows on the screen always change together, so a row is an index.      *)
EXTENDS Integers, Sequences, SequencesExt

CONSTANTS
    Conns,        \* identifiers of connections
    MaxSessions,  \* bound on the sessions ever started
    MaxCalls,     \* bound on the requests under way
    MaxMoves,     \* bound on what the users do
    Nil

VARIABLES
    stored,      \* the service's connections
    active,      \* the service's sessions
    started,     \* how many sessions there have been
    calls,       \* the requests under way
    connections, \* the app's copy of the connections
    sessions,    \* the app's copy of the sessions
    form,        \* the edit frame: "closed", "add" or the connection it shows
    editIndex,   \* the row the form is for, 0 for none
    selected,    \* the row of the selected session, 0 for none
    moves,       \* how much the users have done
    viewer,      \* the connection the viewer has a client for
    wanted       \* the connection selected last and not closed (history)

service == <<stored, active, started>>
screen == <<connections, sessions, form, editIndex, selected, viewer, wanted>>
app == <<screen, moves>>
vars == <<stored, active, started, calls, connections, sessions, form,
          editIndex, selected, moves, viewer, wanted>>

\* The service keeps at most MAX_CONNECTIONS connections.
AdminAssumption ==
    MaxSessions \in Nat \ {0} /\ MaxCalls \in Nat /\ MaxMoves \in Nat
    /\ Conns # {} /\ IsFiniteSet(Conns) /\ Nil \notin Conns
    /\ Conns \cap {"closed", "add"} = {}

ASSUME AdminAssumption

Slot    == 1 .. MaxCalls
Session == [id : 1 .. MaxSessions, conn : Conns]
Ops     == {"list", "active", "add", "update", "delete", "connect",
            "disconnect", "ticket"}
Failed  == [ok |-> FALSE]

\* op and arg are the request; `for' is the function that awaits the answer,
\* `about' the connection it is for, `was' the wasSelected of a disconnect and
\* `current' whether a ticket's generation is still the viewer's.
Request(op, arg, for, about) ==
    [op |-> op, arg |-> arg, for |-> for, about |-> about,
     was |-> FALSE, current |-> TRUE, answer |-> Nil]

Free == {n \in Slot : calls[n] = Nil}

\* Calls are numbered from the first free number.
IsNext(n) == n \in Free /\ \A m \in Free : n <= m

Send(n, request) == calls' = [calls EXCEPT ![n] = request]

Done(n) == Send(n, Nil)

Has(seq, x) == x \in ToSet(seq)

\* How the service removes an entry: the last one takes its place.
SwapRemove(seq, i) == Front([seq EXCEPT ![i] = Last(seq)])

-----------------------------------------------------------------------------
(* The service, one request at a time, and other clients of it.              *)

Answer(n, reply) == calls' = [calls EXCEPT ![n].answer = reply]

Pending(n, op) == calls[n] # Nil /\ calls[n].answer = Nil /\ calls[n].op = op

AnswerList(n) ==
    /\ Pending(n, "list")
    /\ Answer(n, [ok |-> TRUE, items |-> stored])
    /\ UNCHANGED service

AnswerActive(n) ==
    /\ Pending(n, "active")
    /\ Answer(n, [ok |-> TRUE, items |-> active])
    /\ UNCHANGED service

AnswerAdd(n) ==
    /\ Pending(n, "add")
    /\ \E c \in Conns \ ToSet(stored) : stored' = Append(stored, c)
    /\ Answer(n, [ok |-> TRUE])
    /\ UNCHANGED <<active, started>>

\* An update changes no identifier; a ticket changes nothing the app sees.
AnswerKnown(n) ==
    /\ Pending(n, "update") \/ Pending(n, "ticket")
    /\ Answer(n, [ok |-> Has(stored, calls[n].arg)])
    /\ UNCHANGED service

Removed(c) ==
    \E i \in DOMAIN stored : stored[i] = c /\ stored' = SwapRemove(stored, i)

AnswerDelete(n) ==
    /\ Pending(n, "delete")
    /\ Removed(calls[n].arg)
    /\ Answer(n, [ok |-> TRUE])
    /\ UNCHANGED <<active, started>>

AnswerConnect(n) ==
    /\ Pending(n, "connect")
    /\ Has(stored, calls[n].arg) /\ started < MaxSessions
    /\ started' = started + 1
    /\ active' = Append(active, [id |-> started', conn |-> calls[n].arg])
    /\ Answer(n, [ok |-> TRUE, session |-> started'])
    /\ UNCHANGED stored

Ended(id) ==
    \E i \in DOMAIN active : active[i].id = id /\ active' = SwapRemove(active, i)

AnswerDisconnect(n) ==
    /\ Pending(n, "disconnect")
    /\ Ended(calls[n].arg)
    /\ Answer(n, [ok |-> TRUE])
    /\ UNCHANGED <<stored, started>>

\* The service has no such thing, the host answers with no JSON, or the route
\* could not hand the request on.
Refuse(n) ==
    /\ calls[n] # Nil /\ calls[n].answer = Nil
    /\ Answer(n, Failed)
    /\ UNCHANGED service

\* A connection is deleted, or a session ended, by another client.
Other ==
    /\ \/ \E c \in Conns : Removed(c) /\ UNCHANGED active
       \/ \E s \in ToSet(active) : Ended(s.id) /\ UNCHANGED stored
    /\ UNCHANGED <<started, calls>>

Handle(n) ==
    \/ AnswerList(n) \/ AnswerActive(n) \/ AnswerAdd(n) \/ AnswerKnown(n)
    \/ AnswerDelete(n) \/ AnswerConnect(n) \/ AnswerDisconnect(n)
    \/ Refuse(n)

Service == (\E n \in Slot : Handle(n)) /\ UNCHANGED app

\* Another window or the command, which counts as the user does.
Elsewhere ==
    /\ moves < MaxMoves /\ moves' = moves + 1
    /\ Other
    /\ UNCHANGED screen

-----------------------------------------------------------------------------
(* The viewer.  A disconnect advances the generation, so no ticket that is   *)
(* under way is of the current one any more.                                 *)

Outdated(cs) ==
    [n \in Slot |-> IF cs[n] # Nil /\ cs[n].op = "ticket"
                    THEN [cs[n] EXCEPT !.current = FALSE] ELSE cs[n]]

CloseViewer == viewer' = Nil /\ wanted' = Nil

\* selectSession, in the call numbered n.
SelectSession(n, list, i) ==
    /\ selected' = i
    /\ viewer' = Nil
    /\ wanted' = list[i].conn
    /\ calls' = [Outdated(calls) EXCEPT
                    ![n] = Request("ticket", list[i].conn, "viewer", list[i].conn)]

\* A plausible bug: the generation is not looked at.
TicketAnyGeneration(n) ==
    /\ calls[n].op = "ticket"
    /\ viewer' = IF calls[n].answer.ok THEN calls[n].arg ELSE viewer
    /\ Done(n)
    /\ UNCHANGED <<connections, sessions, form, editIndex, selected, wanted>>

Ticket(n) ==
    /\ calls[n].op = "ticket"
    /\ viewer' = IF calls[n].current /\ calls[n].answer.ok THEN calls[n].arg
                 ELSE viewer
    /\ Done(n)
    /\ UNCHANGED <<connections, sessions, form, editIndex, selected, wanted>>

\* The tunnel fails: client.onerror.
ViewerFails ==
    /\ viewer # Nil
    /\ CloseViewer
    /\ calls' = Outdated(calls)
    /\ UNCHANGED <<connections, sessions, form, editIndex, selected>>

-----------------------------------------------------------------------------
(* What the user does.                                                       *)

Reload(n) ==
    /\ \/ Send(n, Request("list", Nil, "load", Nil))
       \/ Send(n, Request("active", Nil, "load", Nil))
    /\ UNCHANGED screen

OpenAdd ==
    /\ form' = "add" /\ editIndex' = 0
    /\ UNCHANGED <<calls, connections, sessions, selected, viewer, wanted>>

OpenEdit(i) ==
    /\ form' = connections[i] /\ editIndex' = i
    /\ UNCHANGED <<calls, connections, sessions, selected, viewer, wanted>>

CloseEditor == form' = "closed" /\ editIndex' = 0

Cancel ==
    /\ form # "closed"
    /\ CloseEditor
    /\ UNCHANGED <<calls, connections, sessions, selected, viewer, wanted>>

\* The connection is the one the row holds when Save is pressed; without such
\* a row the function throws and nothing is sent.
Save(n) ==
    /\ form # "closed"
    /\ \/ editIndex = 0 /\ Send(n, Request("add", Nil, "save", Nil))
       \/ /\ editIndex \in DOMAIN connections
          /\ Send(n, Request("update", connections[editIndex], "save",
                             connections[editIndex]))
    /\ UNCHANGED screen

RemoveRow(n, i) ==
    /\ connections' = RemoveAt(connections, i)
    /\ Send(n, Request("delete", connections[i], "remove", connections[i]))
    /\ UNCHANGED <<sessions, form, editIndex, selected, viewer, wanted>>

Connect(n, i) ==
    /\ Send(n, Request("connect", connections[i], "connect", connections[i]))
    /\ UNCHANGED screen

Disconnect(n, i) ==
    /\ Send(n, [Request("disconnect", sessions[i].id, "disconnect",
                        sessions[i].conn) EXCEPT !.was = (i = selected)])
    /\ UNCHANGED screen

Select(n, i) ==
    /\ SelectSession(n, sessions, i)
    /\ UNCHANGED <<connections, sessions, form, editIndex>>

\* The Disconnect button under the viewer.
ToolbarDisconnect ==
    /\ wanted # Nil \/ selected # 0
    /\ CloseViewer
    /\ selected' = 0
    /\ calls' = Outdated(calls)
    /\ UNCHANGED <<connections, sessions, form, editIndex>>

User ==
    /\ moves < MaxMoves /\ moves' = moves + 1
    /\ \/ OpenAdd \/ Cancel \/ ToolbarDisconnect
       \/ \E i \in DOMAIN connections : OpenEdit(i)
       \/ \E n \in Slot :
            /\ IsNext(n)
            /\ \/ Reload(n) \/ Save(n)
               \/ \E i \in DOMAIN connections : RemoveRow(n, i) \/ Connect(n, i)
               \/ \E i \in DOMAIN sessions : Disconnect(n, i) \/ Select(n, i)
    /\ UNCHANGED service

-----------------------------------------------------------------------------
(* What the app does with an answer.                                         *)

\* A plausible bug: a list that cannot be read is asked for again.
ListRetries(n) ==
    /\ calls[n].op = "list"
    /\ IF calls[n].answer.ok THEN connections' = calls[n].answer.items
       ELSE UNCHANGED connections
    /\ Send(n, IF ~calls[n].answer.ok
               THEN Request("list", calls[n].arg, calls[n].for, calls[n].about)
               ELSE IF calls[n].for = "connect"
               THEN Request("active", calls[n].arg, "connect", calls[n].about)
               ELSE Nil)
    /\ UNCHANGED <<sessions, form, editIndex, selected, viewer, wanted>>

\* loadConnections, and the next step of a connect.
List(n) ==
    /\ calls[n].op = "list"
    /\ IF calls[n].answer.ok THEN connections' = calls[n].answer.items
       ELSE UNCHANGED connections
    /\ Send(n, IF calls[n].for = "connect"
               THEN Request("active", calls[n].arg, "connect", calls[n].about)
               ELSE Nil)
    /\ UNCHANGED <<sessions, form, editIndex, selected, viewer, wanted>>

\* A plausible bug: the newest session is taken for the one just started.
NewIndexLast(list, id) ==
    IF list = <<>> THEN 0 ELSE Len(list)

\* Where the session just started is in the list, 0 for nowhere.
NewIndex(list, id) ==
    SelectInSeq(list, LAMBDA s : s.id = id)

Listed(answer) == IF answer.ok THEN answer.items ELSE <<>>

\* A plausible bug: the selection is not looked at again.
ActiveKeepsSelection(n) ==
    LET list == Listed(calls[n].answer)
        new  == IF calls[n].for = "connect" THEN NewIndex(list, calls[n].arg) ELSE 0
    IN  /\ calls[n].op = "active"
        /\ sessions' = list
        /\ \/ new # 0 /\ SelectSession(n, list, new)
           \/ /\ new = 0
              /\ Send(n, IF calls[n].for = "disconnect"
                         THEN Request("list", Nil, "load", Nil) ELSE Nil)
              /\ UNCHANGED <<selected, viewer, wanted>>
        /\ UNCHANGED <<connections, form, editIndex>>

\* loadSessions, and the last step of a connect or the next of a disconnect.
Active(n) ==
    LET list == Listed(calls[n].answer)
        new  == IF calls[n].for = "connect" THEN NewIndex(list, calls[n].arg) ELSE 0
    IN  /\ calls[n].op = "active"
        /\ sessions' = list
        /\ \/ new # 0 /\ SelectSession(n, list, new)
           \/ /\ new = 0
              /\ selected' = IF selected > Len(list) THEN 0 ELSE selected
              /\ Send(n, IF calls[n].for = "disconnect"
                         THEN Request("list", Nil, "load", Nil) ELSE Nil)
              /\ UNCHANGED <<viewer, wanted>>
        /\ UNCHANGED <<connections, form, editIndex>>

\* The form that is open by then is closed, whichever was saved.
Saved(n) ==
    /\ calls[n].for = "save"
    /\ IF calls[n].answer.ok
       THEN CloseEditor /\ Send(n, Request("list", Nil, "load", Nil))
       ELSE Done(n) /\ UNCHANGED <<form, editIndex>>
    /\ UNCHANGED <<connections, sessions, selected, viewer, wanted>>

RemoveAnswered(n) ==
    /\ calls[n].for = "remove"
    /\ Done(n)
    /\ UNCHANGED screen

Connected(n) ==
    /\ calls[n].op = "connect"
    /\ Send(n, IF calls[n].answer.ok
               THEN Request("list", calls[n].answer.session, "connect",
                            calls[n].about)
               ELSE Nil)
    /\ UNCHANGED screen

Disconnected(n) ==
    /\ calls[n].op = "disconnect"
    /\ IF calls[n].answer.ok /\ calls[n].was
       THEN CloseViewer /\ selected' = 0
       ELSE UNCHANGED <<viewer, wanted, selected>>
    /\ calls' = [IF calls[n].answer.ok /\ calls[n].was THEN Outdated(calls)
                 ELSE calls EXCEPT
                    ![n] = IF calls[n].answer.ok
                           THEN Request("active", Nil, "disconnect", Nil)
                           ELSE Nil]
    /\ UNCHANGED <<connections, sessions, form, editIndex>>

\* The fetch is rejected, before the service has had the request or after it has
\* answered: what awaits it throws, and the chain ends where it is.
FetchFails(n) ==
    /\ calls[n] # Nil
    /\ Done(n)
    /\ UNCHANGED <<service, app>>

Continue(n) ==
    /\ calls[n] # Nil /\ calls[n].answer # Nil
    /\ \/ Ticket(n) \/ List(n) \/ Active(n) \/ Saved(n) \/ RemoveAnswered(n)
       \/ Connected(n) \/ Disconnected(n)
    /\ UNCHANGED <<service, moves>>

-----------------------------------------------------------------------------
\* The app has just loaded its lists; one session was there already.
Init ==
    /\ stored = SetToSeq(Conns)
    /\ active = <<[id |-> 1, conn |-> stored[1]]>> /\ started = 1
    /\ calls = [n \in Slot |-> Nil]
    /\ connections = stored /\ sessions = active
    /\ form = "closed" /\ editIndex = 0
    /\ selected = 0 /\ moves = 0 /\ viewer = Nil /\ wanted = Nil

Next ==
    \/ Service
    \/ Elsewhere
    \/ User
    \/ \E n \in Slot : Continue(n) \/ FetchFails(n)
    \/ ViewerFails /\ UNCHANGED <<service, moves>>

\* Every request is answered, with a failure at the latest, and the browser
\* runs the code that awaits the answer.
Fairness ==
    \A n \in Slot :
        /\ WF_vars(Handle(n) /\ UNCHANGED app)
        /\ WF_vars(Continue(n))

Spec == Init /\ [][Next]_vars
FairSpec == Spec /\ Fairness

-----------------------------------------------------------------------------
(* Correctness.                                                              *)

\* Every variable keeps its type, and the selection is a row of the list.
TypeOK ==
    /\ \A s \in {stored, connections} : ToSet(s) \subseteq Conns
    /\ \A s \in {active, sessions} : ToSet(s) \subseteq Session
    /\ started \in 0 .. MaxSessions /\ moves \in 0 .. MaxMoves
    /\ \A n \in Slot : calls[n] = Nil \/ calls[n].op \in Ops
    /\ form \in {"closed", "add"} \cup Conns /\ editIndex \in Nat
    /\ selected \in 0 .. Len(sessions)
    /\ {viewer, wanted} \subseteq Conns \cup {Nil}

\* The viewer shows the connection selected last or nothing: the answer to a
\* ticket request of an earlier selection, or of one that was closed, never
\* brings its connection back (guac-viewer.js:31-51, 138-152).
ViewerShowsWanted == viewer \in {wanted, Nil}

\* A connect opens the connection whose row was pressed, if it opens any,
\* whatever the lists were replaced by in the meantime (app.js:468-492).
ConnectOpensItsOwn ==
    [][\A n \in Slot :
            calls[n] # Nil /\ calls'[n] # Nil
            /\ calls[n].op = "active" /\ calls'[n].op = "ticket"
                => calls'[n].arg = calls[n].about]_vars

\* No chain of requests goes on for ever: what the user pressed ends, whatever
\* fails (app.js:275-318, 439-514, guac-viewer.js:30-51).
CallsEnd == \A n \in Slot : calls[n] # Nil ~> calls[n] = Nil

\* The manual: Edit modifies an existing connection's parameters.  It is the one
\* whose parameters the form shows.
SaveUpdatesShown ==
    [][\A n \in Slot :
            calls'[n] # calls[n] /\ calls'[n] # Nil /\ calls'[n].op = "update"
            /\ calls'[n].answer = Nil
                => calls'[n].arg = form]_vars

\* The manual: Disconnect ends an active session.  Its answer closes the viewer
\* of that session's connection, and of no other.
DisconnectClosesItsOwn ==
    [][\A n \in Slot :
            calls[n] # Nil /\ calls[n].op = "disconnect" /\ calls[n] # calls'[n]
            /\ calls[n].answer # Nil /\ wanted # Nil /\ wanted' = Nil
                => wanted = calls[n].about]_vars
=============================================================================
