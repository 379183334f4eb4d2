------------------------------ MODULE Dispatch ------------------------------
(* How a request reaches the service and its answer the one who asked: the   *)
(* HTTP route (guacamole.module.c), the command (guacamole.cmd/main.c), the  *)
(* bus between them and ipc_handler, which one thread of the service runs    *)
(* for one message after another.                                            *)
(*                                                                           *)
(* What a handler of management.c does, and what its answer is worth, is the *)
(* subject of Management; here a handler returns an answer, or NULL when it  *)
(* could not allocate one.                                                   *)
EXTENDS Integers, Sequences, SequencesExt

CONSTANTS
    Runs,      \* runs of the command, each a process of its own
    Posts,     \* HTTP requests
    Patience,  \* how often the command looks for an answer: 10 s
    NoMemory,  \* whether an allocation can fail
    PumpFails, \* whether the service may lack the thread, or the handler
    Nil

VARIABLES
    at,       \* where each caller is
    kind,     \* what each caller asks for
    elapsed,  \* how often each run has looked
    frame,    \* the runs whose callback points into send_ipc_and_wait
    inbox,    \* messages the service has not taken yet, by caller
    reply,    \* the answer the bus holds for a caller
    seen,     \* what each caller was told
    busy,     \* the caller whose message is being handled
    pump,     \* whether ipc_pump_thread runs and ipc_handler is registered
    alive     \* whether the service runs

vars == <<at, kind, elapsed, frame, inbox, reply, seen, busy, pump, alive>>

Caller == Runs \cup Posts

\* An empty command, a tunnel ticket, or what guac_mgmt_handle knows; and what
\* is not sent at all: a path with a bar or too long, arguments that do not
\* make a request.
Kinds == {"empty", "ticket", "api", "invalid"}

\* "success" and "fail" are answers of the service.  The others are made on
\* the way: by the route, and by the command itself.
Answers == {"success", "fail", "unavailable", "no response", "rejected"}

DispatchAssumption ==
    /\ Patience \in Nat /\ NoMemory \in BOOLEAN /\ PumpFails \in BOOLEAN
    /\ Runs \cap Posts = {} /\ Nil \notin Caller \cup Answers

ASSUME DispatchAssumption

-----------------------------------------------------------------------------
(* The callers.                                                              *)

Tell(c, what) ==
    /\ at' = [at EXCEPT ![c] = "done"]
    /\ seen' = [seen EXCEPT ![c] = what]

Reject(c) ==
    /\ at[c] = "idle" /\ kind[c] = "invalid"
    /\ Tell(c, "rejected")
    /\ UNCHANGED <<kind, elapsed, frame, inbox, reply, busy, pump, alive>>

\* The message is the bus's from here on; the command gives the bus a pointer
\* to a variable of its stack to answer to.
Post(c) ==
    /\ at[c] = "idle" /\ kind[c] # "invalid"
    /\ at' = [at EXCEPT ![c] = "waiting"]
    /\ frame' = frame \cup ({c} \cap Runs)
    /\ inbox' = Append(inbox, c)
    /\ UNCHANGED <<kind, elapsed, reply, seen, busy, pump, alive>>

\* The bus does not take the message.
PostFails(c) ==
    /\ at[c] = "idle" /\ kind[c] # "invalid"
    /\ Tell(c, IF c \in Runs THEN "no response" ELSE "unavailable")
    /\ UNCHANGED <<kind, elapsed, frame, inbox, reply, busy, pump, alive>>

\* The answer of an HTTP request goes straight to the browser.
Respond(c) ==
    /\ c \in Posts /\ at[c] = "waiting" /\ reply[c] # Nil
    /\ Tell(c, reply[c])
    /\ UNCHANGED <<kind, elapsed, frame, inbox, reply, busy, pump, alive>>

\* kin_wait_messages runs on_response, which frees the bus of the callback.  An
\* answer that cannot be copied is as none.
Receive(c) ==
    /\ c \in Runs /\ at[c] = "waiting" /\ reply[c] # Nil
    /\ elapsed[c] < Patience
    /\ Tell(c, reply[c]) \/ (NoMemory /\ Tell(c, "no response"))
    /\ frame' = frame \ {c}
    /\ UNCHANGED <<kind, elapsed, inbox, reply, busy, pump, alive>>

\* A plausible bug: the rounds of the loop are not counted.
LookUncounted(c) ==
    /\ c \in Runs /\ at[c] = "waiting" /\ reply[c] = Nil
    /\ elapsed[c] < Patience
    /\ UNCHANGED vars

\* One round of the loop finds nothing.
Look(c) ==
    /\ c \in Runs /\ at[c] = "waiting" /\ reply[c] = Nil
    /\ elapsed[c] < Patience
    /\ elapsed' = [elapsed EXCEPT ![c] = @ + 1]
    /\ UNCHANGED <<at, kind, frame, inbox, reply, seen, busy, pump, alive>>

\* A plausible bug: the callback is not cancelled.
GiveUpKeepsCallback(c) ==
    /\ c \in Runs /\ at[c] = "waiting" /\ elapsed[c] = Patience
    /\ Tell(c, "no response")
    /\ UNCHANGED <<kind, elapsed, frame, inbox, reply, busy, pump, alive>>

\* An answer that came during the last pause is not looked at.
GiveUp(c) ==
    /\ c \in Runs /\ at[c] = "waiting" /\ elapsed[c] = Patience
    /\ Tell(c, "no response")
    /\ frame' = frame \ {c}
    /\ UNCHANGED <<kind, elapsed, inbox, reply, busy, pump, alive>>

-----------------------------------------------------------------------------
(* The service: ipc_pump_thread and ipc_handler.                             *)

Take ==
    /\ alive /\ pump /\ busy = Nil /\ inbox # <<>>
    /\ busy' = Head(inbox) /\ inbox' = Tail(inbox)
    /\ UNCHANGED <<at, kind, elapsed, frame, reply, seen, pump, alive>>

Answer(what) ==
    /\ reply' = [reply EXCEPT ![busy] = what]
    /\ busy' = Nil

\* A plausible bug: the early return leaves out the answer.
EmptyUnanswered ==
    /\ busy # Nil /\ alive /\ kind[busy] = "empty"
    /\ busy' = Nil
    /\ UNCHANGED <<at, kind, elapsed, frame, inbox, reply, seen, pump, alive>>

EmptyCommand ==
    /\ busy # Nil /\ alive /\ kind[busy] = "empty"
    /\ Answer("fail")
    /\ UNCHANGED <<at, kind, elapsed, frame, inbox, seen, pump, alive>>

\* A ticket is issued, or the connection is not known; guac_mgmt_handle returns
\* what its handler answers.
Request ==
    /\ busy # Nil /\ alive /\ kind[busy] \in {"ticket", "api"}
    /\ \E what \in {"success", "fail"} : Answer(what)
    /\ UNCHANGED <<at, kind, elapsed, frame, inbox, seen, pump, alive>>

\* guac_mgmt_handle returns NULL when it cannot allocate its answer.  A constant
\* text is sent in its place, and then given to free, which ends the process.
ManagementNull ==
    /\ NoMemory /\ busy # Nil /\ alive /\ kind[busy] = "api"
    /\ Answer("fail")
    /\ alive' = FALSE
    /\ UNCHANGED <<at, kind, elapsed, frame, inbox, seen, pump>>

-----------------------------------------------------------------------------
Init ==
    /\ at = [c \in Caller |-> "idle"]
    /\ kind \in [Caller -> Kinds]
    /\ elapsed = [c \in Caller |-> 0] /\ frame = {}
    /\ inbox = <<>> /\ reply = [c \in Caller |-> Nil]
    /\ seen = [c \in Caller |-> Nil]
    /\ busy = Nil /\ alive = TRUE
    /\ pump \in IF PumpFails THEN BOOLEAN ELSE {TRUE}

Wait(c) == Respond(c) \/ Receive(c) \/ Look(c) \/ GiveUp(c)

Handle == EmptyCommand \/ Request \/ ManagementNull

Next ==
    \/ \E c \in Caller : Reject(c) \/ Post(c) \/ PostFails(c) \/ Wait(c)
    \/ Take
    \/ Handle

\* The callers go on; the service does as long as it lives.  Nothing has to
\* find its allocations failing.
Fairness ==
    /\ \A c \in Caller : WF_vars(Wait(c))
    /\ WF_vars(Take) /\ WF_vars(EmptyCommand) /\ WF_vars(Request)

Spec == Init /\ [][Next]_vars /\ Fairness

-----------------------------------------------------------------------------
(* Correctness.                                                              *)

\* Every variable keeps its type.
TypeOK ==
    /\ \A c \in Caller :
            /\ at[c] \in {"idle", "waiting", "done"}
            /\ kind[c] \in Kinds /\ elapsed[c] \in 0 .. Patience
            /\ reply[c] \in Answers \cup {Nil} /\ seen[c] \in Answers \cup {Nil}
    /\ ToSet(inbox) \subseteq Caller /\ frame \subseteq Runs
    /\ busy \in Caller \cup {Nil}

\* The bus never holds a pointer into a function that has returned: a late
\* answer finds no callback (main.c:188-216).
FrameIsLive == \A c \in frame : at[c] = "waiting"

\* Every HTTP request that was handed on is answered, unless the service ends,
\* or was never able to take one (service.c:109-150, 427-433).
PostsAnswered ==
    \A c \in Posts : at[c] = "waiting" ~> (at[c] = "done" \/ ~alive \/ ~pump)

\* Every run of the command ends, with an answer or within its patience: also
\* when the service takes no messages, is busy with others, or has ended
\* (main.c:193-218).
RunsEnd == \A c \in Runs : at[c] = "waiting" ~> at[c] = "done"

\* The comment of ipc_pump_thread: management calls are actually processed, and
\* so every one that is waiting is answered.
CallsProcessed == \A c \in Posts : at[c] = "waiting" ~> at[c] = "done"
=============================================================================
