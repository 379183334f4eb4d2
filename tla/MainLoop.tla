------------------------------ MODULE MainLoop ------------------------------
(***************************************************************************)
(* The life of a process of guacamole.service (service.c, main): it takes  *)
(* the socket path and the tunnel's port, polls both listeners and a wake  *)
(* pipe, accepts clients, and cleans up when a signal has ended the loop.  *)
(*                                                                         *)
(* A signal may be handled on the main thread, which waits meanwhile, or   *)
(* on any other thread, beside it; the handler takes a step for the flag,  *)
(* for the test of the pipe, and for the write.  Processes follow each     *)
(* other, after a crash or an exit, and may overlap: they share the path   *)
(* and the port.                                                           *)
(***************************************************************************)
EXTENDS Integers, FiniteSets

CONSTANTS
    Last,         \* the number of processes that are started, one after another
    UnixClients,  \* clients that connect to the socket path
    Browsers,     \* clients that connect to the tunnel's port
    MaxBytes,     \* bound: bytes in the wake pipe
    MaxSignals,   \* bound: signals each process is sent
    Faults,       \* whether system calls of main may fail
    PathFits      \* whether sun_path holds the whole of the socket path

Processes == 1..Last
None      == 0

ASSUME ClientsAssumption == UnixClients \cap Browsers = {}

ASSUME LoopAssumption ==
    /\ Last \in Nat
    /\ MaxBytes \in Nat
    /\ MaxSignals \in [Processes -> Nat]
    /\ Faults \in BOOLEAN /\ PathFits \in BOOLEAN

Clients == UnixClients \cup Browsers
Threads == {"main", "other"}

VARIABLES
    pc,         \* where main is
    running,    \* g_running
    bytes,      \* what is in the wake pipe
    writeEnd,   \* its write end: "none", "open", "closed" until set to -1
    listening,  \* lfd accepts connections
    tunnel,     \* tunnel_lfd accepts connections
    revents,    \* what the last poll returned
    handler,    \* where on_signal is on each thread
    signals,    \* signals sent to the process so far
    shared,     \* history: another process was alive during its life
    path,       \* the process whose socket is at the bound path, alive or not
    port,       \* the process that has the tunnel's port
    backlog,    \* the clients waiting to be accepted by the process
    settled     \* the clients that were accepted or turned away

signalling == <<running, bytes, writeEnd, handler, signals>>
clients    == <<backlog, settled>>
sockets    == <<listening, tunnel, path, port, clients>>
vars       == <<pc, signalling, sockets, revents, shared>>

Quiet == [unix |-> FALSE, pipe |-> FALSE, tunnel |-> FALSE]

Starting == {"socket", "unlink", "bind", "listen", "tunnel", "pipe"}
Serving  == {"loop", "poll", "woken", "accept", "tunnelled", "drain"}
Leaving  == {"close", "clear", "listeners", "remove"}

Alive(p) == pc[p] \notin {"idle", "gone"}

Go(p, stage) == pc' = [pc EXCEPT ![p] = stage]

Settle(p, who) ==
    /\ backlog' = [backlog EXCEPT ![p] = @ \ who]
    /\ settled' = settled \cup who

Waits(c) == \E p \in Processes : c \in backlog[p]

\* The process is over: the kernel closes what it had.  The path stays.
Over(p) ==
    /\ Go(p, "gone")
    /\ listening' = [listening EXCEPT ![p] = FALSE]
    /\ tunnel' = [tunnel EXCEPT ![p] = FALSE]
    /\ port' = IF port = p THEN None ELSE port
    /\ writeEnd' = [writeEnd EXCEPT ![p] = "none"]
    /\ bytes' = [bytes EXCEPT ![p] = 0]
    /\ handler' = [handler EXCEPT ![p] = [t \in Threads |-> "none"]]
    /\ revents' = [revents EXCEPT ![p] = Quiet]
    /\ Settle(p, backlog[p])

-----------------------------------------------------------------------------
(* Start.                                                                  *)

\* main, up to the signal handlers; another process may be alive.
Start(p) ==
    /\ pc[p] = "idle"
    /\ \A q \in 1..(p - 1) : pc[q] # "idle"
    /\ Go(p, "socket")
    /\ shared' = [q \in Processes |->
                     \/ shared[q]
                     \/ q = p /\ \E r \in Processes : Alive(r)
                     \/ q # p /\ Alive(q)]
    /\ UNCHANGED <<signalling, sockets, revents>>

\* A failure exit before there is a path, or one that leaves it alone.
Exit(p) ==
    /\ Over(p)
    /\ UNCHANGED <<running, signals, path, shared>>

\* unlink is given the whole path, and bind as much of it as sun_path holds:
\* what is bound at a path that was cut is never removed.
Unlinked == IF PathFits THEN None ELSE path

\* A failure exit that removes the path, whoever's it is.
ExitRemoving(p) ==
    /\ Over(p)
    /\ path' = Unlinked
    /\ UNCHANGED <<running, signals, shared>>

\* guac_sock_path and socket.
OpenSocket(p) ==
    /\ pc[p] = "socket"
    /\ Go(p, "unlink")
    /\ UNCHANGED <<signalling, sockets, revents, shared>>

\* Mutant: what a crash has left at the path stays there.
UnlinkSkipped(p) ==
    /\ pc[p] = "unlink"
    /\ Go(p, "bind")
    /\ UNCHANGED <<signalling, sockets, revents, shared>>

Unlink(p) ==
    /\ pc[p] = "unlink"
    /\ path' = Unlinked
    /\ Go(p, "bind")
    /\ UNCHANGED <<signalling, listening, tunnel, port, clients, revents,
                   shared>>

Bind(p) ==
    /\ pc[p] = "bind"
    /\ path = None
    /\ path' = p
    /\ Go(p, "listen")
    /\ UNCHANGED <<signalling, listening, tunnel, port, clients, revents,
                   shared>>

\* Something is at the path again.
BindBusy(p) == pc[p] = "bind" /\ path # None /\ Exit(p)

\* Mutant: the stale path is removed once the new socket is bound.
ListenUnlinks(p) ==
    /\ pc[p] = "listen"
    /\ listening' = [listening EXCEPT ![p] = TRUE]
    /\ path' = None
    /\ Go(p, "tunnel")
    /\ UNCHANGED <<signalling, tunnel, port, clients, revents, shared>>

Listen(p) ==
    /\ pc[p] = "listen"
    /\ listening' = [listening EXCEPT ![p] = TRUE]
    /\ Go(p, "tunnel")
    /\ UNCHANGED <<signalling, tunnel, path, port, clients, revents, shared>>

\* guac_tunnel_listen: without the port the process goes on.
ListenTunnel(p) ==
    /\ pc[p] = "tunnel"
    /\ \/ /\ port = None
          /\ port' = p
          /\ tunnel' = [tunnel EXCEPT ![p] = TRUE]
       \/ (port # None \/ Faults) /\ UNCHANGED <<port, tunnel>>
    /\ Go(p, "pipe")
    /\ UNCHANGED <<signalling, listening, path, clients, revents, shared>>

OpenPipe(p) ==
    /\ pc[p] = "pipe"
    /\ writeEnd' = [writeEnd EXCEPT ![p] = "open"]
    /\ Go(p, "loop")
    /\ UNCHANGED <<running, bytes, handler, signals, sockets, revents, shared>>

\* A system call of the start fails.
StartFails(p) ==
    /\ Faults
    /\ \/ pc[p] \in {"socket", "bind"} /\ Exit(p)
       \/ pc[p] \in {"listen", "pipe"} /\ ExitRemoving(p)

-----------------------------------------------------------------------------
(* The poll loop.                                                          *)

\* The next round polls afresh.
Again(p) ==
    /\ Go(p, "loop")
    /\ revents' = [revents EXCEPT ![p] = Quiet]

TestRunning(p) ==
    /\ pc[p] = "loop"
    /\ Go(p, IF running[p] THEN "poll" ELSE "close")
    /\ UNCHANGED <<signalling, sockets, revents, shared>>

\* Mutant: the tunnel's listener is left out of the poll.
PollReturnsTwo(p) ==
    /\ pc[p] = "poll"
    /\ LET ready == [unix |-> backlog[p] \cap UnixClients # {},
                     pipe |-> bytes[p] > 0,
                     tunnel |-> FALSE]
       IN  ready # Quiet /\ revents' = [revents EXCEPT ![p] = ready]
    /\ Go(p, "woken")
    /\ UNCHANGED <<signalling, sockets, shared>>

PollReturns(p) ==
    /\ pc[p] = "poll"
    /\ LET ready == [unix   |-> backlog[p] \cap UnixClients # {},
                     pipe   |-> bytes[p] > 0,
                     tunnel |-> backlog[p] \cap Browsers # {}]
       IN  ready # Quiet /\ revents' = [revents EXCEPT ![p] = ready]
    /\ Go(p, "woken")
    /\ UNCHANGED <<signalling, sockets, shared>>

\* The flag, then the pipe, then the listeners.  At "drain" the pipe would be
\* read until a read fails; its read end blocks, so main would stay there.
Dispatch(p) ==
    /\ pc[p] = "woken"
    /\ Go(p, IF ~running[p]           THEN "close"
             ELSE IF revents[p].pipe  THEN "drain"
             ELSE IF revents[p].unix  THEN "accept" ELSE "tunnelled")
    /\ UNCHANGED <<signalling, sockets, revents, shared>>

AcceptUnix(p) ==
    /\ pc[p] = "accept"
    /\ \E c \in backlog[p] \cap UnixClients : Settle(p, {c})
    /\ Go(p, "tunnelled")
    /\ UNCHANGED <<signalling, listening, tunnel, path, port, revents, shared>>

\* An accept fails, for want of descriptors or because the client has left, as
\* often as it likes.  The first listener's sends the loop round, and the
\* tunnel's listener has to wait.
AcceptFails(p) ==
    /\ Faults
    /\ pc[p] = "accept" \/ (pc[p] = "tunnelled" /\ revents[p].tunnel)
    /\ Again(p)
    /\ UNCHANGED <<signalling, sockets, shared>>

\* poll fails, or reports an error on the first listener, or its accept finds
\* no socket: the loop ends as if by a signal.
LoopBreaks(p) ==
    /\ Faults
    /\ \/ pc[p] \in {"poll", "accept"}
       \/ pc[p] = "woken" /\ running[p] /\ ~revents[p].pipe
    /\ Go(p, "close")
    /\ UNCHANGED <<signalling, sockets, revents, shared>>

\* guac_tunnel_accept, if the same poll has seen a browser.
AcceptTunnel(p) ==
    /\ pc[p] = "tunnelled"
    /\ IF revents[p].tunnel
       THEN \E c \in backlog[p] \cap Browsers : Settle(p, {c})
       ELSE UNCHANGED clients
    /\ Again(p)
    /\ UNCHANGED <<signalling, listening, tunnel, path, port, shared>>

-----------------------------------------------------------------------------
(* Cleanup.                                                                *)

\* Both ends of the pipe are closed; the read end interests nobody.
ClosePipe(p) ==
    /\ pc[p] = "close"
    /\ writeEnd' = [writeEnd EXCEPT ![p] =
                       IF @ = "open" THEN "closed" ELSE @]
    /\ bytes' = [bytes EXCEPT ![p] = 0]
    /\ Go(p, "clear")
    /\ UNCHANGED <<running, handler, signals, sockets, revents, shared>>

ClearPipe(p) ==
    /\ pc[p] = "clear"
    /\ writeEnd' = [writeEnd EXCEPT ![p] = "none"]
    /\ Go(p, "listeners")
    /\ UNCHANGED <<running, bytes, handler, signals, sockets, revents, shared>>

CloseListeners(p) ==
    /\ pc[p] = "listeners"
    /\ listening' = [listening EXCEPT ![p] = FALSE]
    /\ tunnel' = [tunnel EXCEPT ![p] = FALSE]
    /\ port' = IF port = p THEN None ELSE port
    /\ Settle(p, backlog[p])
    /\ Go(p, "remove")
    /\ UNCHANGED <<signalling, path, revents, shared>>

\* unlink, whoever's the path is by now, and the end of main.
Finish(p) == pc[p] = "remove" /\ ExitRemoving(p)

\* The process is killed.
Crash(p) ==
    /\ Alive(p)
    /\ Exit(p)

-----------------------------------------------------------------------------
(* Signals and clients.                                                    *)

Signal(p, t) ==
    /\ Alive(p)
    /\ signals[p] < MaxSignals[p]
    /\ handler[p][t] = "none"
    /\ handler' = [handler EXCEPT ![p][t] = "flag"]
    /\ signals' = [signals EXCEPT ![p] = @ + 1]
    /\ UNCHANGED <<pc, running, bytes, writeEnd, sockets, revents, shared>>

\* The handler returns; a poll that it has interrupted fails with EINTR.
Returned(p, t) ==
    IF t = "main" /\ pc[p] = "poll" THEN Go(p, "loop") ELSE UNCHANGED pc

\* Mutant: the pipe is written before the flag is set.
SetFlagLast(p, t) ==
    \/ /\ handler[p][t] = "flag"
       /\ handler' = [handler EXCEPT ![p][t] = "test"]
       /\ UNCHANGED <<pc, running, bytes, writeEnd, signals, sockets, revents,
                      shared>>
    \/ /\ handler[p][t] = "none" /\ signals[p] > 0 /\ running[p]
       /\ running' = [running EXCEPT ![p] = FALSE]
       /\ UNCHANGED <<pc, bytes, writeEnd, handler, signals, sockets, revents,
                      shared>>

SetFlag(p, t) ==
    /\ handler[p][t] = "flag"
    /\ running' = [running EXCEPT ![p] = FALSE]
    /\ handler' = [handler EXCEPT ![p][t] = "test"]
    /\ UNCHANGED <<pc, bytes, writeEnd, signals, sockets, revents, shared>>

\* Mutant: the handler leaves it at the flag.
TestPipeNever(p, t) ==
    /\ handler[p][t] = "test"
    /\ handler' = [handler EXCEPT ![p][t] = "none"]
    /\ Returned(p, t)
    /\ UNCHANGED <<running, bytes, writeEnd, signals, sockets, revents, shared>>

\* g_wake_pipe[1] >= 0: also when it is closed and not yet set to -1.
TestPipe(p, t) ==
    /\ handler[p][t] = "test"
    /\ IF writeEnd[p] = "none"
       THEN /\ handler' = [handler EXCEPT ![p][t] = "none"]
            /\ Returned(p, t)
       ELSE handler' = [handler EXCEPT ![p][t] = "write"] /\ UNCHANGED pc
    /\ UNCHANGED <<running, bytes, writeEnd, signals, sockets, revents, shared>>

\* A full pipe does not take the byte, nor does a closed one.
WriteByte(p, t) ==
    /\ handler[p][t] = "write"
    /\ bytes' = [bytes EXCEPT ![p] =
                    IF writeEnd[p] = "open" /\ @ < MaxBytes THEN @ + 1 ELSE @]
    /\ handler' = [handler EXCEPT ![p][t] = "none"]
    /\ Returned(p, t)
    /\ UNCHANGED <<running, writeEnd, signals, sockets, revents, shared>>

\* A client gets into the backlog of a process that listens; one that finds
\* nobody may try again.
ConnectUnix(c) ==
    /\ ~Waits(c) /\ c \notin settled
    /\ path # None /\ listening[path]
    /\ backlog' = [backlog EXCEPT ![path] = @ \cup {c}]
    /\ UNCHANGED <<pc, signalling, listening, tunnel, path, port, settled,
                   revents, shared>>

ConnectTunnel(c) ==
    /\ ~Waits(c) /\ c \notin settled
    /\ port # None
    /\ backlog' = [backlog EXCEPT ![port] = @ \cup {c}]
    /\ UNCHANGED <<pc, signalling, listening, tunnel, path, port, settled,
                   revents, shared>>

-----------------------------------------------------------------------------

Init ==
    /\ pc        = [p \in Processes |-> "idle"]
    /\ running   = [p \in Processes |-> TRUE]
    /\ bytes     = [p \in Processes |-> 0]
    /\ writeEnd  = [p \in Processes |-> "none"]
    /\ listening = [p \in Processes |-> FALSE]
    /\ tunnel    = [p \in Processes |-> FALSE]
    /\ revents   = [p \in Processes |-> Quiet]
    /\ handler   = [p \in Processes |-> [t \in Threads |-> "none"]]
    /\ signals   = [p \in Processes |-> 0]
    /\ shared    = [p \in Processes |-> FALSE]
    /\ path = None
    /\ port = None
    /\ backlog = [p \in Processes |-> {}]
    /\ settled = {}

\* main moves unless a handler has interrupted it.
Main(p) ==
    /\ handler[p]["main"] = "none"
    /\ \/ OpenSocket(p) \/ Unlink(p) \/ Bind(p) \/ BindBusy(p) \/ Listen(p)
       \/ ListenTunnel(p) \/ OpenPipe(p)
       \/ TestRunning(p) \/ PollReturns(p) \/ Dispatch(p)
       \/ AcceptUnix(p) \/ AcceptTunnel(p)
       \/ ClosePipe(p) \/ ClearPipe(p) \/ CloseListeners(p) \/ Finish(p)

\* A system call fails instead.
Failure(p) ==
    /\ handler[p]["main"] = "none"
    /\ StartFails(p) \/ AcceptFails(p) \/ LoopBreaks(p)

on_signal(p, t) == SetFlag(p, t) \/ TestPipe(p, t) \/ WriteByte(p, t)

Next ==
    \/ \E p \in Processes : Start(p) \/ Main(p) \/ Failure(p) \/ Crash(p)
    \/ \E p \in Processes, t \in Threads : Signal(p, t) \/ on_signal(p, t)
    \/ \E c \in UnixClients : ConnectUnix(c)
    \/ \E c \in Browsers : ConnectTunnel(c)

\* Every thread of a process with something to do is run.  Nothing has to fail.
Fairness ==
    \A p \in Processes :
        /\ WF_vars(Main(p))
        /\ \A t \in Threads : WF_vars(on_signal(p, t))

Spec == Init /\ [][Next]_vars /\ Fairness

-----------------------------------------------------------------------------
(* Properties.                                                             *)

TypeOK ==
    /\ pc \in [Processes -> {"idle", "gone"} \cup Starting \cup Serving
                              \cup Leaving]
    /\ running \in [Processes -> BOOLEAN]
    /\ bytes \in [Processes -> 0..MaxBytes]
    /\ writeEnd \in [Processes -> {"none", "open", "closed"}]
    /\ listening \in [Processes -> BOOLEAN]
    /\ tunnel \in [Processes -> BOOLEAN]
    /\ revents \in [Processes -> [unix : BOOLEAN, pipe : BOOLEAN,
                                  tunnel : BOOLEAN]]
    /\ handler \in [Processes -> [Threads -> {"none", "flag", "test", "write"}]]
    /\ \A p \in Processes : signals[p] \in 0..MaxSignals[p]
    /\ shared \in [Processes -> BOOLEAN]
    /\ path \in Processes \cup {None} /\ port \in Processes \cup {None}
    /\ backlog \in [Processes -> SUBSET Clients] /\ settled \subseteq Clients

\* The loop never gets to drain the wake pipe, whose read end blocks and would
\* hold the process for ever: on whichever thread a signal is handled, the
\* flag is seen before the byte.
NeverDrains == \A p \in Processes : pc[p] # "drain"

\* A signal ends the process, wherever it finds it: at the start, before the
\* pipe exists, between the test of the flag and the poll, in the poll, or in
\* a cleanup that is already under way.
SignalEnds ==
    \A p \in Processes : (Alive(p) /\ signals[p] > 0) ~> pc[p] = "gone"

\* A process that was alone for all its life so far owns the path while it
\* serves, whatever crashes before it have left there.
Reachable ==
    \A p \in Processes : pc[p] \in Serving /\ ~shared[p] => path = p

\* A process that is alone finds the path free when it binds: what a crash has
\* left there never keeps the next process from starting, if the path fits.
StartsAfterCrash ==
    \A p \in Processes : pc[p] = "bind" /\ path # None => shared[p]

\* Once accepts no longer fail, a client in a backlog is accepted, or turned
\* away by the end of the process: clients of the one listener do not hold up
\* those of the other.  While accepts fail, clients of both may wait.
ClientsSettled ==
    <>[][~\E p \in Processes : AcceptFails(p)]_vars =>
        \A c \in Clients : Waits(c) ~> c \in settled
=============================================================================
