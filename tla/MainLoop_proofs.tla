--------------------------- MODULE MainLoop_proofs ---------------------------
(* The safety of the main loop, for any number of processes, clients and     *)
(* signals, and for pipes of any size.                                       *)
EXTENDS MainLoop, TLAPS

USE DEF Threads

-----------------------------------------------------------------------------
(* Types.                                                                    *)

\* The first process has not been started.
LEMMA TypeInit == Init => TypeOK
    BY LoopAssumption
    DEF Init, TypeOK, Quiet, Clients, Processes

\* The end of a process, in whichever way.
LEMMA TypeOver ==
    ASSUME TypeOK, NEW p \in Processes, Over(p), path' \in {path, None},
           UNCHANGED <<running, signals, shared>>
    PROVE  TypeOK'
<1> USE LoopAssumption DEF TypeOK, Over
<1>1. /\ pc' \in [Processes -> {"idle", "gone"} \cup Starting \cup Serving
                                   \cup Leaving]
      /\ bytes' \in [Processes -> 0..MaxBytes]
    BY DEF Go
<1>2. /\ writeEnd' \in [Processes -> {"none", "open", "closed"}]
      /\ listening' \in [Processes -> BOOLEAN]
      /\ tunnel' \in [Processes -> BOOLEAN]
    OBVIOUS
<1>3. revents' \in [Processes -> [unix : BOOLEAN, pipe : BOOLEAN,
                                   tunnel : BOOLEAN]]
    BY DEF Quiet
<1>4. handler' \in [Processes -> [Threads -> {"none", "flag", "test", "write"}]]
    OBVIOUS
<1>5. backlog' \in [Processes -> SUBSET Clients] /\ settled' \subseteq Clients
    BY DEF Settle
<1>6. path' \in Processes \cup {None} /\ port' \in Processes \cup {None}
    OBVIOUS
<1> QED
    BY <1>1, <1>2, <1>3, <1>4, <1>5, <1>6

\* Every step keeps the types.
LEMMA TypeStep == TypeOK /\ [Next]_vars => TypeOK'
<1> SUFFICES ASSUME TypeOK, [Next]_vars PROVE TypeOK'
    OBVIOUS
<1> USE LoopAssumption DEF TypeOK
<1>1. ASSUME NEW p \in Processes, Start(p) PROVE TypeOK'
    BY <1>1 DEF Start, Go, Starting, sockets, clients, signalling
<1>2. ASSUME NEW p \in Processes, OpenSocket(p) PROVE TypeOK'
    BY <1>2 DEF OpenSocket, Go, Starting, sockets, clients, signalling
<1>3. ASSUME NEW p \in Processes, Unlink(p) PROVE TypeOK'
    BY <1>3 DEF Unlink, Unlinked, Go, Starting, clients, signalling
<1>4. ASSUME NEW p \in Processes, Bind(p) PROVE TypeOK'
    BY <1>4 DEF Bind, Go, Starting, clients, signalling
<1>5. ASSUME NEW p \in Processes, Listen(p) PROVE TypeOK'
    BY <1>5 DEF Listen, Go, Starting, clients, signalling
<1>6. ASSUME NEW p \in Processes, ListenTunnel(p) PROVE TypeOK'
    BY <1>6 DEF ListenTunnel, Go, Starting, clients, signalling
<1>7. ASSUME NEW p \in Processes, OpenPipe(p) PROVE TypeOK'
    BY <1>7 DEF OpenPipe, Go, Serving, sockets, clients
<1>8. ASSUME NEW p \in Processes, TestRunning(p) PROVE TypeOK'
    BY <1>8 DEF TestRunning, Go, Serving, Leaving, sockets, clients, signalling
<1>9. ASSUME NEW p \in Processes, PollReturns(p) PROVE TypeOK'
    BY <1>9 DEF PollReturns, Go, Serving, sockets, clients, signalling
<1>10. ASSUME NEW p \in Processes, Dispatch(p) PROVE TypeOK'
    BY <1>10 DEF Dispatch, Go, Serving, Leaving, sockets, clients, signalling
<1>11. ASSUME NEW p \in Processes, AcceptUnix(p) PROVE TypeOK'
    BY <1>11 DEF AcceptUnix, Settle, Go, Serving, signalling
<1>12. ASSUME NEW p \in Processes, AcceptFails(p) PROVE TypeOK'
    BY <1>12 DEF AcceptFails, Again, Quiet, Go, Serving, sockets, clients,
                 signalling
<1>13. ASSUME NEW p \in Processes, AcceptTunnel(p) PROVE TypeOK'
    <2>1. /\ backlog' \in [Processes -> SUBSET Clients]
          /\ settled' \subseteq Clients
        <3>1. CASE revents[p].tunnel
            <4>1. PICK c \in backlog[p] \cap Browsers : Settle(p, {c})
                BY <1>13, <3>1 DEF AcceptTunnel
            <4> QED
                BY <4>1 DEF Settle, Clients
        <3>2. CASE ~revents[p].tunnel
            BY <1>13, <3>2 DEF AcceptTunnel, clients
        <3> QED
            BY <3>1, <3>2
    <2>2. revents' \in [Processes -> [unix : BOOLEAN, pipe : BOOLEAN,
                                       tunnel : BOOLEAN]]
        BY <1>13 DEF AcceptTunnel, Again, Quiet
    <2>3. pc' \in [Processes -> {"idle", "gone"} \cup Starting \cup Serving
                                      \cup Leaving]
        BY <1>13 DEF AcceptTunnel, Again, Go, Serving
    <2> QED
        BY <1>13, <2>1, <2>2, <2>3 DEF AcceptTunnel, signalling
<1>14. ASSUME NEW p \in Processes, ClosePipe(p) PROVE TypeOK'
    BY <1>14 DEF ClosePipe, Go, Leaving, sockets, clients
<1>15. ASSUME NEW p \in Processes, ClearPipe(p) PROVE TypeOK'
    BY <1>15 DEF ClearPipe, Go, Leaving, sockets, clients
<1>16. ASSUME NEW p \in Processes, CloseListeners(p) PROVE TypeOK'
    BY <1>16 DEF CloseListeners, Settle, Go, Leaving, signalling
<1>17. ASSUME NEW p \in Processes,
              BindBusy(p) \/ StartFails(p) \/ Finish(p) \/ Crash(p)
       PROVE  TypeOK'
    BY <1>17, TypeOver
    DEF BindBusy, StartFails, Finish, Crash, Exit, ExitRemoving, Unlinked
<1>18. ASSUME NEW p \in Processes, NEW t \in Threads, Signal(p, t)
       PROVE  TypeOK'
    BY <1>18 DEF Signal, sockets, clients
<1>19. ASSUME NEW p \in Processes, NEW t \in Threads, SetFlag(p, t)
       PROVE  TypeOK'
    BY <1>19 DEF SetFlag, sockets, clients
<1>20. ASSUME NEW p \in Processes, NEW t \in Threads, TestPipe(p, t)
       PROVE  TypeOK'
    <2>1. handler' \in [Processes -> [Threads -> {"none", "flag", "test",
                                                   "write"}]]
        <3>1. PICK stage \in {"none", "write"} :
                  handler' = [handler EXCEPT ![p][t] = stage]
            BY <1>20 DEF TestPipe
        <3> QED
            BY <3>1
    <2>2. pc' \in [Processes -> {"idle", "gone"} \cup Starting \cup Serving
                                      \cup Leaving]
        BY <1>20 DEF TestPipe, Returned, Go, Serving
    <2> QED
        BY <1>20, <2>1, <2>2 DEF TestPipe, sockets, clients
<1>21. ASSUME NEW p \in Processes, NEW t \in Threads, WriteByte(p, t)
       PROVE  TypeOK'
    <2>1. bytes' \in [Processes -> 0..MaxBytes]
        <3>1. bytes' = [bytes EXCEPT ![p] = bytes'[p]]
            BY <1>21 DEF WriteByte
        <3>2. bytes'[p] \in {bytes[p], bytes[p] + 1} /\ bytes'[p] <= MaxBytes
            BY <1>21 DEF WriteByte
        <3>3. bytes'[p] \in 0..MaxBytes
            BY <3>2
        <3> QED
            BY <3>1, <3>3
    <2>2. pc' \in [Processes -> {"idle", "gone"} \cup Starting \cup Serving
                                      \cup Leaving]
        BY <1>21 DEF WriteByte, Returned, Go, Serving
    <2>3. handler' = [handler EXCEPT ![p][t] = "none"]
        BY <1>21 DEF WriteByte
    <2> QED
        BY <1>21, <2>1, <2>2, <2>3 DEF WriteByte, sockets, clients
<1>22. ASSUME NEW c \in UnixClients, ConnectUnix(c) PROVE TypeOK'
    BY <1>22 DEF ConnectUnix, Clients, signalling
<1>23. ASSUME NEW c \in Browsers, ConnectTunnel(c) PROVE TypeOK'
    BY <1>23 DEF ConnectTunnel, Clients, signalling
<1>24. ASSUME NEW p \in Processes, LoopBreaks(p) PROVE TypeOK'
    BY <1>24 DEF LoopBreaks, Go, Leaving, sockets, clients, signalling
<1>25. CASE UNCHANGED vars
    BY <1>25 DEF vars, signalling, sockets, clients
<1> QED
    BY <1>1, <1>2, <1>3, <1>4, <1>5, <1>6, <1>7, <1>8, <1>9, <1>10, <1>11,
       <1>12, <1>13, <1>14, <1>15, <1>16, <1>17, <1>18, <1>19, <1>20, <1>21,
       <1>22, <1>23, <1>24, <1>25 DEF Next, Main, Failure, on_signal

\* Every variable keeps its type.
THEOREM TypeCorrect == Spec => []TypeOK
    BY TypeInit, TypeStep, PTL DEF Spec
-----------------------------------------------------------------------------
(* The flag and the pipe.                                                    *)

\* While the flag says to go on, no handler has got past setting it: nothing
\* has been written to the pipe, and no poll has seen anything there.
FlagFirst ==
    \A p \in Processes : running[p] =>
        /\ bytes[p] = 0 /\ ~revents[p].pipe
        /\ \A t \in Threads : handler[p][t] \in {"none", "flag"}

FInv == TypeOK /\ FlagFirst /\ NeverDrains

\* No signal has been sent yet.
LEMMA FlagInit == Init => FlagFirst /\ NeverDrains
    BY DEF Init, FlagFirst, NeverDrains, Quiet

\* Every step keeps the flag first.
LEMMA FlagStep == FInv /\ [Next]_vars => FInv'
<1> SUFFICES ASSUME FInv, [Next]_vars PROVE FlagFirst' /\ NeverDrains'
    BY TypeStep DEF FInv
<1> USE LoopAssumption DEF FInv, TypeOK, FlagFirst, NeverDrains
<1>1. ASSUME NEW p \in Processes,
             Start(p) \/ OpenSocket(p) \/ Unlink(p) \/ Bind(p) \/ Listen(p)
                      \/ ListenTunnel(p) \/ OpenPipe(p) \/ TestRunning(p)
                      \/ LoopBreaks(p)
      PROVE  FlagFirst' /\ NeverDrains'
    <2>1. UNCHANGED <<running, bytes, handler, revents>>
        BY <1>1 DEF Start, OpenSocket, Unlink, Bind, Listen, ListenTunnel,
                    OpenPipe, TestRunning, LoopBreaks, signalling, sockets
    <2>2. \E stage \in Starting \cup {"loop", "poll", "close"} : Go(p, stage)
        BY <1>1 DEF Start, OpenSocket, Unlink, Bind, Listen, ListenTunnel,
                    OpenPipe, TestRunning, LoopBreaks, Starting
    <2> QED
        BY <2>1, <2>2 DEF Go, Starting
<1>2. ASSUME NEW p \in Processes, PollReturns(p)
      PROVE  FlagFirst' /\ NeverDrains'
    BY <1>2 DEF PollReturns, Go, signalling
<1>3. ASSUME NEW p \in Processes, Dispatch(p)
      PROVE  FlagFirst' /\ NeverDrains'
    BY <1>3 DEF Dispatch, Go, signalling
<1>4. ASSUME NEW p \in Processes, AcceptUnix(p)
      PROVE  FlagFirst' /\ NeverDrains'
    BY <1>4 DEF AcceptUnix, Go, signalling
<1>5. ASSUME NEW p \in Processes, AcceptFails(p) \/ AcceptTunnel(p)
      PROVE  FlagFirst' /\ NeverDrains'
    <2>1. Again(p) /\ UNCHANGED <<running, bytes, handler>>
        BY <1>5 DEF AcceptFails, AcceptTunnel, signalling
    <2> QED
        BY <2>1 DEF Again, Go, Quiet
<1>6. ASSUME NEW p \in Processes,
             ClosePipe(p) \/ ClearPipe(p) \/ CloseListeners(p)
      PROVE  FlagFirst' /\ NeverDrains'
    <2>1. /\ UNCHANGED <<running, handler, revents>>
          /\ bytes' \in {bytes, [bytes EXCEPT ![p] = 0]}
        BY <1>6 DEF ClosePipe, ClearPipe, CloseListeners, signalling
    <2>2. \E stage \in Leaving : Go(p, stage)
        BY <1>6 DEF ClosePipe, ClearPipe, CloseListeners, Leaving
    <2> QED
        BY <2>1, <2>2 DEF Go, Leaving
<1>7. ASSUME NEW p \in Processes,
             BindBusy(p) \/ StartFails(p) \/ Finish(p) \/ Crash(p)
      PROVE  FlagFirst' /\ NeverDrains'
    <2>1. Over(p) /\ running' = running
        BY <1>7 DEF BindBusy, StartFails, Finish, Crash, Exit, ExitRemoving
    <2> QED
        BY <2>1 DEF Over, Go, Quiet
<1>8. ASSUME NEW p \in Processes, NEW t \in Threads, Signal(p, t)
      PROVE  FlagFirst' /\ NeverDrains'
    BY <1>8 DEF Signal
<1>9. ASSUME NEW p \in Processes, NEW t \in Threads, SetFlag(p, t)
      PROVE  FlagFirst' /\ NeverDrains'
    BY <1>9 DEF SetFlag
<1>10. ASSUME NEW p \in Processes, NEW t \in Threads,
              TestPipe(p, t) \/ WriteByte(p, t)
       PROVE  FlagFirst' /\ NeverDrains'
    <2>1. ~running[p]
        BY <1>10 DEF TestPipe, WriteByte
    <2>2. NeverDrains'
        BY <1>10 DEF TestPipe, WriteByte, Returned, Go
    <2>3. ASSUME NEW q \in Processes, q # p
          PROVE  bytes'[q] = bytes[q] /\ handler'[q] = handler[q]
        BY <1>10, <2>3 DEF TestPipe, WriteByte
    <2>4. UNCHANGED <<running, revents>>
        BY <1>10 DEF TestPipe, WriteByte
    <2> QED
        BY <2>1, <2>2, <2>3, <2>4
<1>11. ASSUME NEW c \in Clients, ConnectUnix(c) \/ ConnectTunnel(c)
       PROVE  FlagFirst' /\ NeverDrains'
    BY <1>11 DEF ConnectUnix, ConnectTunnel, signalling
<1>12. CASE UNCHANGED vars
    BY <1>12 DEF vars, signalling
<1> QED
    BY <1>1, <1>2, <1>3, <1>4, <1>5, <1>6, <1>7, <1>8, <1>9, <1>10, <1>11,
       <1>12 DEF Next, Main, Failure, on_signal, Clients

\* The loop never reads the wake pipe, whose read end blocks (service.c:560):
\* on whichever thread a signal is handled, the flag is seen before the byte.
THEOREM PipeIsNeverDrained == Spec => []NeverDrains
<1>1. Init => FInv
    BY TypeInit, FlagInit DEF FInv
<1>2. FInv => NeverDrains
    BY DEF FInv
<1> QED
    BY <1>1, <1>2, FlagStep, PTL DEF Spec
-----------------------------------------------------------------------------
(* The path.                                                                 *)

\* Of two processes that are alive at once, each knows.
Apart ==
    \A p, q \in Processes : p # q /\ Alive(p) /\ Alive(q) => shared[p]

\* The stages of a process from its bind to its end.
Bound == {"listen", "tunnel", "pipe"} \cup Serving \cup Leaving

\* The path is free for a process that is alone and has removed what was
\* there, if unlink and bind agree on it, and its own once it is bound.
OwnsPath ==
    \A p \in Processes : ~shared[p] =>
        /\ PathFits /\ pc[p] = "bind" => path = None
        /\ pc[p] \in Bound => path = p

PInv == TypeOK /\ Apart /\ OwnsPath

\* Nobody is alive yet.
LEMMA PathInit == Init => Apart /\ OwnsPath
    BY DEF Init, Apart, OwnsPath, Alive, Bound, Serving, Leaving

\* A process goes on to a stage that asks no more of the path.
LEMMA GoKeepsPath ==
    ASSUME PInv, NEW p \in Processes, NEW stage, Go(p, stage),
           Alive(p), stage # "bind", stage \in Bound => pc[p] \in Bound,
           UNCHANGED <<path, shared>>
    PROVE  Apart' /\ OwnsPath'
    BY DEF PInv, TypeOK, Go, Alive, Apart, OwnsPath

\* A process is over, and may have removed the path.
LEMMA OverKeepsPath ==
    ASSUME PInv, NEW p \in Processes, Over(p), Alive(p), path' \in {path, None},
           UNCHANGED shared
    PROVE  Apart' /\ OwnsPath'
<1> USE DEF PInv, TypeOK
<1>1. pc' = [pc EXCEPT ![p] = "gone"]
    BY DEF Over, Go
<1>2. Apart'
    BY <1>1 DEF Apart, Alive
<1>3. ASSUME NEW q \in Processes, ~shared'[q], pc'[q] \in Bound \cup {"bind"}
      PROVE  path' = path
    <2>1. q # p
        BY <1>1, <1>3 DEF Bound, Serving, Leaving
    <2>2. Alive(q)
        BY <1>1, <1>3, <2>1 DEF Alive, Bound, Serving, Leaving
    <2> QED
        BY <1>3, <2>1, <2>2 DEF Apart
<1>4. OwnsPath'
    BY <1>1, <1>3 DEF OwnsPath, Bound, Serving, Leaving
<1> QED
    BY <1>2, <1>4

\* Every step keeps the path with the process that is alone.
LEMMA PathStep == PInv /\ [Next]_vars => PInv'
<1> SUFFICES ASSUME PInv, [Next]_vars PROVE Apart' /\ OwnsPath'
    BY TypeStep DEF PInv
<1>1. ASSUME NEW p \in Processes, Start(p) PROVE Apart' /\ OwnsPath'
    <2> USE <1>1 DEF PInv, TypeOK
    <2>1. /\ pc' = [pc EXCEPT ![p] = "socket"] /\ path' = path
          /\ \A q \in Processes : q # p /\ Alive(q) => shared'[q]
          /\ \A q \in Processes : shared[q] => shared'[q]
          /\ (\E q \in Processes : Alive(q)) => shared'[p]
        BY DEF Start, Go, sockets
    <2>2. ~Alive(p)
        BY DEF Start, Alive
    <2>3. Apart'
        BY <2>1, <2>2 DEF Apart, Alive
    <2>4. OwnsPath'
        BY <2>1 DEF OwnsPath, Bound, Serving, Leaving
    <2> QED
        BY <2>3, <2>4
<1>2. ASSUME NEW p \in Processes, Unlink(p) \/ Bind(p) PROVE Apart' /\ OwnsPath'
    <2> USE DEF PInv, TypeOK
    <2>1. Alive(p) /\ shared' = shared
        BY <1>2 DEF Unlink, Bind, Alive
    <2>2. \A q \in Processes : q # p /\ ~shared[q] => ~Alive(q)
        BY <2>1 DEF Apart
    <2>3. \A q \in Processes : q # p => pc'[q] = pc[q]
        BY <1>2 DEF Unlink, Bind, Go
    <2>4. Apart'
        BY <2>1, <2>3 DEF Apart, Alive
    <2>5. \/ pc'[p] = "bind" /\ path' = Unlinked
          \/ pc'[p] = "listen" /\ path' = p
        BY <1>2 DEF Unlink, Bind, Go
    <2>6. OwnsPath'
        BY <2>1, <2>2, <2>3, <2>5
        DEF OwnsPath, Alive, Bound, Serving, Leaving, Unlinked
    <2> QED
        BY <2>4, <2>6
<1>3. ASSUME NEW p \in Processes, OpenSocket(p) PROVE Apart' /\ OwnsPath'
    BY <1>3, GoKeepsPath
    DEF OpenSocket, sockets, Alive, Bound, Serving, Leaving
<1>4. ASSUME NEW p \in Processes,
             \/ Listen(p) \/ ListenTunnel(p) \/ OpenPipe(p) \/ TestRunning(p)
             \/ PollReturns(p) \/ Dispatch(p) \/ AcceptUnix(p) \/ AcceptFails(p)
             \/ AcceptTunnel(p) \/ ClosePipe(p) \/ ClearPipe(p)
             \/ CloseListeners(p) \/ LoopBreaks(p)
      PROVE  Apart' /\ OwnsPath'
    <2>1. pc[p] \in Bound /\ UNCHANGED <<path, shared>>
        BY <1>4
        DEF Listen, ListenTunnel, OpenPipe, TestRunning, PollReturns, Dispatch,
            AcceptUnix, AcceptFails, AcceptTunnel, LoopBreaks, ClosePipe,
            ClearPipe, CloseListeners, sockets, Bound, Serving, Leaving
    <2>2. \E stage \in Bound : Go(p, stage)
        BY <1>4
        DEF Listen, ListenTunnel, OpenPipe, TestRunning, PollReturns, Dispatch,
            AcceptUnix, AcceptFails, AcceptTunnel, LoopBreaks, ClosePipe,
            ClearPipe, CloseListeners, Again, Bound, Serving, Leaving
    <2>3. Alive(p) /\ "bind" \notin Bound
        BY <2>1 DEF Alive, Bound, Serving, Leaving
    <2> QED
        BY <2>1, <2>2, <2>3, GoKeepsPath
<1>5. ASSUME NEW p \in Processes,
             BindBusy(p) \/ StartFails(p) \/ Finish(p) \/ Crash(p)
      PROVE  Apart' /\ OwnsPath'
    <2>1. Over(p) /\ Alive(p) /\ path' \in {path, None} /\ shared' = shared
        BY <1>5
        DEF BindBusy, StartFails, Finish, Crash, Exit, ExitRemoving, Unlinked,
            Alive
    <2> QED
        BY <2>1, OverKeepsPath
<1>6. ASSUME NEW p \in Processes, NEW t \in Threads, on_signal(p, t)
      PROVE  Apart' /\ OwnsPath'
    <2>1. UNCHANGED <<path, shared>>
        BY <1>6 DEF on_signal, SetFlag, TestPipe, WriteByte, sockets
    <2>2. UNCHANGED pc \/ (pc[p] = "poll" /\ Go(p, "loop"))
        BY <1>6 DEF on_signal, SetFlag, TestPipe, WriteByte, Returned
    <2>3. CASE UNCHANGED pc
        BY <2>1, <2>3 DEF PInv, Apart, OwnsPath, Alive
    <2>4. CASE pc[p] = "poll" /\ Go(p, "loop")
        BY <2>1, <2>4, GoKeepsPath DEF Alive, Bound, Serving
    <2> QED
        BY <2>2, <2>3, <2>4
<1>7. CASE UNCHANGED <<pc, path, shared>>
    BY <1>7 DEF PInv, Apart, OwnsPath, Alive
<1>8. ASSUME NEW p \in Processes, NEW t \in Threads, Signal(p, t)
      PROVE  UNCHANGED <<pc, path, shared>>
    BY <1>8 DEF Signal, sockets
<1>9. ASSUME NEW c \in Clients, ConnectUnix(c) \/ ConnectTunnel(c)
      PROVE  UNCHANGED <<pc, path, shared>>
    BY <1>9 DEF ConnectUnix, ConnectTunnel
<1>10. UNCHANGED vars => UNCHANGED <<pc, path, shared>>
    BY DEF vars, sockets
<1> QED
    BY <1>1, <1>2, <1>3, <1>4, <1>5, <1>6, <1>7, <1>8, <1>9, <1>10
    DEF Next, Main, Failure, Clients

\* The invariant of the path holds in every reachable state.
LEMMA PathHolds == Spec => []PInv
<1>1. Init => PInv
    BY TypeInit, PathInit DEF PInv
<1> QED
    BY <1>1, PathStep, PTL DEF Spec

\* A process that was alone for all its life so far owns the path while it
\* serves (service.c:493-600).
THEOREM ServiceIsReachable == Spec => []Reachable
<1>1. PInv => Reachable
    BY DEF PInv, OwnsPath, Reachable, Bound
<1> QED
    BY PathHolds, <1>1, PTL

\* What a crash has left at the path never keeps a process that is alone from
\* starting, if the path fits sun_path (service.c:493-506).
THEOREM StartIsClear == PathFits /\ Spec => []StartsAfterCrash
<1>1. PathFits /\ PInv => StartsAfterCrash
    BY DEF PInv, OwnsPath, StartsAfterCrash
<1>2. SUFFICES ASSUME PathFits PROVE Spec => []StartsAfterCrash
    OBVIOUS
<1>3. PInv => StartsAfterCrash
    BY <1>1, <1>2
<1> QED
    BY PathHolds, <1>3, PTL
=============================================================================
