--------------------------- MODULE Dispatch_proofs ---------------------------
(* What Dispatch promises for any number of commands and HTTP requests, and  *)
(* for any patience of the command.                                          *)
EXTENDS Dispatch, TLAPS

-----------------------------------------------------------------------------
(* The invariant.                                                            *)

States == {"idle", "waiting", "done"}
Served == {"success", "fail"}

\* Every variable has its type, as a function or a sequence.
Typed ==
    /\ at \in [Caller -> States] /\ kind \in [Caller -> Kinds]
    /\ elapsed \in [Caller -> 0 .. Patience]
    /\ frame \subseteq Runs /\ inbox \in Seq(Caller)
    /\ reply \in [Caller -> Served \cup {Nil}]
    /\ seen \in [Caller -> Answers \cup {Nil}]
    /\ busy \in Caller \cup {Nil}

IInv == Typed /\ FrameIsLive

\* The invariant holds before anybody has asked for anything.
LEMMA InitIInv == Init => IInv
<1> SUFFICES ASSUME Init PROVE IInv
    OBVIOUS
<1> USE DispatchAssumption DEF DispatchAssumption, Init
<1>1. Typed
    <2>1. inbox \in Seq(Caller)
        OBVIOUS
    <2>2. elapsed \in [Caller -> 0 .. Patience]
        OBVIOUS
    <2>3. at \in [Caller -> States]
        BY DEF States
    <2> QED
        BY <2>1, <2>2, <2>3 DEF Typed
<1>2. FrameIsLive
    BY DEF FrameIsLive
<1> QED
    BY <1>1, <1>2 DEF IInv

-----------------------------------------------------------------------------
(* The steps.                                                                *)

\* A caller that is told something has no callback any more.
LEMMA TellIInv ==
    ASSUME IInv, NEW c \in Caller, NEW what \in Answers,
           Tell(c, what), frame' \in {frame, frame \ {c}},
           c \in frame => frame' = frame \ {c},
           UNCHANGED <<kind, elapsed, inbox, reply, busy>>
    PROVE  IInv'
<1> USE DispatchAssumption DEF DispatchAssumption, IInv, Tell
<1>1. Typed'
    BY DEF Typed, States
<1>2. FrameIsLive'
    BY DEF FrameIsLive, Typed, Caller
<1> QED
    BY <1>1, <1>2

\* An answer to the request in hand leaves the callbacks alone.
LEMMA AnswerIInv ==
    ASSUME IInv, busy # Nil, NEW what \in Served, Answer(what),
           UNCHANGED <<at, kind, elapsed, frame, inbox, seen>>
    PROVE  IInv'
<1> USE DispatchAssumption DEF DispatchAssumption, IInv, Answer
<1>1. Typed'
    BY DEF Typed, Served
<1>2. FrameIsLive'
    BY DEF FrameIsLive
<1> QED
    BY <1>1, <1>2

\* Every step keeps the invariant.
LEMMA NextIInv == IInv /\ [Next]_vars => IInv'
<1> SUFFICES ASSUME IInv, [Next]_vars PROVE IInv'
    OBVIOUS
<1> USE DEF IInv
<1>1. ASSUME NEW c \in Caller, Reject(c) PROVE IInv'
    <2>1. c \notin frame
        BY <1>1 DEF Reject, FrameIsLive
    <2> QED
        BY <1>1, <2>1, TellIInv DEF Reject, Answers
<1>2. ASSUME NEW c \in Caller, Post(c) PROVE IInv'
    <2>1. Typed'
        BY <1>2 DEF Post, Typed, States
    <2>2. FrameIsLive'
        BY <1>2 DEF Post, FrameIsLive, Typed
    <2> QED
        BY <2>1, <2>2
<1>3. ASSUME NEW c \in Caller, PostFails(c) PROVE IInv'
    <2>1. c \notin frame
        BY <1>3 DEF PostFails, FrameIsLive
    <2>2. CASE c \in Runs
        BY <1>3, <2>1, <2>2, TellIInv DEF PostFails, Answers
    <2>3. CASE c \notin Runs
        BY <1>3, <2>1, <2>3, TellIInv DEF PostFails, Answers
    <2> QED
        BY <2>2, <2>3
<1>4. ASSUME NEW c \in Caller, Respond(c) \/ Receive(c) PROVE IInv'
    <2>1. reply[c] \in Answers
        BY <1>4 DEF Respond, Receive, Typed, Served, Answers
    <2>2. CASE Respond(c)
        <3>1. c \notin frame
            BY <2>2, DispatchAssumption DEF Respond, Typed, DispatchAssumption
        <3> QED
            BY <2>1, <2>2, <3>1, TellIInv DEF Respond
    <2>3. CASE Receive(c)
        <3>1. PICK what \in Answers : Tell(c, what)
            BY <2>1, <2>3 DEF Receive, Answers
        <3> QED
            BY <2>3, <3>1, TellIInv DEF Receive
    <2> QED
        BY <1>4, <2>2, <2>3
<1>5. ASSUME NEW c \in Caller, Look(c) PROVE IInv'
    BY <1>5, DispatchAssumption
    DEF Look, Typed, FrameIsLive, DispatchAssumption
<1>6. ASSUME NEW c \in Caller, GiveUp(c) PROVE IInv'
    BY <1>6, TellIInv DEF GiveUp, Answers
<1>7. CASE Take
    BY <1>7 DEF Take, Typed, FrameIsLive
<1>8. CASE EmptyCommand
    BY <1>8, AnswerIInv DEF EmptyCommand, Served
<1>9. CASE Request
    BY <1>9, AnswerIInv DEF Request, Served
<1>10. CASE ManagementNull
    BY <1>10, AnswerIInv DEF ManagementNull, Served
<1>11. CASE UNCHANGED vars
    BY <1>11 DEF vars, Typed, FrameIsLive
<1> QED
    BY <1>1, <1>2, <1>3, <1>4, <1>5, <1>6, <1>7, <1>8, <1>9, <1>10, <1>11
    DEF Next, Wait, Handle

-----------------------------------------------------------------------------
(* The theorems.                                                             *)

\* The invariant holds in every reachable state.
LEMMA IInvHolds == Spec => []IInv
    BY InitIInv, NextIInv, PTL DEF Spec

\* Every variable keeps its type.
THEOREM TypeCorrect == Spec => []TypeOK
<1>1. ASSUME Typed PROVE TypeOK
    <2>1. ASSUME NEW c \in Caller
          PROVE  /\ at[c] \in {"idle", "waiting", "done"}
                 /\ kind[c] \in Kinds /\ elapsed[c] \in 0 .. Patience
                 /\ reply[c] \in Answers \cup {Nil}
                 /\ seen[c] \in Answers \cup {Nil}
        BY <1>1 DEF Typed, States, Served, Answers
    <2>2. ToSet(inbox) \subseteq Caller
        BY <1>1 DEF Typed, ToSet
    <2> QED
        BY <1>1, <2>1, <2>2 DEF Typed, TypeOK
<1>2. IInv => TypeOK
    BY <1>1 DEF IInv
<1> QED
    BY IInvHolds, <1>2, PTL

\* The bus never holds a pointer into send_ipc_and_wait after its return,
\* whenever the answer comes (main.c:188-216).
THEOREM CallbacksAreLive == Spec => []FrameIsLive
<1>1. IInv => FrameIsLive
    BY DEF IInv
<1> QED
    BY IInvHolds, <1>1, PTL
=============================================================================
