------------------------------ MODULE Registry ------------------------------
(***************************************************************************)
(* What the management component promises its clients about the stored     *)
(* connections: a durable registry with one request at a time.  A change   *)
(* takes effect once, all of it, at some point between the request and its *)
(* successful answer; a crash loses at most the change that had not taken  *)
(* effect; nothing else ever changes the registry.                         *)
(***************************************************************************)
CONSTANTS
    Entry,     \* the stored connections: [id, proto, target, used]
    Change,    \* the requests that change the registry
    Nil,       \* a field a request leaves empty
    None,      \* the request field while there is none
    Initial    \* the registries the service may start with

VARIABLES
    registry,  \* the set of stored connections
    status,    \* "idle", "working", "done" or "down"
    change     \* the change that is being made, or None

vars == <<registry, status, change>>

Keep(new, old) == IF new = Nil THEN old ELSE new

\* What a change makes of the registry.
Effect(c, reg) ==
    [add     |-> reg \cup {[id |-> c.id, proto |-> c.proto,
                            target |-> c.target, used |-> FALSE]},
     delete  |-> {e \in reg : e.id # c.id},
     update  |-> {IF e.id = c.id
                  THEN [e EXCEPT !.proto  = Keep(c.proto, @),
                                 !.target = Keep(c.target, @)]
                  ELSE e : e \in reg},
     connect |-> {IF e.id = c.id THEN [e EXCEPT !.used = TRUE] ELSE e :
                     e \in reg}][c.op]

Start(c) ==
    /\ status = "idle"
    /\ status' = "working"
    /\ change' = c
    /\ UNCHANGED registry

Commit ==
    /\ status = "working"
    /\ registry' = Effect(change, registry)
    /\ status' = "done"
    /\ UNCHANGED change

Answer ==
    /\ status = "done"
    /\ status' = "idle"
    /\ change' = None
    /\ UNCHANGED registry

Crash ==
    /\ status # "down"
    /\ status' = "down"
    /\ change' = None
    /\ UNCHANGED registry

Recover ==
    /\ status = "down"
    /\ status' = "idle"
    /\ UNCHANGED <<registry, change>>

Init == registry \in Initial /\ status = "down" /\ change = None

Next == (\E c \in Change : Start(c)) \/ Commit \/ Answer \/ Crash \/ Recover

Spec == Init /\ [][Next]_vars /\ WF_vars(Commit \/ Answer)
=============================================================================
