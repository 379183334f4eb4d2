------------------------------ MODULE Tickets -------------------------------
(***************************************************************************)
(* The tunnel tickets of guacamole.service (tunnel.c).  The IPC thread     *)
(* issues a ticket for a user and a stored connection; the client presents *)
(* it on a WebSocket request, on a thread of its own (tunnel_client), and  *)
(* is served if the ticket is on the list and has not expired.             *)
(*                                                                         *)
(* Each critical section of g_ticket_lock is one step.  What issue does    *)
(* outside the lock is a step before and a step after it: the expiry is    *)
(* computed before, and read again, for the reply, after.                  *)
(***************************************************************************)
EXTENDS Integers, FiniteSets

CONSTANTS
    Values,       \* the values random_hex can return
    Users,        \* users that ask for tickets
    Connections,  \* stored connections tickets are asked for
    Clients,      \* WebSocket requests, each with its thread
    Ttl,          \* ticket_ttl()
    MaxTime,      \* bound: the last value of the clock
    Nil           \* no ticket; text that is no ticket of ours

ASSUME TimeAssumption == Ttl \in 1..300 /\ MaxTime \in Nat

ASSUME NilAssumption ==
    Nil \notin Values /\ Nil \notin Users /\ Nil \notin Connections

VARIABLES
    now,       \* time(NULL)
    tickets,   \* g_tickets; its order does not matter
    issuing,   \* where guac_tunnel_ticket_issue is: "idle", "built", "listed"
    item,      \* the ticket it is issuing
    told,      \* the expiry reported with each value a client knows
    stopped,   \* guac_tunnel_cleanup has run
    asked,     \* history: what each value was issued for, and when
    client,    \* each request: "new", "served" or "refused"
    shown,     \* the value it presented
    granted,   \* the connection its ticket was for
    when       \* history: the time at which it presented it

ipc     == <<issuing, item>>
clients == <<client, shown, granted, when>>
vars    == <<now, tickets, ipc, told, stopped, asked, clients>>

Time     == 0..MaxTime
Expiries == 0..(MaxTime + Ttl)

Ticket ==
    [value : Values, user : Users, conn : Connections, expires : Expiries]

NoTicket == [value |-> Nil, user |-> Nil, conn |-> Nil, expires |-> 0]

\* Mutants: a ticket goes one second too late, or one too early.
PruneLate(list)  == {k \in list : k.expires >= now}
PruneEarly(list) == {k \in list : k.expires > now + 1}

\* prune_locked: a ticket lives up to, and not including, its expiry.
Prune(list) == {k \in list : k.expires > now}

\* Values are handed out once: 32 random bytes are taken never to repeat.
Minted == {a.value : a \in asked}

\* What the client knows: values are not guessed before they are told.
Known == DOMAIN told

-----------------------------------------------------------------------------

Tick ==
    /\ now < MaxTime
    /\ now' = now + 1
    /\ UNCHANGED <<tickets, ipc, told, stopped, asked, clients>>

\* Build the ticket, its expiry included.
Build(v, u, c) ==
    /\ issuing = "idle"
    /\ v \notin Minted
    /\ item' = [value |-> v, user |-> u, conn |-> c, expires |-> now + Ttl]
    /\ asked' = asked \cup {[value |-> v, user |-> u, conn |-> c, at |-> now]}
    /\ issuing' = "built"
    /\ UNCHANGED <<now, tickets, told, stopped, clients>>

\* Prune and insert, under the lock.
Insert ==
    /\ issuing = "built"
    /\ tickets' = Prune(tickets) \cup {item}
    /\ issuing' = "listed"
    /\ UNCHANGED <<now, item, told, stopped, asked, clients>>

\* Mutant: the expiry is worked out again for the reply.
AnswerRecomputes ==
    /\ issuing = "listed"
    /\ told' = [v \in Known \cup {item.value} |->
                  IF v = item.value THEN now + Ttl ELSE told[v]]
    /\ issuing' = "idle"
    /\ item' = NoTicket
    /\ UNCHANGED <<now, tickets, stopped, asked, clients>>

\* Read item->expires and reply.  The lock is free by now: if the ticket has
\* been pruned or cleaned up meanwhile its memory is, too, and holds anything.
Answer ==
    /\ issuing = "listed"
    /\ \E e \in IF item \in tickets THEN {item.expires} ELSE Expiries :
          told' = [v \in Known \cup {item.value} |->
                      IF v = item.value THEN e ELSE told[v]]
    /\ issuing' = "idle"
    /\ item' = NoTicket
    /\ UNCHANGED <<now, tickets, stopped, asked, clients>>

\* Mutant: the ticket stays on the list.
ServeKeepsTicket(w, v) ==
    /\ client[w] = "new"
    /\ \E k \in Prune(tickets) :
          /\ k.value = v
          /\ granted' = [granted EXCEPT ![w] = k.conn]
    /\ tickets' = Prune(tickets)
    /\ client' = [client EXCEPT ![w] = "served"]
    /\ shown' = [shown EXCEPT ![w] = v]
    /\ when' = [when EXCEPT ![w] = now]
    /\ UNCHANGED <<now, ipc, told, stopped, asked>>

\* guac_tunnel_ticket_consume finds the value and takes it off the list.
Serve(w, v) ==
    /\ client[w] = "new"
    /\ \E k \in Prune(tickets) :
          /\ k.value = v
          /\ tickets' = Prune(tickets) \ {k}
          /\ granted' = [granted EXCEPT ![w] = k.conn]
    /\ client' = [client EXCEPT ![w] = "served"]
    /\ shown' = [shown EXCEPT ![w] = v]
    /\ when' = [when EXCEPT ![w] = now]
    /\ UNCHANGED <<now, ipc, told, stopped, asked>>

\* It does not, and the request is answered 403.
Refuse(w, v) ==
    /\ client[w] = "new"
    /\ \A k \in Prune(tickets) : k.value # v
    /\ tickets' = Prune(tickets)
    /\ client' = [client EXCEPT ![w] = "refused"]
    /\ shown' = [shown EXCEPT ![w] = v]
    /\ when' = [when EXCEPT ![w] = now]
    /\ UNCHANGED <<now, ipc, told, stopped, asked, granted>>

\* guac_tunnel_cleanup, when the service stops; the threads still run.
Cleanup ==
    /\ ~stopped
    /\ stopped' = TRUE
    /\ tickets' = {}
    /\ UNCHANGED <<now, ipc, told, asked, clients>>

Init ==
    /\ now = 0
    /\ tickets = {}
    /\ issuing = "idle"
    /\ item = NoTicket
    /\ told = [v \in {} |-> 0]
    /\ stopped = FALSE
    /\ asked = {}
    /\ client  = [w \in Clients |-> "new"]
    /\ shown   = [w \in Clients |-> Nil]
    /\ granted = [w \in Clients |-> Nil]
    /\ when    = [w \in Clients |-> 0]

Next ==
    \/ Tick
    \/ \E v \in Values, u \in Users, c \in Connections : Build(v, u, c)
    \/ Insert
    \/ Answer
    \/ \E w \in Clients, v \in Known \cup {Nil} : Serve(w, v) \/ Refuse(w, v)
    \/ Cleanup

Spec == Init /\ [][Next]_vars

-----------------------------------------------------------------------------
(* Properties.                                                             *)

TypeOK ==
    /\ now \in Time
    /\ tickets \subseteq Ticket
    /\ issuing \in {"idle", "built", "listed"}
    /\ item \in Ticket \cup {NoTicket}
    /\ issuing # "idle" => item \in Ticket
    /\ DOMAIN told \subseteq Values
    /\ \A v \in Known : told[v] \in Expiries
    /\ stopped \in BOOLEAN
    /\ asked \subseteq
          [value : Values, user : Users, conn : Connections, at : Time]
    /\ client \in [Clients -> {"new", "served", "refused"}]
    /\ shown \in [Clients -> Values \cup {Nil}]
    /\ granted \in [Clients -> Connections \cup {Nil}]
    /\ when \in [Clients -> Time]

Served(w) == client[w] = "served"

\* Two requests are never served with the same ticket, however their threads,
\* the issue of other tickets and the pruning interleave.
SingleUse ==
    \A w, x \in Clients : Served(w) /\ Served(x) /\ shown[w] = shown[x] => w = x

\* A request is served only with a ticket that was asked for, for the very
\* connection it was asked for, and before it is Ttl old.
GrantAsIssued ==
    \A w \in Clients : Served(w) =>
        \E a \in asked :
            a.value = shown[w] /\ a.conn = granted[w] /\ when[w] < a.at + Ttl

\* A request is refused for a reason: the ticket is none of ours, is Ttl old,
\* has been used, or the service is stopping.  Pruning on behalf of others
\* loses no ticket that is still good.
RefusedForAReason ==
    \A w \in Clients : client[w] = "refused" =>
        \/ shown[w] = Nil
        \/ \E a \in asked : a.value = shown[w] /\ when[w] >= a.at + Ttl
        \/ \E x \in Clients : Served(x) /\ shown[x] = shown[w]
        \/ stopped

\* A ticket that can still be used was reported with its own expiry: where the
\* reply reads one that was freed, its client has nothing left to present.
ListedAsTold ==
    \A k \in tickets : k.value \in Known => told[k.value] = k.expires
=============================================================================
