------------------------------ MODULE Gateway -------------------------------
(***************************************************************************)
(* The protocol side of guacamole.service (service.c) together with the    *)
(* management component: every client of the Guacamole protocol has a      *)
(* detached thread running connection_thread, and these threads read and   *)
(* mark the table of stored connections while the IPC thread changes it.   *)
(*                                                                         *)
(* guac_mgmt_find_connection searches under g_connections_lock and returns *)
(* a pointer into the table; what the thread does with that pointer it     *)
(* does without the lock.  The load of the store is the only critical      *)
(* section that takes several steps, so "the lock is free" is pc # "load". *)
(***************************************************************************)
EXTENDS Management

CONSTANT Threads     \* the protocol clients that may be connected at once

ASSUME ThreadsAssumption == Nil \notin Threads

VARIABLES
    at,        \* where a thread is in connection_thread
    selected,  \* the identifier its client selected, Nil for a protocol name
    slot,      \* the slot the pointer of find_connection points to, or 0
    plugin,    \* the protocol whose plugin it loaded
    copy,      \* t_stored_conn, its own copy of the record: the parameters
    moved      \* history: records moved or left the table since the lookup

local    == <<selected, slot, plugin, copy>>
threads  == <<at, local, moved>>
gvars    == <<vars, threads>>

Stages == {"free", "find", "load", "copy", "start", "user", "live", "ending"}

\* What the thread uses of the record it copies.
Copied(c) == [id |-> c.id, proto |-> c.proto, target |-> c.target]

NoCopy == Copied(Blank)

Copies == [id : Ids \cup {Nil}, proto : Protocols \cup {Nil},
           target : Targets \cup {Nil}]

Serving == pc # "down" /\ req.op # "boot"
LockFree == pc # "load"

Go(t, stage) == at' = [at EXCEPT ![t] = stage]

\* The thread ends and its client is gone.
Leave(t) ==
    /\ Go(t, "free")
    /\ selected' = [selected EXCEPT ![t] = Nil]
    /\ slot'     = [slot EXCEPT ![t] = 0]
    /\ plugin'   = [plugin EXCEPT ![t] = Nil]
    /\ copy'     = [copy EXCEPT ![t] = NoCopy]
    /\ moved'    = [moved EXCEPT ![t] = FALSE]

\* A client connects and selects a stored connection, "$" and an identifier.
SelectStored(t, id) ==
    /\ Serving
    /\ at[t] = "free"
    /\ Go(t, "find")
    /\ selected' = [selected EXCEPT ![t] = id]
    /\ UNCHANGED <<vars, slot, plugin, copy, moved>>

\* A client selects a protocol by its name: its own parameters are used.
SelectProtocol(t, p) ==
    /\ Serving
    /\ at[t] = "free"
    /\ p \in Supported
    /\ Go(t, "user")
    /\ plugin' = [plugin EXCEPT ![t] = p]
    /\ UNCHANGED <<vars, selected, slot, copy, moved>>

\* Mutant: the search goes on after the match and returns the last record.
FindLastRecord(t) ==
    /\ at[t] = "find"
    /\ LockFree
    /\ Known(selected[t])
    /\ slot' = [slot EXCEPT ![t] = connection_count]
    /\ Go(t, "load")
    /\ moved' = [moved EXCEPT ![t] = FALSE]
    /\ UNCHANGED <<vars, selected, plugin, copy>>

\* guac_mgmt_find_connection.
Find(t) ==
    /\ at[t] = "find"
    /\ LockFree
    /\ \E i \in 1..connection_count :
          /\ FoundAt(i, selected[t])
          /\ slot' = [slot EXCEPT ![t] = i]
    /\ Go(t, "load")
    /\ moved' = [moved EXCEPT ![t] = FALSE]
    /\ UNCHANGED <<vars, selected, plugin, copy>>

\* Mutant: the thread waits for the connection to appear.
NotFoundWaits(t) ==
    /\ at[t] = "find"
    /\ LockFree
    /\ ~Known(selected[t])
    /\ UNCHANGED gvars

\* There is no such connection: an error to the client, and the thread ends.
NotFound(t) ==
    /\ at[t] = "find"
    /\ LockFree
    /\ ~Known(selected[t])
    /\ Leave(t)
    /\ UNCHANGED vars

\* guac_client_load_plugin by the protocol the slot holds now.
LoadPlugin(t) ==
    /\ at[t] = "load"
    /\ connections[slot[t]].proto \in Supported
    /\ plugin' = [plugin EXCEPT ![t] = connections[slot[t]].proto]
    /\ Go(t, "copy")
    /\ UNCHANGED <<vars, selected, slot, copy, moved>>

\* There is no plugin of that name, or it does not load.
NoPlugin(t) ==
    /\ at[t] = "load"
    /\ Leave(t)
    /\ UNCHANGED vars

\* t_stored_conn = *conn, without the lock.
CopyRecord(t) ==
    /\ at[t] = "copy"
    /\ copy' = [copy EXCEPT ![t] = Copied(connections[slot[t]])]
    /\ Go(t, "start")
    /\ UNCHANGED <<vars, selected, slot, plugin, moved>>

\* A plausible bug: the mark writes the whole of the copied record back.
MarkStartWritesBack(t) ==
    /\ at[t] = "start"
    /\ LockFree
    /\ connections' = [connections EXCEPT ![slot[t]] =
                          [id |-> copy[t].id, proto |-> copy[t].proto,
                           target |-> copy[t].target,
                           active |-> TRUE, used |-> TRUE]]
    /\ slot' = [slot EXCEPT ![t] = 0]
    /\ Go(t, "user")
    /\ UNCHANGED <<connection_count, sessions, issued, files, work, pc, req>>
    /\ UNCHANGED <<selected, plugin, copy, moved>>

\* guac_mgmt_mark_session_start(conn->id, ""): the identifier is read through
\* the pointer, not from the copy.  It is the last use of the pointer.
MarkStart(t) ==
    /\ at[t] = "start"
    /\ LockFree
    /\ connections' = Activate(connections[slot[t]].id)
    /\ slot' = [slot EXCEPT ![t] = 0]
    /\ Go(t, "user")
    /\ UNCHANGED <<connection_count, sessions, issued, files, work, pc, req>>
    /\ UNCHANGED <<selected, plugin, copy, moved>>

\* guac_user_alloc, then guac_user_handle_connection starts.
StartUser(t) ==
    /\ at[t] = "user"
    /\ Go(t, "live")
    /\ UNCHANGED <<vars, local, moved>>

\* guac_user_alloc fails: the thread ends and marks nothing.
NoUser(t) ==
    /\ at[t] = "user"
    /\ Leave(t)
    /\ UNCHANGED vars

\* The client disconnects, or the remote desktop does.
Hangup(t) ==
    /\ at[t] = "live"
    /\ Go(t, "ending")
    /\ UNCHANGED <<vars, local, moved>>

\* guac_mgmt_mark_session_end of the identifier that was selected.
MarkEnd(t) ==
    /\ at[t] = "ending"
    /\ LockFree
    /\ connections' = SetActive(selected[t], FALSE)
    /\ Leave(t)
    /\ UNCHANGED <<connection_count, sessions, issued, files, work, pc, req>>

-----------------------------------------------------------------------------

\* What a field of a slot may read as while the slot is being rewritten: the
\* old or the new value, or nothing when a slot past the end is cleared first.
Seen(i, field) ==
    {connections[i][field], connections'[i][field]}
        \cup IF i > connection_count THEN {Blank[field]} ELSE {}

\* A delete or a reload shrinks the table under the pointers handed out.
NoteMoves ==
    moved' = [t \in Threads |->
                 moved[t] \/ connection_count' < connection_count]

\* A step of the IPC thread, no thread copying meanwhile.
HandlerStep ==
    /\ Receive \/ Continue
    /\ NoteMoves
    /\ UNCHANGED <<at, local>>

\* The same step while a thread copies the very slot it rewrites.
TornCopy(t) ==
    /\ at[t] = "copy"
    /\ Receive \/ Continue
    /\ connections'[slot[t]] # connections[slot[t]]
    /\ \E id \in Seen(slot[t], "id"), p \in Seen(slot[t], "proto"),
          h \in Seen(slot[t], "target") :
             copy' = [copy EXCEPT ![t] = [id |-> id, proto |-> p, target |-> h]]
    /\ Go(t, "start")
    /\ NoteMoves
    /\ UNCHANGED <<selected, slot, plugin>>

\* The process ends, with all its threads.
Exit ==
    /\ Crash
    /\ at'       = [t \in Threads |-> "free"]
    /\ selected' = [t \in Threads |-> Nil]
    /\ slot'     = [t \in Threads |-> 0]
    /\ plugin'   = [t \in Threads |-> Nil]
    /\ copy'     = [t \in Threads |-> NoCopy]
    /\ moved'    = [t \in Threads |-> FALSE]

Restart == Boot /\ UNCHANGED threads

GInit ==
    /\ Init
    /\ at       = [t \in Threads |-> "free"]
    /\ selected = [t \in Threads |-> Nil]
    /\ slot     = [t \in Threads |-> 0]
    /\ plugin   = [t \in Threads |-> Nil]
    /\ copy     = [t \in Threads |-> NoCopy]
    /\ moved    = [t \in Threads |-> FALSE]

\* A step the thread takes by itself: only a live client is not bound to move.
Advance(t) ==
    \/ Find(t) \/ NotFound(t) \/ LoadPlugin(t) \/ NoPlugin(t)
    \/ CopyRecord(t) \/ MarkStart(t) \/ StartUser(t) \/ NoUser(t) \/ MarkEnd(t)

ThreadStep(t) ==
    \/ \E id \in Ids : SelectStored(t, id)
    \/ \E p \in Protocols : SelectProtocol(t, p)
    \/ Advance(t)
    \/ TornCopy(t)
    \/ Hangup(t)

GNext ==
    \/ HandlerStep
    \/ \E t \in Threads : ThreadStep(t)
    \/ Exit
    \/ Restart

GSpec == GInit /\ [][GNext]_gvars

GFairness ==
    /\ WF_gvars(HandlerStep /\ Continue)
    /\ \A t \in Threads : WF_gvars(Advance(t))

GFairSpec == GSpec /\ GFairness

-----------------------------------------------------------------------------
(* Properties.                                                             *)

GTypeOK ==
    /\ TypeOK
    /\ at \in [Threads -> Stages]
    /\ selected \in [Threads -> Ids \cup {Nil}]
    /\ slot \in [Threads -> 0..MaxConnections]
    /\ plugin \in [Threads -> Supported \cup {Nil}]
    /\ copy \in [Threads -> Copies]
    /\ moved \in [Threads -> BOOLEAN]

\* Thread t serves its client with a copied record.
HasCopy(t) == at[t] \in {"start", "user", "live", "ending"} /\ selected[t] # Nil

\* A thread serves its client with the record of another connection only if a
\* delete or a reload came between its lookup and its copy.  The unlocked
\* pointer is otherwise harmless: adds, updates, connects and disconnects,
\* even while the record is being copied, leave each slot to its connection.
StaleCopyNeedsCompaction ==
    \A t \in Threads : HasCopy(t) /\ ~moved[t] => copy[t].id = selected[t]

\* A client is told "Connection not found" of a stored connection only while
\* a delete of it, or a reload of the whole table, is being handled.
RefusedViewerWasUnstored ==
    [][\A t \in Threads :
          NotFound(t) =>
             \/ \A e \in Entries(disk) : e.id # selected[t]
             \/ req.op = "reload"
             \/ req.op = "delete" /\ req.id = selected[t]]_gvars

\* With viewers coming and going, the store still holds the parameters of
\* every connection whenever no request is in progress.  (Their last_used is
\* another matter: a viewer sets it in the table and saves nothing.)
Parameters(e) == <<e.id, e.proto, e.target>>

ParametersDurable ==
    pc = "idle" =>
        {Parameters(e) : e \in Table} = {Parameters(e) : e \in Entries(disk)}

\* The registry of the parameters: its entries carry no mark, and a connect,
\* which sets nothing but the mark, is an update that gives no field.
Unmarked(e) ==
    [id |-> e.id, proto |-> e.proto, target |-> e.target, used |-> FALSE]

Unmarking(c) ==
    IF c.op = "connect" THEN Request("update", c.id, Nil, Nil, Nil) ELSE c

Parametric == INSTANCE Registry WITH
    Entry    <- Objects,
    Change   <- Changes,
    None     <- NoRequest,
    Initial  <- {{Unmarked(e) : e \in Entries(file)} : file \in InitialFiles},
    registry <- {Unmarked(e) : e \in Entries(disk)},
    status   <- registryStatus,
    change   <- Unmarking(registryChange)

\* Among any viewers the component is still the registry that Management
\* promises, but for last_used: each answered add, update or delete is one
\* change of the stored parameters, of the effect asked for, and a connect, a
\* disconnect or a viewer, wherever its unlocked reads and its marks fall,
\* changes none of them and undoes no change that another request makes.
ViewersKeepRegistry ==
    Parametric!Init /\ [][Parametric!Next]_(Parametric!vars)

\* A client that has selected something is served or turned away, unless
\* reloads keep the table locked for ever: no handler keeps the lock.
ViewersProgress ==
    <>[]LockFree =>
        \A t \in Threads :
            (at[t] \notin {"free", "live"}) ~> (at[t] \in {"free", "live"})

\* A viewer is connected to the stored host, with the stored credentials, of
\* the connection it selected.
InjectsSelected ==
    \A t \in Threads : HasCopy(t) => copy[t].id = selected[t]
=============================================================================
