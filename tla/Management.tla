----------------------------- MODULE Management -----------------------------
(***************************************************************************)
(* The management component of guacamole.service (management.c): the      *)
(* table of stored connections, the list of sessions, and the .info store *)
(* the table is saved to.                                                  *)
(*                                                                         *)
(* Requests arrive over IPC and a single pump thread dispatches them       *)
(* (service.c, ipc_pump_thread), so handlers never interleave with each    *)
(* other and one control variable suffices.  A handler is cut into the     *)
(* steps between which another thread, a crash or an I/O fault can be      *)
(* noticed: every critical section of g_connections_lock or of             *)
(* g_sessions_lock is one step, the loop that loads the store takes one    *)
(* step for each object, and a save is snapshot, open, write, rename.      *)
(***************************************************************************)
EXTENDS Integers, Sequences, FiniteSets

CONSTANTS
    MaxConnections,  \* MAX_CONNECTIONS, the slots of g_connections
    MaxSessions,     \* MAX_SESSIONS, the slots of g_sessions
    Ids,             \* connection identifiers generate_id can return
    SessionIds,      \* session identifiers generate_id can return
    Protocols,       \* protocol names a request or a file can hold
    Supported,       \* g_supported_protocols
    Probeless,       \* the protocols handle_connect does not probe: kubernetes
    Targets,         \* a stored host with the credentials that go with it
    Nil,             \* an empty string: a field that is absent
    Faults,          \* the I/O that may fail: "read", "save", "random"
    InitialFiles     \* what the .info store may hold when the service starts

Slots    == 1..MaxConnections
Objects  == [id : Ids, proto : Protocols \cup {Nil},
             target : Targets \cup {Nil}, used : BOOLEAN]

\* No two objects of a file share an identifier.
DistinctIds(file) ==
    \A i, j \in DOMAIN file : file[i].id = file[j].id => i = j

ASSUME LimitsAssumption ==
    MaxConnections \in Nat \ {0} /\ MaxSessions \in Nat \ {0}

ASSUME NamesAssumption ==
    /\ Nil \notin Ids \cup SessionIds \cup Protocols \cup Targets
    /\ Probeless \subseteq Supported /\ Supported \subseteq Protocols

\* A store this service wrote, or one edited by hand in which every object
\* kept an identifier of its own.  A missing store reads as an empty one.
ASSUME FilesAssumption ==
    \A file \in InitialFiles :
        /\ file \in Seq(Objects)
        /\ Len(file) <= MaxConnections
        /\ DistinctIds(file)

ASSUME FaultsAssumption == Faults \subseteq {"read", "save", "random"}

VARIABLES
    connections,       \* g_connections: every slot, the stale ones included
    connection_count,  \* g_connection_count
    sessions,          \* g_sessions[0 .. g_session_count - 1]
    issued,            \* every connection identifier handed out so far
    disk,              \* the .info store
    tmp,               \* the .info.tmp file beside it
    buf,               \* the buffer a save serialises into, or a load reads
    pos,               \* the next object of buf the load looks at
    pc,                \* where the IPC thread is in the handler it runs
    req                \* the request it handles

table    == <<connections, connection_count>>
files    == <<disk, tmp>>
work     == <<buf, pos>>
vars     == <<table, sessions, issued, files, work, pc, req>>

Blank == [id |-> Nil, proto |-> Nil, target |-> Nil,
          active |-> FALSE, used |-> FALSE]

Request(op, id, p, t, sid) ==
    [op |-> op, id |-> id, proto |-> p, target |-> t, sid |-> sid]

NoRequest == Request("none", Nil, Nil, Nil, Nil)

Records  == [id : Ids \cup {Nil}, proto : Protocols \cup {Nil},
             target : Targets \cup {Nil}, active : BOOLEAN, used : BOOLEAN]

Ops      == {"none", "add", "update", "delete", "connect", "disconnect",
             "reload", "boot"}

Requests == [op : Ops, id : Ids \cup {Nil}, proto : Protocols \cup {Nil},
             target : Targets \cup {Nil}, sid : SessionIds \cup {Nil}]

-----------------------------------------------------------------------------
(* Helpers.                                                                *)

\* What serialize_connection writes of a record: `active' is not saved.
Stored(c) ==
    [id |-> c.id, proto |-> c.proto, target |-> c.target, used |-> c.used]

\* What load_connections makes of an object: no session is live yet.
Loaded(o) ==
    [id |-> o.id, proto |-> o.proto, target |-> o.target,
     active |-> FALSE, used |-> o.used]

\* The load keeps an object only when it names a protocol and a host.
Complete(o) == o.proto # Nil /\ o.target # Nil

\* The connections a file holds, and those the table holds.
Entries(file) == {o \in {file[i] : i \in DOMAIN file} : Complete(o)}
Table         == {Stored(connections[i]) : i \in 1..connection_count}

\* Slot i is where a search of the table for an identifier stops.
FoundAt(i, id) ==
    /\ connections[i].id = id
    /\ \A j \in 1..(i - 1) : connections[j].id # id

\* Mutant: the search stops one short of the last record.
KnownButLast(id) ==
    \E i \in 1..(connection_count - 1) : connections[i].id = id

Known(id) == \E i \in 1..connection_count : connections[i].id = id

\* Set flag `active' in the slot that holds an identifier, if one does.
SetActive(id, value) ==
    [i \in Slots |->
        IF i <= connection_count /\ FoundAt(i, id)
        THEN [connections[i] EXCEPT !.active = value] ELSE connections[i]]

\* The same with last_used, which only an activation sets.
Activate(id) ==
    [i \in Slots |->
        IF i <= connection_count /\ FoundAt(i, id)
        THEN [connections[i] EXCEPT !.active = TRUE, !.used = TRUE]
        ELSE connections[i]]

\* Remove element k of a list by moving the last one into its place.
SwapRemove(s, k) ==
    [j \in 1..(Len(s) - 1) |-> IF j = k THEN s[Len(s)] ELSE s[j]]

\* generate_id: sixteen random bytes, which repeat none of those given before;
\* without /dev/urandom they follow from the second and the process, and may
\* be those of any earlier identifier.
Generates(id, earlier) == id \notin earlier \/ "random" \in Faults

-----------------------------------------------------------------------------
(* Requests that change the table, up to the save that follows.            *)

\* handle_add_connection: validate, take the next slot, save.
Add(id, p, t) ==
    /\ pc = "idle"
    /\ p \in Supported
    /\ t # Nil
    /\ connection_count < MaxConnections
    /\ Generates(id, issued)
    /\ connections' = [connections EXCEPT ![connection_count + 1] =
                          [id |-> id, proto |-> p, target |-> t,
                           active |-> FALSE, used |-> FALSE]]
    /\ connection_count' = connection_count + 1
    /\ issued' = issued \cup {id}
    /\ pc' = "snapshot"
    /\ req' = Request("add", id, p, t, Nil)
    /\ UNCHANGED <<sessions, files, work>>

AddRejected(p, t) ==
    /\ pc = "idle"
    /\ \/ p \notin Supported
       \/ t = Nil
       \/ connection_count >= MaxConnections
    /\ pc' = "fail"
    /\ req' = NoRequest
    /\ UNCHANGED <<table, sessions, issued, files, work>>

\* Mutant: an update that answers without saving.
UpdateUnsaved(id, p, t) ==
    /\ pc = "idle"
    /\ \E i \in 1..connection_count :
          /\ FoundAt(i, id)
          /\ connections' = [connections EXCEPT
                ![i].proto  = IF p = Nil THEN @ ELSE p,
                ![i].target = IF t = Nil THEN @ ELSE t]
    /\ pc' = "ok"
    /\ req' = Request("update", id, p, t, Nil)
    /\ UNCHANGED <<connection_count, sessions, issued, files, work>>

\* handle_update_connection: a field the request leaves empty keeps its value,
\* and the protocol is not checked against the supported ones.
Update(id, p, t) ==
    /\ pc = "idle"
    /\ \E i \in 1..connection_count :
          /\ FoundAt(i, id)
          /\ connections' = [connections EXCEPT
                ![i].proto  = IF p = Nil THEN @ ELSE p,
                ![i].target = IF t = Nil THEN @ ELSE t]
    /\ pc' = "snapshot"
    /\ req' = Request("update", id, p, t, Nil)
    /\ UNCHANGED <<connection_count, sessions, issued, files, work>>

\* Mutant: the last record is moved and still counted.
DeleteKeepsCount(id) ==
    /\ pc = "idle"
    /\ \E i \in 1..connection_count :
          /\ FoundAt(i, id)
          /\ connections' =
                [connections EXCEPT ![i] = connections[connection_count]]
    /\ pc' = "snapshot"
    /\ req' = Request("delete", id, Nil, Nil, Nil)
    /\ UNCHANGED <<connection_count, sessions, issued, files, work>>

\* Mutant: a delete that answers without saving.
DeleteUnsaved(id) ==
    /\ pc = "idle"
    /\ \E i \in 1..connection_count :
          /\ FoundAt(i, id)
          /\ connections' =
                [connections EXCEPT ![i] = connections[connection_count]]
    /\ connection_count' = connection_count - 1
    /\ pc' = "ok"
    /\ req' = Request("delete", id, Nil, Nil, Nil)
    /\ UNCHANGED <<sessions, issued, files, work>>

\* handle_delete_connection: the last record takes the place of the deleted
\* one, and stays behind in the slot it leaves.
Delete(id) ==
    /\ pc = "idle"
    /\ \E i \in 1..connection_count :
          /\ FoundAt(i, id)
          /\ connections' =
                [connections EXCEPT ![i] = connections[connection_count]]
    /\ connection_count' = connection_count - 1
    /\ pc' = "snapshot"
    /\ req' = Request("delete", id, Nil, Nil, Nil)
    /\ UNCHANGED <<sessions, issued, files, work>>

\* Update, delete and connect answer "Connection not found".
UnknownConnection(id) ==
    /\ pc = "idle"
    /\ ~Known(id)
    /\ pc' = "fail"
    /\ req' = NoRequest
    /\ UNCHANGED <<table, sessions, issued, files, work>>

-----------------------------------------------------------------------------
(* Sessions.                                                               *)

\* handle_connect, up to the snapshot of the target.
ConnectLookup(id) ==
    /\ pc = "idle"
    /\ \E i \in 1..connection_count :
          /\ FoundAt(i, id)
          /\ pc' = IF connections[i].proto \in Probeless
                   THEN "mark" ELSE "probe"
    /\ req' = Request("connect", id, Nil, Nil, Nil)
    /\ UNCHANGED <<table, sessions, issued, files, work>>

\* tcp_reachable answers either way.
Probe ==
    /\ pc = "probe"
    /\ \/ pc' = "mark" /\ req' = req
       \/ pc' = "fail" /\ req' = NoRequest
    /\ UNCHANGED <<table, sessions, issued, files, work>>

\* Mark the connection, if it is still there, active and used.
Mark ==
    /\ pc = "mark"
    /\ connections' = Activate(req.id)
    /\ pc' = "register"
    /\ UNCHANGED <<connection_count, sessions, issued, files, work, req>>

\* Mutant: no test for a full list.
RegisterUnbounded(sid) ==
    /\ pc = "register"
    /\ Generates(sid, {sessions[k].id : k \in DOMAIN sessions})
    /\ sessions' = Append(sessions, [id |-> sid, conn |-> req.id])
    /\ pc' = "snapshot"
    /\ req' = [req EXCEPT !.sid = sid]
    /\ UNCHANGED <<table, issued, files, work>>

\* Append the session; a full list drops it, and the request goes on.
Register(sid) ==
    /\ pc = "register"
    /\ Generates(sid, {sessions[k].id : k \in DOMAIN sessions})
    /\ sessions' = IF Len(sessions) < MaxSessions
                   THEN Append(sessions, [id |-> sid, conn |-> req.id])
                   ELSE sessions
    /\ pc' = "snapshot"
    /\ req' = [req EXCEPT !.sid = sid]
    /\ UNCHANGED <<table, issued, files, work>>

\* handle_disconnect: the connection shows idle and the session is removed.
Disconnect(sid) ==
    /\ pc = "idle"
    /\ \E k \in DOMAIN sessions :
          /\ sessions[k].id = sid
          /\ \A l \in 1..(k - 1) : sessions[l].id # sid
          /\ connections' = SetActive(sessions[k].conn, FALSE)
          /\ sessions' = SwapRemove(sessions, k)
          /\ req' = Request("disconnect", sessions[k].conn, Nil, Nil, sid)
    /\ pc' = "ok"
    /\ UNCHANGED <<connection_count, issued, files, work>>

UnknownSession(sid) ==
    /\ pc = "idle"
    /\ \A k \in DOMAIN sessions : sessions[k].id # sid
    /\ pc' = "fail"
    /\ req' = NoRequest
    /\ UNCHANGED <<table, sessions, issued, files, work>>

-----------------------------------------------------------------------------
(* persist_connections.                                                    *)

\* Serialise the table under the lock.
SaveSnapshot ==
    /\ pc = "snapshot"
    /\ buf' = [i \in 1..connection_count |-> Stored(connections[i])]
    /\ pc' = "open"
    /\ UNCHANGED <<table, sessions, issued, files, pos, req>>

\* Mutant: the store itself is opened, and emptied, for writing.
SaveOpenInPlace ==
    /\ pc = "open"
    /\ disk' = <<>>
    /\ pc' = "write"
    /\ UNCHANGED <<table, sessions, issued, tmp, work, req>>

\* Open the temporary file, which empties it.
SaveOpen ==
    /\ pc = "open"
    /\ tmp' = <<>>
    /\ pc' = "write"
    /\ UNCHANGED <<table, sessions, issued, disk, work, req>>

SaveWrite ==
    /\ pc = "write"
    /\ tmp' = buf
    /\ pc' = "rename"
    /\ UNCHANGED <<table, sessions, issued, disk, work, req>>

\* Put the temporary file in the place of the store.
SaveRename ==
    /\ pc = "rename"
    /\ disk' = tmp
    /\ tmp' = <<>>
    /\ buf' = <<>>
    /\ pc' = "ok"
    /\ UNCHANGED <<table, sessions, issued, pos, req>>

\* malloc, open, write or rename fails: the save ends without a word, and a
\* short write removes the temporary file.
SaveFails ==
    /\ "save" \in Faults
    /\ pc \in {"snapshot", "open", "write", "rename"}
    /\ tmp' = IF pc = "write" THEN <<>> ELSE tmp
    /\ buf' = <<>>
    /\ pc' = "ok"
    /\ UNCHANGED <<table, sessions, issued, disk, pos, req>>

-----------------------------------------------------------------------------
(* load_connections, when the service starts and on a reload.              *)

\* Mutant: the table is emptied and not loaded again.
ReloadForgets ==
    /\ pc = "idle"
    /\ connection_count' = 0
    /\ pc' = "ok"
    /\ req' = Request("reload", Nil, Nil, Nil, Nil)
    /\ UNCHANGED <<connections, sessions, issued, files, work>>

\* handle_reload_connections: empty the table, then load.
Reload ==
    /\ pc = "idle"
    /\ connection_count' = 0
    /\ pc' = "read"
    /\ req' = Request("reload", Nil, Nil, Nil, Nil)
    /\ UNCHANGED <<connections, sessions, issued, files, work>>

\* The load returns: main goes on to serve requests, a reload answers its own.
LoadReturns ==
    \/ req.op = "boot"   /\ pc' = "idle" /\ req' = NoRequest
    \/ req.op = "reload" /\ pc' = "ok"   /\ req' = req

\* read_file_alloc reads the whole store.
ReadFile ==
    /\ pc = "read"
    /\ buf' = disk
    /\ pos' = 1
    /\ pc' = "load"
    /\ UNCHANGED <<table, sessions, issued, files, req>>

\* The store exists and cannot be read: the load returns at once.
ReadFails ==
    /\ pc = "read"
    /\ "read" \in Faults
    /\ LoadReturns
    /\ UNCHANGED <<table, sessions, issued, files, work>>

\* Mutant: an object that is not kept is looked at again.
LoadObjectAgain ==
    /\ pc = "load"
    /\ connection_count < MaxConnections
    /\ pos <= Len(buf)
    /\ connections' =
          [connections EXCEPT ![connection_count + 1] = Loaded(buf[pos])]
    /\ IF Complete(buf[pos])
       THEN connection_count' = connection_count + 1 /\ pos' = pos + 1
       ELSE UNCHANGED <<connection_count, pos>>
    /\ UNCHANGED <<sessions, issued, files, buf, pc, req>>

\* Fill the next slot from the next object; count it if it is complete.
LoadObject ==
    /\ pc = "load"
    /\ connection_count < MaxConnections
    /\ pos <= Len(buf)
    /\ connections' =
          [connections EXCEPT ![connection_count + 1] = Loaded(buf[pos])]
    /\ connection_count' = IF Complete(buf[pos]) THEN connection_count + 1
                                                 ELSE connection_count
    /\ pos' = pos + 1
    /\ UNCHANGED <<sessions, issued, files, buf, pc, req>>

LoadDone ==
    /\ pc = "load"
    /\ connection_count >= MaxConnections \/ pos > Len(buf)
    /\ buf' = <<>>
    /\ pos' = 1
    /\ LoadReturns
    /\ UNCHANGED <<table, sessions, issued, files>>

-----------------------------------------------------------------------------
(* Replies, and the process itself.                                        *)

\* The handler returns and ipc_handler writes the response.
Reply ==
    /\ pc \in {"ok", "fail"}
    /\ pc' = "idle"
    /\ req' = NoRequest
    /\ UNCHANGED <<table, sessions, issued, files, work>>

\* The process ends, at any step: the files stay as they are.
Crash ==
    /\ pc # "down"
    /\ connections' = [i \in Slots |-> Blank]
    /\ connection_count' = 0
    /\ sessions' = <<>>
    /\ buf' = <<>>
    /\ pos' = 1
    /\ pc' = "down"
    /\ req' = NoRequest
    /\ UNCHANGED <<issued, files>>

\* guac_mgmt_init: clear everything and load the store.
Boot ==
    /\ pc = "down"
    /\ connections' = [i \in Slots |-> Blank]
    /\ connection_count' = 0
    /\ sessions' = <<>>
    /\ pc' = "read"
    /\ req' = Request("boot", Nil, Nil, Nil, Nil)
    /\ UNCHANGED <<issued, files, work>>

Init ==
    /\ connections = [i \in Slots |-> Blank]
    /\ connection_count = 0
    /\ sessions = <<>>
    /\ disk \in InitialFiles
    /\ issued = {disk[i].id : i \in DOMAIN disk}
    /\ tmp = <<>>
    /\ buf = <<>>
    /\ pos = 1
    /\ pc = "down"
    /\ req = NoRequest

\* A request the pump thread takes from the mailbox.
Receive ==
    \/ \E id \in Ids, p \in Protocols, t \in Targets : Add(id, p, t)
    \/ \E p \in Protocols \cup {Nil}, t \in Targets \cup {Nil} :
          AddRejected(p, t)
    \/ \E id \in Ids, p \in Protocols \cup {Nil}, t \in Targets \cup {Nil} :
          Update(id, p, t)
    \/ \E id \in Ids : Delete(id)
    \/ \E id \in Ids : UnknownConnection(id)
    \/ \E id \in Ids : ConnectLookup(id)
    \/ \E sid \in SessionIds : Disconnect(sid)
    \/ \E sid \in SessionIds : UnknownSession(sid)
    \/ Reload

\* A step of the handler, or of the load in main, that is already running.
Continue ==
    \/ Probe
    \/ Mark
    \/ \E sid \in SessionIds : Register(sid)
    \/ SaveSnapshot \/ SaveOpen \/ SaveWrite \/ SaveRename \/ SaveFails
    \/ ReadFile \/ ReadFails \/ LoadObject \/ LoadDone
    \/ Reply

Next == Receive \/ Continue \/ Crash \/ Boot

Spec     == Init /\ [][Next]_vars
FairSpec == Spec /\ WF_vars(Continue)

-----------------------------------------------------------------------------
(* Properties.                                                             *)

\* Every variable has its type; a request is in progress exactly where the
\* handler code has one.
TypeOK ==
    /\ connections \in [Slots -> Records]
    /\ connection_count \in 0..MaxConnections
    /\ sessions \in Seq([id : SessionIds, conn : Ids])
    /\ Len(sessions) <= MaxSessions
    /\ issued \subseteq Ids
    /\ disk \in Seq(Objects) /\ tmp \in Seq(Objects) /\ buf \in Seq(Objects)
    /\ pos \in Nat \ {0}
    /\ pc \in {"down", "idle", "ok", "fail", "probe", "mark", "register",
               "snapshot", "open", "write", "rename", "read", "load"}
    /\ req \in Requests

\* No two stored connections share an identifier, whatever sequence of adds,
\* swapping deletes, failed or repeated loads and crashes came before, while
\* /dev/urandom can be read: every lookup of management.c stops at the first
\* match and relies on it.
UniqueIds ==
    \A i, j \in 1..connection_count :
        connections[i].id = connections[j].id => i = j

\* Whenever no request is in progress the store holds what the table holds,
\* so a restart at that point gives every connection back.  Without I/O
\* faults this is what "saved automatically" asks of each handler that
\* changes the table: it must have saved all of the change by its answer.
Durable == pc = "idle" => Table = Entries(disk)

\* Every change of the store puts the whole of the table in its place, whatever
\* I/O fails and wherever a crash cuts a save short: no reader, and no restart,
\* ever meets half of a save.
StoreChangesWhole == [][Entries(disk') = Table]_disk

\* A connection leaves the store only when a request to delete it does that,
\* never by a reload, by a load cut short, or by a crash during a save.  Where no
\* I/O fails it follows from KeepsRegistry, and is proved; a failed read of the
\* store (management.c:369) and the save after it break it.
SaveDropsOnlyDeleted ==
    [][\A e \in Entries(disk) :
          \/ \E f \in Entries(disk') : f.id = e.id
          \/ req.op = "delete" /\ req.id = e.id]_disk

\* The manual: List shows the active sessions.  A connect that succeeds names one
\* of them, and the comment above tcp_reachable calls it honest.
ConnectIsListed ==
    pc = "ok" /\ req.op = "connect" =>
        \E k \in DOMAIN sessions : sessions[k].id = req.sid

\* Every request is answered unless the process ends: in particular a load
\* always gets past the objects it does not keep.
RequestsFinish == (pc \notin {"idle", "down"}) ~> (pc \in {"idle", "down"})

-----------------------------------------------------------------------------
(* The refinement: the store is the registry, and a change is being made   *)
(* from the request to the answer of the four requests that end in a save. *)

Changing == {"add", "update", "delete", "connect"}

Changes == {r \in Requests : r.op \in Changing /\ r.id # Nil}

Saving == {"snapshot", "open", "write", "rename"}

registryStatus ==
    IF pc = "down" \/ req.op = "boot"        THEN "down"
    ELSE IF pc \in Saving                    THEN "working"
    ELSE IF pc = "ok" /\ req.op \in Changing THEN "done"
    ELSE "idle"

registryChange ==
    IF registryStatus \in {"working", "done"} THEN req ELSE NoRequest

Abstract == INSTANCE Registry WITH
    Entry    <- Objects,
    Change   <- Changes,
    None     <- NoRequest,
    Initial  <- {Entries(file) : file \in InitialFiles},
    registry <- Entries(disk),
    status   <- registryStatus,
    change   <- registryChange

\* The component keeps the promise Registry states: each successful answer
\* to add, update, delete or connect follows exactly one change of the store,
\* to exactly the effect asked for, and nothing else changes the store.
KeepsRegistry == Abstract!Spec
=============================================================================
