--------------------------- MODULE Gateway_proofs ---------------------------
(* Proofs about the client threads among the handlers, for any number of     *)
(* threads, any table size and any I/O faults.                               *)
EXTENDS Gateway, Management_proofs

USE DEF vars, table, files, work, threads, local, gvars

-----------------------------------------------------------------------------
(* The inductive invariant.                                                  *)

\* The stages at which a thread holds a pointer into the table.
Holding == {"load", "copy", "start"}

\* A thread points to a slot as long as it uses the pointer, and to nothing
\* else; without a client it has selected nothing.
Pointers ==
    \A t \in Threads :
        /\ at[t] \in Holding <=> slot[t] # 0
        /\ at[t] = "free" => selected[t] = Nil

\* Threads live and die with the process.
Processes == pc = "down" \/ req.op = "boot" => \A t \in Threads : at[t] = "free"

\* Unless records have moved, a pointer is to the connection it was looked up
\* for, in a slot that is in use.
Pointed(t) ==
    /\ slot[t] <= connection_count
    /\ connections[slot[t]].id = selected[t]

Steady ==
    \A t \in Threads : at[t] \in Holding /\ ~moved[t] => Pointed(t)

GInv == GTypeOK /\ Typed /\ Pointers /\ Processes /\ Steady
            /\ StaleCopyNeedsCompaction

-----------------------------------------------------------------------------
(* What the handlers do to the table.                                        *)

\* A slot in use keeps its connection through every step of a handler that
\* does not shrink the table, and identifiers in use are identifiers.
LEMMA HandlerKeepsIds ==
  ASSUME Typed, Receive \/ Continue
  PROVE  /\ \A i \in 1..connection_count' : connections'[i].id \in Ids
         /\ connection_count <= connection_count' =>
               \A i \in 1..connection_count :
                  connections'[i].id = connections[i].id
<1> USE LimitsAssumption, NamesAssumption
<1> DEFINE Named == \A i \in 1..connection_count' : connections'[i].id \in Ids
           Kept  == \A i \in 1..connection_count :
                       connections'[i].id = connections[i].id
<1>t. /\ connections \in [Slots -> Records]
      /\ connection_count \in 0..MaxConnections
      /\ \A i \in 1..connection_count : connections[i].id \in Ids
  BY DEF Typed, TypeOK
<1>u. ASSUME UNCHANGED table PROVE Named /\ Kept
  BY <1>t, <1>u
<1>f. ASSUME NEW id, NEW value,
             \/ connections' = SetActive(id, value)
             \/ connections' = Activate(id),
             connection_count' = connection_count
      PROVE  Named /\ Kept
  <2>1. ASSUME NEW i \in Slots PROVE connections'[i].id = connections[i].id
    <3>1. SetActive(id, value)[i].id = connections[i].id
      <4>1. Stored(SetActive(id, value)[i]) = Stored(connections[i])
        BY FlagsKeep DEF Typed
      <4>2. Stored(SetActive(id, value)[i]).id = Stored(connections[i]).id
        BY <4>1
      <4>3. QED
        BY <4>2 DEF Stored
    <3>2. Activate(id)[i].id = connections[i].id
      BY FlagsKeep DEF Typed
    <3>3. QED
      BY <1>f, <3>1, <3>2
  <2>2. QED
    BY <1>t, <1>f, <2>1 DEF Slots
<1>1. ASSUME NEW id \in Ids, NEW p \in Protocols, NEW t \in Targets,
             Add(id, p, t)
      PROVE  Named /\ Kept
  BY <1>t, <1>1 DEF Add, Slots
<1>2. ASSUME NEW id \in Ids, NEW p \in Protocols \cup {Nil},
             NEW t \in Targets \cup {Nil}, Update(id, p, t)
      PROVE  Named /\ Kept
  <2>1. PICK i \in 1..connection_count :
            connections' = [connections EXCEPT
              ![i].proto  = IF p = Nil THEN @ ELSE p,
              ![i].target = IF t = Nil THEN @ ELSE t]
    BY <1>2 DEF Update
  <2>2. \A j \in 1..connection_count : connections'[j].id = connections[j].id
    BY <1>t, <2>1 DEF Slots, Records
  <2>3. QED
    BY <1>t, <1>2, <2>2 DEF Update
<1>3. ASSUME NEW id \in Ids, Delete(id)
      PROVE  Named /\ (connection_count <= connection_count' => Kept)
  <2>1. connection_count' = connection_count - 1
    BY <1>3 DEF Delete
  <2>2. PICK i \in 1..connection_count :
            connections' = [connections EXCEPT ![i] = connections[connection_count]]
    BY <1>3 DEF Delete
  <2>3. QED
    BY <1>t, <2>1, <2>2 DEF Slots
<1>4. CASE Mark
  BY <1>4, <1>f DEF Mark
<1>5. ASSUME NEW sid \in SessionIds, Disconnect(sid)
      PROVE  Named /\ Kept
  BY <1>5, <1>f DEF Disconnect
<1>6. CASE Reload
  BY <1>t, <1>6 DEF Reload
<1>7. CASE LoadObject
  <2>1. pc = "load" /\ connection_count < MaxConnections
    BY <1>7 DEF LoadObject
  <2>2. buf[pos] \in Objects
    BY <1>7, SeqElement DEF LoadObject, Typed, TypeOK
  <2>3. Loaded(buf[pos]).id \in Ids
    BY <2>2 DEF Loaded, Objects
  <2>4. connections' = [connections EXCEPT ![connection_count + 1] = Loaded(buf[pos])]
    BY <1>7 DEF LoadObject
  <2>5. connection_count' \in {connection_count, connection_count + 1}
    BY <1>7 DEF LoadObject
  <2>6. QED
    BY <1>t, <2>1, <2>3, <2>4, <2>5 DEF Slots
<1>8. ASSUME Receive PROVE Named /\ (connection_count <= connection_count' => Kept)
  <2>1. ASSUME NEW p \in Protocols \cup {Nil}, NEW t \in Targets \cup {Nil},
               AddRejected(p, t)
        PROVE  UNCHANGED table
    BY <2>1 DEF AddRejected
  <2>2. ASSUME NEW id \in Ids, UnknownConnection(id) \/ ConnectLookup(id)
        PROVE  UNCHANGED table
    BY <2>2 DEF UnknownConnection, ConnectLookup
  <2>3. ASSUME NEW sid \in SessionIds, UnknownSession(sid)
        PROVE  UNCHANGED table
    BY <2>3 DEF UnknownSession
  <2>4. QED
    BY <1>8, <1>u, <1>1, <1>2, <1>3, <1>5, <1>6, <2>1, <2>2, <2>3, Zenon
       DEF Receive
<1>9. ASSUME Continue PROVE Named /\ (connection_count <= connection_count' => Kept)
  <2>1. ASSUME NEW sid \in SessionIds, Register(sid) PROVE UNCHANGED table
    BY <2>1 DEF Register
  <2>2. ASSUME Probe \/ SaveSnapshot \/ SaveOpen \/ SaveWrite \/ SaveRename
                 \/ SaveFails \/ ReadFile \/ ReadFails \/ LoadDone \/ Reply
        PROVE  UNCHANGED table
    BY <2>2 DEF Probe, SaveSnapshot, SaveOpen, SaveWrite, SaveRename, SaveFails,
                ReadFile, ReadFails, LoadDone, Reply
  <2>3. QED
    BY <1>9, <1>u, <1>4, <1>7, <2>1, <2>2, Zenon DEF Continue
<1>10. QED
  BY <1>8, <1>9

\* A handler is down or booting only after it was, and ends the boot once.
LEMMA HandlerServes ==
  ASSUME Typed, Receive \/ Continue, pc' = "down" \/ req'.op = "boot"
  PROVE  pc = "down" \/ req.op = "boot"
<1>1. ASSUME Receive PROVE FALSE
  <2>1. ASSUME NEW id, NEW p, NEW t, Add(id, p, t) \/ Update(id, p, t)
        PROVE  FALSE
    BY <2>1 DEF Add, Update, Request
  <2>2. ASSUME NEW id, Delete(id) \/ ConnectLookup(id)
        PROVE  FALSE
    BY <2>2 DEF Delete, ConnectLookup, Request
  <2>3. ASSUME NEW x, NEW y, \/ AddRejected(x, y)
                             \/ UnknownConnection(x) \/ UnknownSession(x)
        PROVE  FALSE
    BY <2>3 DEF AddRejected, UnknownConnection, UnknownSession, NoRequest,
                Request
  <2>4. ASSUME NEW sid, Disconnect(sid) PROVE FALSE
    BY <2>4 DEF Disconnect, Request
  <2>5. CASE Reload
    BY <2>5 DEF Reload, Request
  <2>6. QED
    BY <1>1, <2>1, <2>2, <2>3, <2>4, <2>5, Zenon DEF Receive
<1>2. ASSUME Continue PROVE pc = "down" \/ req.op = "boot"
  <2>1. req' \in {req, NoRequest} \/ \E sid \in SessionIds : req' = [req EXCEPT !.sid = sid]
    BY <1>2 DEF Continue, Probe, Mark, Register, SaveSnapshot, SaveOpen,
                SaveWrite, SaveRename, SaveFails, ReadFile, ReadFails,
                LoadObject, LoadDone, LoadReturns, Reply
  <2>2. pc' # "down"
    BY <1>2 DEF Continue, Probe, Mark, Register, SaveSnapshot, SaveOpen,
                SaveWrite, SaveRename, SaveFails, ReadFile, ReadFails,
                LoadObject, LoadDone, LoadReturns, Reply
  <2>3. req \in Requests
    BY DEF Typed, TypeOK
  <2>4. QED
    BY <2>1, <2>2, <2>3 DEF NoRequest, Request, Requests
<1>3. QED
  BY <1>1, <1>2

-----------------------------------------------------------------------------
(* The invariant is inductive.                                               *)

\* An empty copy is a copy, and so is what is copied of a record.
LEMMA CopyType ==
  /\ NoCopy \in Copies
  /\ \A c \in Records : Copied(c) \in Copies
  BY DEF NoCopy, Copied, Copies, Blank, Records

\* The invariant holds before the service has started.
LEMMA InitGInv == GInit => GInv
<1> SUFFICES ASSUME GInit PROVE GInv
  OBVIOUS
<1>1. TypeOK /\ Connecting /\ connection_count = 0
  BY TypeInit DEF GInit, Init
<1>2. Typed
  BY <1>1 DEF Typed
<1>3. GTypeOK
  <2>1. at \in [Threads -> Stages]
    BY DEF GInit, Stages
  <2>2. /\ selected \in [Threads -> Ids \cup {Nil}]
        /\ slot \in [Threads -> 0..MaxConnections]
        /\ plugin \in [Threads -> Supported \cup {Nil}]
    BY LimitsAssumption DEF GInit
  <2>3. copy \in [Threads -> Copies] /\ moved \in [Threads -> BOOLEAN]
    BY CopyType DEF GInit
  <2>4. QED
    BY <1>1, <2>1, <2>2, <2>3 DEF GTypeOK
<1>4. Pointers /\ Processes
  BY DEF GInit, Pointers, Processes, Holding
<1>5. Steady /\ StaleCopyNeedsCompaction
  BY DEF GInit, Steady, Holding, StaleCopyNeedsCompaction, HasCopy
<1>6. QED
  BY <1>2, <1>3, <1>4, <1>5 DEF GInv

\* A step of a handler, or of the load, keeps what the threads rely on.
LEMMA HandlerTyped ==
  ASSUME Typed, Receive \/ Continue
  PROVE  Typed'
<1>1. TypeOK' /\ Connecting'
  BY TypeReceive, TypeContinue
<1>2. QED
  BY <1>1, HandlerKeepsIds DEF Typed

\* A table that has not shrunk, in a step of a handler.
LEMMA HandlerSteady ==
  ASSUME GInv, Receive \/ Continue, NoteMoves, NEW t \in Threads,
         slot[t] # 0, ~moved'[t]
  PROVE  /\ ~moved[t] /\ slot[t] <= connection_count'
         /\ connections[slot[t]].id = selected[t]
         /\ connections'[slot[t]].id = selected[t]
<1>1. connection_count' \in 0..MaxConnections /\ connection_count \in 0..MaxConnections
  BY HandlerTyped DEF GInv, Typed, TypeOK
<1>2. ~moved[t] /\ connection_count <= connection_count'
  <2>1. ~(moved[t] \/ connection_count' < connection_count)
    BY Zenon DEF NoteMoves
  <2>2. QED
    BY <1>1, <2>1, LimitsAssumption
<1>3. Pointed(t) /\ slot[t] \in 1..connection_count
  <2>1. at[t] \in Holding /\ slot[t] \in 0..MaxConnections
    BY DEF GInv, Pointers, GTypeOK
  <2>2. Pointed(t)
    BY <1>2, <2>1 DEF GInv, Steady
  <2>3. QED
    BY <1>1, <2>1, <2>2, LimitsAssumption DEF Pointed
<1>4. QED
  BY <1>1, <1>2, <1>3, HandlerKeepsIds, LimitsAssumption DEF GInv, Pointed

\* A step of a handler, no thread copying meanwhile.
LEMMA HandlerInv == GInv /\ HandlerStep => GInv'
<1> SUFFICES ASSUME GInv, HandlerStep PROVE GInv'
  OBVIOUS
<1> USE DEF HandlerStep
<1>1. Typed'
  BY HandlerTyped DEF GInv
<1>2. GTypeOK'
  <2>1. moved' \in [Threads -> BOOLEAN]
    BY Zenon DEF NoteMoves, GInv, GTypeOK
  <2>2. QED
    BY <1>1, <2>1 DEF GInv, GTypeOK, Typed
<1>3. Pointers'
  BY DEF GInv, Pointers
<1>4. Processes'
  BY HandlerServes DEF GInv, Processes
<1>5. Steady'
  <2>1. ASSUME NEW t \in Threads, at'[t] \in Holding, ~moved'[t]
        PROVE  Pointed(t)'
    <3>1. slot[t] # 0
      BY <2>1 DEF GInv, Pointers
    <3>2. QED
      BY <2>1, <3>1, HandlerSteady DEF Pointed
  <2>2. QED
    BY <2>1 DEF Steady
<1>6. StaleCopyNeedsCompaction'
  BY DEF NoteMoves, GInv, StaleCopyNeedsCompaction, HasCopy
<1>7. QED
  BY <1>1, <1>2, <1>3, <1>4, <1>5, <1>6 DEF GInv

\* A step of a handler while a thread copies the slot it rewrites.
LEMMA TornCopyInv == ASSUME GInv, NEW t \in Threads, TornCopy(t) PROVE GInv'
<1> USE DEF TornCopy
<1>t. /\ at \in [Threads -> Stages]
      /\ slot \in [Threads -> 0..MaxConnections]
      /\ copy \in [Threads -> Copies]
      /\ at[t] = "copy"
      /\ connections \in [Slots -> Records]
      /\ at' = [at EXCEPT ![t] = "start"]
  BY DEF GInv, GTypeOK, TypeOK, Go
<1>i. slot[t] \in Slots
  <2>1. slot[t] # 0
    BY <1>t DEF GInv, Pointers, Holding
  <2>2. QED
    BY <1>t, <2>1, LimitsAssumption DEF Slots
<1>c. PICK id \in Seen(slot[t], "id"), p \in Seen(slot[t], "proto"),
           h \in Seen(slot[t], "target") :
        copy' = [copy EXCEPT ![t] = [id |-> id, proto |-> p, target |-> h]]
  OBVIOUS
<1>1. Typed'
  BY HandlerTyped DEF GInv
<1>2. GTypeOK'
  <2>1. moved' \in [Threads -> BOOLEAN]
    BY Zenon DEF NoteMoves, GInv, GTypeOK
  <2>2. at' \in [Threads -> Stages]
    BY <1>t DEF Stages
  <2>3. connections'[slot[t]] \in Records /\ connections[slot[t]] \in Records
    BY <1>1, <1>i DEF Typed, TypeOK, GInv
  <2>4. [id |-> id, proto |-> p, target |-> h] \in Copies
    BY <2>3 DEF Seen, Records, Copies, Blank
  <2>5. copy' \in [Threads -> Copies]
    BY <1>t, <1>c, <2>4
  <2>6. QED
    BY <1>1, <2>1, <2>2, <2>5 DEF GInv, GTypeOK, Typed
<1>3. Pointers'
  BY <1>t DEF GInv, Pointers, Holding
<1>4. Processes'
  BY <1>t, HandlerServes DEF GInv, Processes
<1>5. Steady'
  <2>1. ASSUME NEW u \in Threads, at'[u] \in Holding, ~moved'[u]
        PROVE  Pointed(u)'
    <3>1. slot[u] # 0
      BY <1>3, <2>1 DEF Pointers
    <3>2. QED
      BY <2>1, <3>1, HandlerSteady DEF Pointed
  <2>2. QED
    BY <2>1 DEF Steady
<1>6. StaleCopyNeedsCompaction'
  <2>1. ASSUME NEW u \in Threads, HasCopy(u)', ~moved'[u]
        PROVE  copy'[u].id = selected'[u]
    <3>1. CASE u # t
      <4>1. copy'[u] = copy[u] /\ HasCopy(u)
        BY <1>t, <1>c, <2>1, <3>1 DEF HasCopy
      <4>2. ~moved[u]
        BY <2>1, Zenon DEF NoteMoves
      <4>3. QED
        BY <4>1, <4>2 DEF GInv, StaleCopyNeedsCompaction
    <3>2. CASE u = t
      <4>0. slot[t] # 0 /\ ~moved'[t]
        BY <1>t, <2>1, <3>2 DEF GInv, Pointers, Holding
      <4>1. /\ connections[slot[t]].id = selected[t]
            /\ connections'[slot[t]].id = selected[t]
            /\ ~moved[t]
        BY <4>0, HandlerSteady
      <4>2. slot[t] <= connection_count
        BY <1>t, <4>1 DEF GInv, Steady, Pointed, Holding
      <4>3. ~(slot[t] > connection_count)
        BY <4>2, <1>t, LimitsAssumption DEF GInv, Typed, TypeOK
      <4>4. id = selected[t]
        BY <4>1, <4>3 DEF Seen
      <4>5. copy'[t].id = selected[t]
        BY <1>t, <1>c, <4>4
      <4>6. QED
        BY <3>2, <4>5
    <3>3. QED
      BY <3>1, <3>2
  <2>2. QED
    BY <2>1 DEF StaleCopyNeedsCompaction
<1>7. QED
  BY <1>1, <1>2, <1>3, <1>4, <1>5, <1>6 DEF GInv

\* What the invariant says of one thread.
Sound(t) ==
    /\ at[t] \in Holding <=> slot[t] # 0
    /\ at[t] = "free" => selected[t] = Nil
    /\ at[t] \in Holding /\ ~moved[t] => Pointed(t)
    /\ HasCopy(t) /\ ~moved[t] => copy[t].id = selected[t]

\* A step of one thread in a process that runs leaves the others as they are:
\* the invariant is kept if the thread keeps its own part of it.
LEMMA OwnStep ==
  ASSUME GInv, NEW t \in Threads, Typed', GTypeOK',
         Serving \/ at[t] # "free",
         UNCHANGED <<connection_count, pc, req>>,
         \A i \in 1..connection_count : connections'[i].id = connections[i].id,
         \A u \in Threads \ {t} :
            /\ at'[u] = at[u] /\ selected'[u] = selected[u]
            /\ slot'[u] = slot[u] /\ copy'[u] = copy[u] /\ moved'[u] = moved[u],
         Sound(t)'
  PROVE  GInv'
<1>t. slot \in [Threads -> 0..MaxConnections] /\ connection_count \in 0..MaxConnections
  BY DEF GInv, GTypeOK, TypeOK
<1>1. ASSUME NEW u \in Threads PROVE Sound(u)'
  <2>1. CASE u = t
    BY <2>1
  <2>2. CASE u # t
    <3>1. /\ at'[u] \in Holding <=> slot'[u] # 0
          /\ at'[u] = "free" => selected'[u] = Nil
      BY <2>2 DEF GInv, Pointers
    <3>2. ASSUME at'[u] \in Holding, ~moved'[u] PROVE Pointed(u)'
      <4>1. Pointed(u) /\ slot[u] # 0
        BY <2>2, <3>1, <3>2 DEF GInv, Steady
      <4>2. slot[u] \in 1..connection_count
        BY <1>t, <4>1, LimitsAssumption DEF Pointed
      <4>3. QED
        BY <2>2, <4>1, <4>2 DEF Pointed
    <3>3. HasCopy(u)' /\ ~moved'[u] => copy'[u].id = selected'[u]
      BY <2>2 DEF GInv, StaleCopyNeedsCompaction, HasCopy
    <3>4. QED
      BY <3>1, <3>2, <3>3 DEF Sound
  <2>3. QED
    BY <2>1, <2>2
<1>2. Pointers' /\ Steady' /\ StaleCopyNeedsCompaction'
  BY <1>1 DEF Sound, Pointers, Steady, StaleCopyNeedsCompaction
<1>3. Processes'
  BY DEF GInv, Processes, Serving
<1>4. QED
  BY <1>2, <1>3 DEF GInv

\* What a thread sees of its process, and the shape of the thread variables.
LEMMA Shapes ==
  ASSUME GInv
  PROVE  /\ Typed /\ TypeOK
         /\ at \in [Threads -> Stages] /\ selected \in [Threads -> Ids \cup {Nil}]
         /\ slot \in [Threads -> 0..MaxConnections]
         /\ plugin \in [Threads -> Supported \cup {Nil}]
         /\ copy \in [Threads -> Copies] /\ moved \in [Threads -> BOOLEAN]
         /\ connections \in [Slots -> Records]
         /\ connection_count \in 0..MaxConnections
         /\ \A t \in Threads : Sound(t)
<1>1. \A t \in Threads : Sound(t)
  BY DEF GInv, Pointers, Steady, StaleCopyNeedsCompaction, Sound
<1>2. QED
  BY <1>1 DEF GInv, GTypeOK, TypeOK

\* A client that goes, and the thread that served it.
LEMMA LeaveInv ==
  ASSUME GInv, NEW t \in Threads, at[t] # "free", Leave(t), Typed',
         UNCHANGED <<connection_count, pc, req>>,
         \A i \in 1..connection_count : connections'[i].id = connections[i].id
  PROVE  GInv'
<1> USE Shapes DEF Leave, Go
<1>1. GTypeOK'
  <2>1. at' \in [Threads -> Stages]
    BY DEF Stages
  <2>2. /\ selected' \in [Threads -> Ids \cup {Nil}]
        /\ slot' \in [Threads -> 0..MaxConnections]
        /\ plugin' \in [Threads -> Supported \cup {Nil}]
    BY LimitsAssumption
  <2>3. copy' \in [Threads -> Copies] /\ moved' \in [Threads -> BOOLEAN]
    BY CopyType
  <2>4. QED
    BY <2>1, <2>2, <2>3 DEF GTypeOK, Typed
<1>2. Sound(t)'
  BY DEF Sound, Holding, HasCopy
<1>3. QED
  BY <1>1, <1>2, OwnStep

\* A client connects and selects, and its thread gets a user for it.
LEMMA ClientInv ==
  ASSUME GInv, NEW t \in Threads,
         \/ \E id \in Ids : SelectStored(t, id)
         \/ \E p \in Protocols : SelectProtocol(t, p)
         \/ StartUser(t)
         \/ Hangup(t)
  PROVE  GInv'
<1> USE Shapes DEF Go
<1>1. ASSUME NEW id \in Ids, SelectStored(t, id) PROVE GInv'
  <2> USE <1>1 DEF SelectStored
  <2>1. GTypeOK' /\ Typed'
    BY DEF GTypeOK, Stages, Typed, TypeOK, Connecting
  <2>2. Sound(t)'
    BY DEF Sound, Holding, HasCopy
  <2>3. QED
    BY <2>1, <2>2, OwnStep
<1>2. ASSUME NEW p \in Protocols, SelectProtocol(t, p) PROVE GInv'
  <2> USE <1>2 DEF SelectProtocol
  <2>1. GTypeOK' /\ Typed'
    BY DEF GTypeOK, Stages, Typed, TypeOK, Connecting
  <2>2. Sound(t)'
    BY DEF Sound, Holding, HasCopy
  <2>3. QED
    BY <2>1, <2>2, OwnStep
<1>3. ASSUME StartUser(t) PROVE GInv'
  <2> USE <1>3 DEF StartUser
  <2>1. GTypeOK' /\ Typed'
    BY DEF GTypeOK, Stages, Typed, TypeOK, Connecting
  <2>2. Sound(t)'
    BY DEF Sound, Holding, HasCopy
  <2>3. QED
    BY <2>1, <2>2, OwnStep
<1>4. ASSUME Hangup(t) PROVE GInv'
  <2> USE <1>4 DEF Hangup
  <2>1. GTypeOK' /\ Typed'
    BY DEF GTypeOK, Stages, Typed, TypeOK, Connecting
  <2>2. Sound(t)'
    BY DEF Sound, Holding, HasCopy
  <2>3. QED
    BY <2>1, <2>2, OwnStep
<1>5. QED
  BY <1>1, <1>2, <1>3, <1>4, Zenon

\* A thread looks its connection up: the slot it gets holds that connection.
LEMMA FindInv == ASSUME GInv, NEW t \in Threads, Find(t) PROVE GInv'
<1> USE Shapes DEF Find, Go
<1>1. PICK i \in 1..connection_count :
        FoundAt(i, selected[t]) /\ slot' = [slot EXCEPT ![t] = i]
  OBVIOUS
<1>2. i \in 1..MaxConnections /\ connections[i].id = selected[t]
  BY <1>1, LimitsAssumption DEF FoundAt
<1>3. GTypeOK' /\ Typed'
  <2>1. slot' \in [Threads -> 0..MaxConnections]
    BY <1>1, <1>2, LimitsAssumption
  <2>2. at' \in [Threads -> Stages] /\ moved' \in [Threads -> BOOLEAN]
    BY DEF Stages
  <2>3. QED
    BY <2>1, <2>2 DEF GTypeOK, Typed, TypeOK, Connecting
<1>4. Sound(t)'
  BY <1>1, <1>2 DEF Sound, Holding, HasCopy, Pointed
<1>5. QED
  BY <1>3, <1>4, OwnStep

\* A thread loads the plugin, and copies the record, through its pointer.
LEMMA CopyInv ==
  ASSUME GInv, NEW t \in Threads, LoadPlugin(t) \/ CopyRecord(t)
  PROVE  GInv'
<1> USE Shapes DEF Go
<1>1. CASE LoadPlugin(t)
  <2> USE <1>1 DEF LoadPlugin
  <2>1. GTypeOK' /\ Typed'
    BY DEF GTypeOK, Stages, Typed, TypeOK, Connecting
  <2>2. Sound(t)'
    BY DEF Sound, Holding, HasCopy, Pointed
  <2>3. QED
    BY <2>1, <2>2, OwnStep
<1>2. CASE CopyRecord(t)
  <2> USE <1>2 DEF CopyRecord
  <2>1. slot[t] \in Slots
    BY LimitsAssumption DEF Sound, Holding, Slots
  <2>2. Copied(connections[slot[t]]) \in Copies
    BY <2>1, CopyType
  <2>3. GTypeOK' /\ Typed'
    BY <2>2 DEF GTypeOK, Stages, Typed, TypeOK, Connecting
  <2>4. Sound(t)'
    <3>1. ~moved[t] => copy'[t].id = selected[t]
      BY DEF Sound, Holding, Pointed, Copied
    <3>2. QED
      BY <3>1 DEF Sound, Holding, HasCopy, Pointed
  <2>5. QED
    BY <2>3, <2>4, OwnStep
<1>3. QED
  BY <1>1, <1>2

\* The marks a thread makes change no identifier.
LEMMA MarkInv ==
  ASSUME GInv, NEW t \in Threads, MarkStart(t) \/ MarkEnd(t)
  PROVE  GInv'
<1> USE Shapes DEF Go
<1>i. ASSUME NEW id, NEW value \in BOOLEAN,
             connections' \in {SetActive(id, value), Activate(id)},
             UNCHANGED <<connection_count, sessions, issued, files, work, pc, req>>
      PROVE  /\ Typed'
             /\ \A i \in 1..connection_count : connections'[i].id = connections[i].id
  <2>1. connections' \in [Slots -> Records]
    BY <1>i, FlagsType
  <2>2. \A i \in Slots : connections'[i].id = connections[i].id
    <3>1. ASSUME NEW i \in Slots PROVE connections'[i].id = connections[i].id
      <4>1. Stored(SetActive(id, value)[i]).id = Stored(connections[i]).id
        BY FlagsKeep
      <4>2. Activate(id)[i].id = connections[i].id
        BY FlagsKeep
      <4>3. QED
        BY <1>i, <4>1, <4>2 DEF Stored
    <3>2. QED
      BY <3>1
  <2>3. 1..connection_count \subseteq Slots
    BY LimitsAssumption DEF Slots
  <2>4. QED
    BY <1>i, <2>1, <2>2, <2>3 DEF Typed, TypeOK, Connecting
<1>1. CASE MarkStart(t)
  <2> USE <1>1 DEF MarkStart
  <2>1. /\ Typed'
        /\ \A i \in 1..connection_count : connections'[i].id = connections[i].id
    BY <1>i
  <2>2. GTypeOK'
    <3>1. slot' \in [Threads -> 0..MaxConnections]
      BY LimitsAssumption
    <3>2. QED
      BY <2>1, <3>1 DEF GTypeOK, Stages, Typed
  <2>3. Sound(t)'
    BY DEF Sound, Holding, HasCopy
  <2>4. QED
    BY <2>1, <2>2, <2>3, OwnStep
<1>2. CASE MarkEnd(t)
  <2> USE <1>2 DEF MarkEnd
  <2>1. /\ Typed'
        /\ \A i \in 1..connection_count : connections'[i].id = connections[i].id
    BY <1>i
  <2>2. QED
    BY <2>1, LeaveInv
<1>3. QED
  BY <1>1, <1>2

\* A thread that finds no connection, no plugin or no user just ends.
LEMMA RefusalInv ==
  ASSUME GInv, NEW t \in Threads, NotFound(t) \/ NoPlugin(t) \/ NoUser(t)
  PROVE  GInv'
<1>1. at[t] # "free" /\ Leave(t) /\ UNCHANGED vars
  BY DEF NotFound, NoPlugin, NoUser
<1>2. Typed'
  BY <1>1, Shapes DEF Typed, TypeOK, Connecting
<1>3. QED
  BY <1>1, <1>2, LeaveInv

\* The process ends, or starts again: no thread outlives it.
LEMMA ProcessInv == GInv /\ (Exit \/ Restart) => GInv'
<1> SUFFICES ASSUME GInv, Exit \/ Restart PROVE GInv'
  OBVIOUS
<1> USE Shapes
<1>1. Typed'
  <2>1. Next /\ connection_count' = 0
    BY DEF Exit, Restart, Crash, Boot, Next
  <2>2. TypeOK' /\ Connecting'
    BY <2>1, TypeStep
  <2>3. QED
    BY <2>1, <2>2 DEF Typed
<1>2. CASE Exit
  <2> USE <1>2 DEF Exit
  <2>1. GTypeOK'
    <3>1. at' \in [Threads -> Stages]
      BY DEF Stages
    <3>2. /\ selected' \in [Threads -> Ids \cup {Nil}]
          /\ slot' \in [Threads -> 0..MaxConnections]
          /\ plugin' \in [Threads -> Supported \cup {Nil}]
      BY LimitsAssumption
    <3>3. copy' \in [Threads -> Copies] /\ moved' \in [Threads -> BOOLEAN]
      BY CopyType
    <3>4. QED
      BY <1>1, <3>1, <3>2, <3>3 DEF GTypeOK, Typed
  <2>2. Pointers' /\ Processes' /\ Steady' /\ StaleCopyNeedsCompaction'
    BY DEF Pointers, Processes, Steady, StaleCopyNeedsCompaction, Holding, HasCopy
  <2>3. QED
    BY <1>1, <2>1, <2>2 DEF GInv
<1>3. CASE Restart
  <2> USE <1>3 DEF Restart
  <2>1. \A t \in Threads : at[t] = "free"
    BY DEF Boot, GInv, Processes
  <2>2. GTypeOK'
    BY <1>1 DEF GTypeOK, Typed
  <2>3. Pointers' /\ Processes'
    BY <2>1 DEF GInv, Pointers, Processes
  <2>4. Steady' /\ StaleCopyNeedsCompaction'
    BY <2>1 DEF GInv, Steady, StaleCopyNeedsCompaction, HasCopy, Holding
  <2>5. QED
    BY <1>1, <2>2, <2>3, <2>4 DEF GInv
<1>4. QED
  BY <1>2, <1>3

\* Every step of the composed system keeps the invariant.
LEMMA NextGInv == GInv /\ [GNext]_gvars => GInv'
<1> SUFFICES ASSUME GInv, [GNext]_gvars PROVE GInv'
  OBVIOUS
<1>1. CASE UNCHANGED gvars
  BY <1>1 DEF gvars, GInv, GTypeOK, Typed, TypeOK, Connecting, Pointers,
              Processes, Steady, Pointed, StaleCopyNeedsCompaction, HasCopy
<1>2. CASE HandlerStep
  BY <1>2, HandlerInv
<1>3. ASSUME NEW t \in Threads, ThreadStep(t) PROVE GInv'
  <2>1. ASSUME Advance(t) PROVE GInv'
    <3>1. CASE Find(t)
      BY <3>1, FindInv
    <3>2. CASE NotFound(t) \/ NoPlugin(t) \/ NoUser(t)
      BY <3>2, RefusalInv
    <3>3. CASE LoadPlugin(t) \/ CopyRecord(t)
      BY <3>3, CopyInv
    <3>4. CASE MarkStart(t) \/ MarkEnd(t)
      BY <3>4, MarkInv
    <3>5. CASE StartUser(t)
      BY <3>5, ClientInv
    <3>6. QED
      BY <2>1, <3>1, <3>2, <3>3, <3>4, <3>5 DEF Advance
  <2>2. QED
    BY <1>3, <2>1, ClientInv, TornCopyInv DEF ThreadStep
<1>4. CASE Exit \/ Restart
  BY <1>4, ProcessInv
<1>5. QED
  BY <1>1, <1>2, <1>3, <1>4, Zenon DEF GNext

\* The invariant holds in every behaviour.
LEMMA GInvHolds == GSpec => []GInv
<1>1. QED
  BY InitGInv, NextGInv, PTL DEF GSpec

-----------------------------------------------------------------------------
(* The theorems.                                                             *)

\* The threads and the table have the values the code gives them: a thread's
\* slot is a slot of g_connections, and what it copies, torn or not, is made
\* of what fields of that table can hold.
THEOREM GTypeCorrect == GSpec => []GTypeOK
<1>1. GInv => GTypeOK
  BY DEF GInv
<1>2. QED
  BY <1>1, GInvHolds, PTL

\* The pointer guac_mgmt_find_connection returns after it has unlocked the
\* table is harmless until a delete or a reload moves records: until then the
\* thread copies the parameters of the connection its client selected,
\* whatever adds, updates, connects and marks run meanwhile.
THEOREM StaleCopies == GSpec => []StaleCopyNeedsCompaction
<1>1. GInv => StaleCopyNeedsCompaction
  BY DEF GInv
<1>2. QED
  BY <1>1, GInvHolds, PTL
-----------------------------------------------------------------------------
(* The table among the marks of the threads, where no I/O fails.             *)

\* The parameters of a set of connections: their last_used left out.
ParametersIn(S) == {Parameters(e) : e \in S}

\* Where no request has changed the table since the last save or load.
SettledSteps == {"idle", "ok", "fail", "probe", "mark"}

\* A thread marks the table and saves nothing, so the store and the table
\* agree in the parameters only; nothing is marked while the load has the lock.
ParametersSettled ==
    /\ pc \in SettledSteps => ParametersIn(Table) = ParametersIn(Entries(disk))
    /\ pc = "load" => Table = LoadedSoFar

\* A save carries the parameters the table has now.
ParametersWriting ==
    /\ pc \in {"open", "write", "rename"} =>
          /\ Len(buf) = connection_count
          /\ \A i \in 1..connection_count :
                Parameters(buf[i]) = Parameters(connections[i])
    /\ pc = "rename" => tmp = buf

\* Until its save is in place a request has taken at most one stored
\* connection out of the table, the one it deletes.
Present ==
    pc \in {"register", "snapshot", "open", "write", "rename"} =>
        \A e \in Entries(disk) :
            Known(e.id) \/ (req.op = "delete" /\ req.id = e.id)

\* The store is read when the service starts and by a reload.
Reading == pc \in {"read", "load"} => req.op \in {"boot", "reload"}

StoredInv == ParametersSettled /\ ParametersWriting /\ Present /\ Reading

\* The step changes no more than flags of the table.
ParametersStay ==
    /\ connection_count' = connection_count
    /\ \A i \in 1..connection_count :
          Parameters(connections'[i]) = Parameters(connections[i])

\* The parameters the table holds, slot by slot.
LEMMA ParametersInTable ==
  ParametersIn(Table) = {Parameters(connections[i]) : i \in 1..connection_count}
<1>1. \A i \in 1..connection_count :
          Parameters(Stored(connections[i])) = Parameters(connections[i])
  BY DEF Parameters, Stored
<1>2. QED
  BY <1>1 DEF ParametersIn, Table

\* A mark leaves the parameters of every record alone.
LEMMA MarksKeepParameters ==
  ASSUME TypeOK, NEW id, NEW value,
         connections' \in {SetActive(id, value), Activate(id)},
         connection_count' = connection_count
  PROVE  ParametersStay
<1>1. 1..connection_count \subseteq Slots
  BY LimitsAssumption DEF TypeOK, Slots
<1>2. ASSUME NEW i \in Slots
      PROVE  Parameters(connections'[i]) = Parameters(connections[i])
  <2>1. Stored(SetActive(id, value)[i]) = Stored(connections[i])
    BY FlagsKeep
  <2>2. /\ Activate(id)[i].id = connections[i].id
        /\ Activate(id)[i].proto = connections[i].proto
        /\ Activate(id)[i].target = connections[i].target
    BY FlagsKeep
  <2>3. CASE connections' = SetActive(id, value)
    BY <2>1, <2>3 DEF Stored, Parameters
  <2>4. CASE connections' = Activate(id)
    BY <2>2, <2>4 DEF Parameters
  <2>5. QED
    BY <2>3, <2>4
<1>3. QED
  BY <1>1, <1>2 DEF ParametersStay

\* So what the table holds of parameters and identifiers stays.
LEMMA ParametersStayTable ==
  ASSUME ParametersStay
  PROVE  /\ ParametersIn(Table)' = ParametersIn(Table)
         /\ \A id : Known(id)' <=> Known(id)
<1>1. ParametersIn(Table)' = {Parameters(connections'[i]) : i \in 1..connection_count'}
  <2>1. \A i \in 1..connection_count' :
            Parameters(Stored(connections'[i])) = Parameters(connections'[i])
    BY DEF Parameters, Stored
  <2>2. QED
    BY <2>1 DEF ParametersIn, Table
<1>2. \A i \in 1..connection_count : connections'[i].id = connections[i].id
  BY DEF ParametersStay, Parameters
<1>3. QED
  BY <1>1, <1>2, ParametersInTable DEF ParametersStay, Known

\* Where the two agree, the table knows every stored connection.
LEMMA SettledKnown ==
  ASSUME ParametersSettled, pc \in SettledSteps, NEW e \in Entries(disk)
  PROVE  \E i \in 1..connection_count : connections[i].id = e.id
<1>1. Parameters(e) \in {Parameters(connections[i]) : i \in 1..connection_count}
  BY ParametersInTable DEF ParametersSettled, ParametersIn
<1>2. QED
  BY <1>1 DEF Parameters
\* The invariant holds before the service has started.
LEMMA InitStored == GInit => StoredInv
  BY DEF GInit, Init, StoredInv, ParametersSettled, ParametersWriting, Present,
         Reading, SettledSteps

\* A step of a thread marks the table, without the load at work, or touches
\* nothing of the management component.
LEMMA ThreadStored ==
  ASSUME StoredInv, ParametersStay, UNCHANGED <<files, work, pc, req>>,
         LockFree \/ connections' = connections
  PROVE  StoredInv'
<1>1. ParametersIn(Table)' = ParametersIn(Table) /\ \A id : Known(id)' <=> Known(id)
  BY ParametersStayTable
<1>2. ParametersSettled'
  <2>1. Entries(disk)' = Entries(disk)
    BY DEF Entries
  <2>2. pc' \in SettledSteps => ParametersIn(Table)' = ParametersIn(Entries(disk))'
    BY <1>1, <2>1 DEF StoredInv, ParametersSettled, ParametersIn
  <2>3. pc' = "load" => Table' = LoadedSoFar'
    BY DEF StoredInv, ParametersSettled, LockFree, ParametersStay, Table, LoadedSoFar
  <2>4. QED
    BY <2>2, <2>3 DEF ParametersSettled
<1>3. ParametersWriting'
  BY DEF StoredInv, ParametersWriting, ParametersStay
<1>4. Present'
  BY <1>1 DEF StoredInv, Present, Entries
<1>5. Reading'
  BY DEF StoredInv, Reading
<1>6. QED
  BY <1>2, <1>3, <1>4, <1>5 DEF StoredInv

\* A handler that fails, only looks, or only clears a flag leaves the two in
\* agreement.
LEMMA LookStored ==
  ASSUME StoredInv, ParametersStay, disk' = disk,
         pc \in SettledSteps, pc' \in SettledSteps
  PROVE  StoredInv'
<1>1. ParametersSettled'
  BY ParametersStayTable DEF StoredInv, ParametersSettled, ParametersIn,
     SettledSteps
<1>2. QED
  BY <1>1 DEF StoredInv, ParametersWriting, Present, Reading, SettledSteps

\* An add, an update or the mark of a connect, up to the save: what is stored
\* is still in the table.
LEMMA KeepStored ==
  ASSUME StoredInv, pc \in SettledSteps, pc' \in {"register", "snapshot"},
         disk' = disk, connection_count \in Nat, connection_count' \in Nat,
         connection_count <= connection_count',
         \A i \in 1..connection_count : connections'[i].id = connections[i].id
  PROVE  StoredInv'
<1>1. \A e \in Entries(disk) : Known(e.id)'
  <2>1. ASSUME NEW e \in Entries(disk) PROVE Known(e.id)'
    <3>1. PICK i \in 1..connection_count : connections[i].id = e.id
      BY SettledKnown DEF StoredInv
    <3>2. i \in 1..connection_count'
      BY <3>1
    <3>3. QED
      BY <3>1, <3>2 DEF Known
  <2>2. QED
    BY <2>1
<1>2. QED
  BY <1>1 DEF StoredInv, ParametersSettled, ParametersWriting, Present, Reading,
              SettledSteps, Entries

\* A delete takes one connection out of the table, and moves another.
LEMMA DeleteStored ==
  ASSUME TypeOK, StoredInv, NEW id \in Ids, Delete(id)
  PROVE  StoredInv'
<1>1. PICK k \in 1..connection_count :
          /\ FoundAt(k, id)
          /\ connections' = [connections EXCEPT ![k] = connections[connection_count]]
  BY DEF Delete
<1>2. /\ connection_count \in Nat /\ 1..connection_count \subseteq Slots
      /\ connection_count' = connection_count - 1
      /\ connections[k].id = id
  BY <1>1, LimitsAssumption DEF Delete, TypeOK, Slots, FoundAt
<1>3. req'.op = "delete" /\ req'.id = id
  BY DEF Delete, Request
<1>4. ASSUME NEW e \in Entries(disk), e.id # id PROVE Known(e.id)'
  <2>1. PICK i \in 1..connection_count : connections[i].id = e.id
    BY SettledKnown DEF StoredInv, Delete, SettledSteps
  <2>2. i # k
    BY <1>2, <1>4, <2>1
  <2>3. CASE i = connection_count
    <3>1. k \in 1..connection_count' /\ connections'[k] = connections[i]
      BY <1>1, <1>2, <2>2, <2>3 DEF TypeOK
    <3>2. QED
      BY <2>1, <3>1 DEF Known
  <2>4. CASE i # connection_count
    <3>1. i \in 1..connection_count' /\ connections'[i] = connections[i]
      BY <1>1, <1>2, <2>2, <2>4 DEF TypeOK
    <3>2. QED
      BY <2>1, <3>1 DEF Known
  <2>5. QED
    BY <2>3, <2>4
<1>5. QED
  BY <1>3, <1>4 DEF Delete, StoredInv, ParametersSettled, ParametersWriting,
     Present, Reading, SettledSteps, Entries

\* The save writes the parameters it took, and puts them in the store.
LEMMA SaveStored ==
  ASSUME Consistent, StoredInv,
         SaveSnapshot \/ SaveOpen \/ SaveWrite \/ SaveRename
  PROVE  StoredInv'
<1>1. UNCHANGED <<connections, connection_count, req>>
  BY DEF SaveSnapshot, SaveOpen, SaveWrite, SaveRename
<1>2. connection_count \in Nat
  BY LimitsAssumption DEF Consistent, TypeOK
<1>3. CASE SaveSnapshot
  <2>1. ParametersWriting'
    BY <1>1, <1>2, <1>3 DEF SaveSnapshot, ParametersWriting, Parameters, Stored
  <2>2. QED
    BY <1>1, <1>3, <2>1 DEF SaveSnapshot, StoredInv, ParametersSettled, Present,
       Reading, SettledSteps, Entries, Known
<1>4. CASE SaveOpen \/ SaveWrite
  BY <1>1, <1>4 DEF SaveOpen, SaveWrite, StoredInv, ParametersSettled,
     ParametersWriting, Present, Reading, SettledSteps, Entries, Known
<1>5. CASE SaveRename
  <2>1. /\ disk' = buf /\ DOMAIN buf = 1..connection_count
        /\ \A i \in 1..connection_count :
              Parameters(buf[i]) = Parameters(connections[i])
    <3>1. disk' = buf /\ Len(buf) = connection_count
      BY <1>5 DEF SaveRename, StoredInv, ParametersWriting
    <3>2. DOMAIN buf = 1..Len(buf)
      BY DEF Consistent, TypeOK
    <3>3. QED
      BY <1>5, <3>1, <3>2 DEF SaveRename, StoredInv, ParametersWriting
  <2>2. \A i \in 1..connection_count : Complete(buf[i])
    BY <2>1 DEF Consistent, SoundTable, Complete, Parameters
  <2>3. ParametersIn(Entries(buf)) = {Parameters(connections[i]) : i \in 1..connection_count}
    BY <2>1, <2>2 DEF Entries, ParametersIn
  <2>4. ParametersIn(Table)' = ParametersIn(Table)
    BY <1>1 DEF Table, ParametersIn
  <2>5. ParametersIn(Table)' = ParametersIn(Entries(disk))'
    <3>1. ParametersIn(Entries(disk'))
            = {Parameters(connections[i]) : i \in 1..connection_count}
      BY <2>1, <2>3
    <3>2. ParametersIn(Table)'
            = {Parameters(connections[i]) : i \in 1..connection_count}
      BY <2>4, ParametersInTable
    <3>3. QED
      BY <3>1, <3>2 DEF ParametersIn, Entries
  <2>6. QED
    BY <1>5, <2>5 DEF SaveRename, StoredInv, ParametersSettled,
       ParametersWriting, Present, Reading, SettledSteps
<1>6. QED
  BY <1>3, <1>4, <1>5

\* A load takes over what the store holds.
LEMMA LoadStored ==
  ASSUME Consistent, StoredInv, ReadFile \/ LoadObject \/ LoadDone
  PROVE  StoredInv'
<1>1. CASE ReadFile
  <2>1. Table' = {} /\ LoadedSoFar' = {}
    BY <1>1 DEF ReadFile, Consistent, Loading, Table, LoadedSoFar
  <2>2. QED
    BY <1>1, <2>1 DEF ReadFile, StoredInv, ParametersSettled, ParametersWriting,
       Present, Reading, SettledSteps
<1>2. CASE LoadObject
  <2>1. Table' = LoadedSoFar'
    BY <1>2, LoadObjectSettled DEF LoadObject, StoredInv, ParametersSettled
  <2>2. QED
    BY <1>2, <2>1 DEF LoadObject, StoredInv, ParametersSettled,
       ParametersWriting, Present, Reading, SettledSteps
<1>3. CASE LoadDone
  <2>1. Table' = Entries(disk')
    BY <1>3, LoadDoneSettled DEF LoadDone, StoredInv, ParametersSettled
  <2>2. ParametersIn(Table)' = ParametersIn(Entries(disk))'
    BY <2>1 DEF ParametersIn
  <2>3. pc' \in {"idle", "ok"}
    BY <1>3 DEF LoadDone, LoadReturns
  <2>4. QED
    BY <2>2, <2>3 DEF StoredInv, ParametersSettled, ParametersWriting,
       Present, Reading, SettledSteps
<1>4. QED
  BY <1>1, <1>2, <1>3
\* Every step of a handler, where no I/O fails.
LEMMA HandlerStored ==
  ASSUME Faults = {}, Consistent, StoredInv, Receive \/ Continue
  PROVE  StoredInv'
<1>t. /\ TypeOK /\ connection_count \in Nat /\ connection_count' \in Nat
      /\ connection_count \in 0..MaxConnections
  <2>1. TypeOK'
    BY HandlerTyped, ConsistentTyped DEF Typed
  <2>2. QED
    BY <2>1, LimitsAssumption DEF Consistent, TypeOK
<1>1. ASSUME NEW id \in Ids, NEW p \in Protocols, NEW t \in Targets,
             Add(id, p, t)
      PROVE  StoredInv'
  <2>1. \A i \in 1..connection_count : connections'[i].id = connections[i].id
    BY <1>t, <1>1, HandlerKeepsIds, ConsistentTyped DEF Add
  <2>2. QED
    BY <1>t, <1>1, <2>1, KeepStored DEF Add, SettledSteps
<1>2. ASSUME NEW id \in Ids, NEW p \in Protocols \cup {Nil},
             NEW t \in Targets \cup {Nil}, Update(id, p, t)
      PROVE  StoredInv'
  <2>1. \A i \in 1..connection_count : connections'[i].id = connections[i].id
    <3>1. connection_count' = connection_count
      BY <1>2 DEF Update
    <3>2. QED
      BY <1>t, <3>1, HandlerKeepsIds, ConsistentTyped
  <2>2. /\ pc \in SettledSteps /\ pc' = "snapshot" /\ disk' = disk
        /\ connection_count' = connection_count
    BY <1>2 DEF Update, SettledSteps
  <2>3. QED
    BY <1>t, <2>1, <2>2, KeepStored
<1>3. CASE Mark
  <2>1. \A i \in 1..connection_count : connections'[i].id = connections[i].id
    BY <1>t, <1>3, HandlerKeepsIds, ConsistentTyped DEF Mark
  <2>2. QED
    BY <1>t, <1>3, <2>1, KeepStored DEF Mark, SettledSteps
<1>4. ASSUME NEW sid \in SessionIds, Disconnect(sid) PROVE StoredInv'
  <2>1. PICK k \in DOMAIN sessions :
            connections' = SetActive(sessions[k].conn, FALSE)
    BY <1>4 DEF Disconnect
  <2>2. connection_count' = connection_count
    BY <1>4 DEF Disconnect
  <2>3. ParametersStay
    <3>1. ASSUME NEW id, NEW value \in BOOLEAN,
                 connections' = SetActive(id, value)
          PROVE  ParametersStay
      BY <1>t, <2>2, <3>1, MarksKeepParameters
    <3>2. QED
      BY <2>1, <3>1
  <2>4. QED
    BY <1>4, <2>3, LookStored DEF Disconnect, SettledSteps
<1>5. ASSUME \/ \E p \in Protocols \cup {Nil}, t \in Targets \cup {Nil} :
                   AddRejected(p, t)
             \/ \E id \in Ids : UnknownConnection(id) \/ ConnectLookup(id)
             \/ \E sid \in SessionIds : UnknownSession(sid)
             \/ Probe \/ Reply
      PROVE  StoredInv'
  <2>1. /\ UNCHANGED <<connections, connection_count, disk>>
        /\ pc \in SettledSteps /\ pc' \in SettledSteps
    BY <1>5 DEF AddRejected, UnknownConnection, ConnectLookup, UnknownSession,
                Probe, Reply, SettledSteps
  <2>2. ParametersStay
    BY <2>1 DEF ParametersStay
  <2>3. QED
    BY <2>1, <2>2, LookStored
<1>6. ASSUME NEW sid \in SessionIds, Register(sid) PROVE StoredInv'
  <2>1. req'.op = req.op /\ req'.id = req.id
    BY <1>6, <1>t DEF Register, TypeOK, Requests
  <2>2. QED
    BY <1>6, <2>1 DEF Register, StoredInv, ParametersSettled,
       ParametersWriting, Present, Reading, SettledSteps, Entries, Known
<1>7. CASE Reload
  BY <1>7 DEF Reload, Request, StoredInv, ParametersSettled, ParametersWriting,
     Present, Reading, SettledSteps
<1>8. ASSUME NEW id \in Ids, Delete(id) PROVE StoredInv'
  BY <1>8, <1>t, DeleteStored
<1>9. ~SaveFails /\ ~ReadFails
  BY DEF SaveFails, ReadFails
<1>10. ASSUME Receive PROVE StoredInv'
  BY <1>10, <1>1, <1>2, <1>4, <1>5, <1>7, <1>8, Zenon DEF Receive
<1>11. ASSUME Continue PROVE StoredInv'
  BY <1>11, <1>3, <1>5, <1>6, <1>9, SaveStored, LoadStored, Zenon DEF Continue
<1>12. QED
  BY <1>10, <1>11

\* A step of a thread by itself leaves the management component alone, or
\* marks the table while no load is at work.
LEMMA ThreadSteps ==
  ASSUME TypeOK, NEW t \in Threads, ThreadStep(t), ~TornCopy(t)
  PROVE  /\ ParametersStay /\ UNCHANGED <<sessions, issued, files, work, pc, req>>
         /\ connections' \in [Slots -> Records]
         /\ LockFree \/ connections' = connections
         /\ \A i \in Slots : /\ connections'[i].id = connections[i].id
                             /\ connections'[i].proto = connections[i].proto
                             /\ connections'[i].target = connections[i].target
<1>1. CASE UNCHANGED vars
  BY <1>1 DEF ParametersStay, TypeOK
<1>2. ASSUME NEW id, NEW value \in BOOLEAN, LockFree,
             connections' \in {SetActive(id, value), Activate(id)},
             UNCHANGED <<connection_count, sessions, issued, files, work, pc, req>>
      PROVE  /\ ParametersStay
             /\ connections' \in [Slots -> Records]
             /\ \A i \in Slots : /\ connections'[i].id = connections[i].id
                                 /\ connections'[i].proto = connections[i].proto
                                 /\ connections'[i].target = connections[i].target
  <2>1. ParametersStay
    BY <1>2, MarksKeepParameters
  <2>2. connections' \in [Slots -> Records]
    BY <1>2, FlagsType DEF TypeOK
  <2>3. ASSUME NEW i \in Slots
        PROVE  /\ connections'[i].id = connections[i].id
               /\ connections'[i].proto = connections[i].proto
               /\ connections'[i].target = connections[i].target
    <3>1. CASE connections' = SetActive(id, value)
      <4>1. Stored(connections'[i]) = Stored(connections[i])
        BY <3>1, FlagsKeep
      <4>2. QED
        BY <4>1 DEF Stored
    <3>2. CASE connections' = Activate(id)
      BY <3>2, FlagsKeep
    <3>3. QED
      BY <1>2, <3>1, <3>2
  <2>4. QED
    BY <2>1, <2>2, <2>3
<1>3. CASE MarkStart(t)
  BY <1>3, <1>2 DEF MarkStart
<1>4. CASE MarkEnd(t)
  BY <1>4, <1>2 DEF MarkEnd
<1>5. UNCHANGED vars \/ MarkStart(t) \/ MarkEnd(t)
  BY DEF ThreadStep, SelectStored, SelectProtocol, Advance, Find, NotFound,
         LoadPlugin, NoPlugin, CopyRecord, StartUser, NoUser, Hangup
<1>6. QED
  BY <1>1, <1>3, <1>4, <1>5
\* Every step of the composed system keeps the table, the files and what is
\* stored of the table.
LEMMA NextStored ==
  ASSUME Faults = {}, Consistent, StoredInv, [GNext]_gvars
  PROVE  Consistent' /\ StoredInv'
<1>1. ASSUME Receive \/ Continue PROVE Consistent' /\ StoredInv'
  BY <1>1, HandlerStored, NextConsistent DEF Next
<1>2. ASSUME NEW t \in Threads, ThreadStep(t), ~TornCopy(t)
      PROVE  Consistent' /\ StoredInv'
  <2>1. TypeOK
    BY DEF Consistent
  <2>2. StoredInv'
    BY <1>2, <2>1, ThreadSteps, ThreadStored
  <2>3. connection_count' = connection_count
    BY <1>2, <2>1, ThreadSteps DEF ParametersStay
  <2>4. TypeOK' /\ Connecting'
    BY <1>2, <2>1, <2>3, ThreadSteps DEF Consistent, TypeOK, Connecting
  <2>5. SoundTable'
    BY <1>2, <2>1, <2>3, ThreadSteps, TableStays DEF Consistent
  <2>6. SoundFiles'
    BY <1>2, <2>1, ThreadSteps, FilesStay DEF Consistent
  <2>7. Loading'
    BY <1>2, <2>1, <2>3, ThreadSteps DEF Consistent, Loading, LockFree
  <2>8. QED
    BY <2>2, <2>4, <2>5, <2>6, <2>7 DEF Consistent
<1>3. CASE Exit \/ Restart
  <2>1. Consistent'
    BY <1>3, NextConsistent DEF Exit, Restart, Next
  <2>2. StoredInv'
    BY <1>3 DEF Exit, Restart, Crash, Boot, Request, StoredInv,
       ParametersSettled, ParametersWriting, Present, Reading, SettledSteps
  <2>3. QED
    BY <2>1, <2>2
<1>4. CASE UNCHANGED gvars
  <2>1. Consistent'
    BY <1>4, NextConsistent
  <2>2. ParametersStay
    BY <1>4 DEF ParametersStay
  <2>3. StoredInv'
    BY <1>4, <2>2, ThreadStored
  <2>4. QED
    BY <2>1, <2>3
<1>5. QED
  BY <1>1, <1>2, <1>3, <1>4, Zenon DEF GNext, HandlerStep, TornCopy

\* The invariant holds in every behaviour without I/O faults.
LEMMA StoredHolds ==
  ASSUME Faults = {}
  PROVE  GSpec => [](Consistent /\ StoredInv)
<1>1. GInit => Consistent /\ StoredInv
  BY InitIInv, IInvParts, InitStored DEF GInit
<1>2. Consistent /\ StoredInv /\ [GNext]_gvars => Consistent' /\ StoredInv'
  BY NextStored
<1>3. QED
  BY <1>1, <1>2, PTL DEF GSpec

\* Where no I/O fails, the store holds the parameters of exactly the
\* connections of the table whenever the service waits for a request: viewers
\* that mark the table while a request is saved, or while main or a reload is
\* about to load it, neither lose a connection nor bring one back.
THEOREM ParametersAreDurable ==
  ASSUME Faults = {}
  PROVE  GSpec => []ParametersDurable
<1>1. Consistent /\ StoredInv => ParametersDurable
  BY DEF StoredInv, ParametersSettled, SettledSteps, ParametersIn,
         ParametersDurable
<1>2. QED
  BY <1>1, StoredHolds, PTL

\* A viewer that looks a stored connection up is refused only while the
\* request that deletes it, or a reload of the table, is in progress: no add,
\* update, connect or disconnect, whichever connection it moves or marks, ever
\* hides one from guac_mgmt_find_connection.
THEOREM RefusedViewers ==
  ASSUME Faults = {}
  PROVE  GSpec => RefusedViewerWasUnstored
<1> DEFINE Refusal(t) ==
        \/ \A e \in Entries(disk) : e.id # selected[t]
        \/ req.op = "reload"
        \/ req.op = "delete" /\ req.id = selected[t]
<1>1. ASSUME GInv, Consistent, StoredInv, NEW t \in Threads, NotFound(t)
      PROVE  Refusal(t)
  <2>1. pc # "down" /\ req.op # "boot"
    BY <1>1 DEF GInv, Processes, NotFound
  <2>2. pc # "load" /\ ~Known(selected[t])
    BY <1>1 DEF NotFound, LockFree
  <2>3. CASE pc \in SettledSteps
    <3>1. \A e \in Entries(disk) : e.id # selected[t]
      BY <1>1, <2>2, <2>3, SettledKnown DEF StoredInv, Known
    <3>2. QED
      BY <3>1
  <2>4. CASE pc \in {"register", "snapshot", "open", "write", "rename"}
    BY <1>1, <2>2, <2>4 DEF StoredInv, Present
  <2>5. CASE pc = "read"
    BY <1>1, <2>1, <2>5 DEF StoredInv, Reading
  <2>6. QED
    BY <1>1, <2>1, <2>2, <2>3, <2>4, <2>5 DEF Consistent, TypeOK, SettledSteps
<1>2. GInv /\ Consistent /\ StoredInv /\ [GNext]_gvars =>
        [\A t \in Threads : NotFound(t) => Refusal(t)]_gvars
  BY <1>1
<1>3. QED
  BY <1>2, GInvHolds, StoredHolds, PTL DEF GSpec, RefusedViewerWasUnstored
-----------------------------------------------------------------------------
(* The registry among the viewers.                                           *)

Unmark(S) == {Unmarked(e) : e \in S}

\* Until its save is in place the table has the effect of the request that is
\* in progress, whatever a thread marks meanwhile.
TakenUnmarked ==
    pc \in Saving \cup {"register"} =>
        Unmark(Table) =
            Parametric!Effect(Unmarking(req), Unmark(Entries(disk)))

\* Connections that agree in their parameters differ in marks alone.
LEMMA SameUnmarked ==
  ASSUME NEW S, NEW T, ParametersIn(S) = ParametersIn(T)
  PROVE  Unmark(S) = Unmark(T)
<1> DEFINE bare(p) == [id |-> p[1], proto |-> p[2], target |-> p[3], used |-> FALSE]
<1>1. \A e : Unmarked(e) = bare(Parameters(e))
  BY DEF Unmarked, Parameters
<1>2. \A R : Unmark(R) = {bare(p) : p \in ParametersIn(R)}
  <2> HIDE DEF bare
  <2>1. QED
    BY <1>1 DEF Unmark, ParametersIn
<1>3. QED
  BY <1>2

\* What the table and the store hold are stored connections.
LEMMA TableType == Consistent => Table \subseteq Objects
<1>1. Consistent => Snapshot \in Seq(Objects) /\ connection_count \in Nat
  BY StoredType, ConsistentTyped, LimitsAssumption DEF Consistent, TypeOK
<1>2. QED
  BY <1>1, SeqElement DEF Snapshot, Table

\* Seen without marks, a request is a request of the same effect.
LEMMA EffectUnmarked ==
  ASSUME NEW c \in Requests, c.op \in Changing, NEW S \in SUBSET Objects
  PROVE  Unmark(Abstract!Effect(c, S)) =
            Parametric!Effect(Unmarking(c), Unmark(S))
<1>1. CASE c.op = "add"
  <2> DEFINE new == [id |-> c.id, proto |-> c.proto, target |-> c.target,
                     used |-> FALSE]
  <2>1. /\ Abstract!Effect(c, S) = S \cup {new}
        /\ Parametric!Effect(c, Unmark(S)) = Unmark(S) \cup {new}
    BY <1>1 DEF Abstract!Effect, Parametric!Effect
  <2>2. Unmarked(new) = new
    BY DEF Unmarked
  <2> HIDE DEF new
  <2>3. Unmark(S \cup {new}) = Unmark(S) \cup {new}
    BY <2>2 DEF Unmark
  <2>4. QED
    BY <1>1, <2>1, <2>3 DEF Unmarking
<1>2. CASE c.op = "delete"
  <2>1. /\ Abstract!Effect(c, S) = {e \in S : e.id # c.id}
        /\ Parametric!Effect(c, Unmark(S)) = {e \in Unmark(S) : e.id # c.id}
    BY <1>2 DEF Abstract!Effect, Parametric!Effect
  <2>2. \A e : Unmarked(e).id = e.id
    BY DEF Unmarked
  <2>3. Unmark({e \in S : e.id # c.id}) = {e \in Unmark(S) : e.id # c.id}
    BY <2>2 DEF Unmark
  <2>4. QED
    BY <1>2, <2>1, <2>3 DEF Unmarking
<1>3. CASE c.op = "update"
  <2> DEFINE new(e) == IF e.id = c.id
                       THEN [e EXCEPT !.proto  = Parametric!Keep(c.proto, @),
                                      !.target = Parametric!Keep(c.target, @)]
                       ELSE e
  <2>1. /\ Abstract!Effect(c, S) = {new(e) : e \in S}
        /\ Parametric!Effect(c, Unmark(S)) = {new(e) : e \in Unmark(S)}
    BY <1>3 DEF Abstract!Effect, Parametric!Effect, Abstract!Keep, Parametric!Keep
  <2>2. \A e \in S : Unmarked(new(e)) = new(Unmarked(e))
    BY DEF Unmarked, Objects
  <2> HIDE DEF new
  <2>3. Unmark({new(e) : e \in S}) = {new(e) : e \in Unmark(S)}
    BY <2>2 DEF Unmark
  <2>4. QED
    BY <1>3, <2>1, <2>3 DEF Unmarking
<1>4. CASE c.op = "connect"
  <2> DEFINE new(e) == IF e.id = c.id THEN [e EXCEPT !.used = TRUE] ELSE e
             upd(e) == IF e.id = c.id
                       THEN [e EXCEPT !.proto  = Parametric!Keep(Nil, @),
                                      !.target = Parametric!Keep(Nil, @)]
                       ELSE e
  <2>1. Abstract!Effect(c, S) = {new(e) : e \in S}
    BY <1>4 DEF Abstract!Effect
  <2>2. Parametric!Effect(Unmarking(c), Unmark(S)) = {upd(e) : e \in Unmark(S)}
    BY <1>4 DEF Parametric!Effect, Unmarking, Request
  <2>3. \A e \in S : Unmarked(new(e)) = upd(Unmarked(e))
    BY DEF Unmarked, Objects, Parametric!Keep
  <2> HIDE DEF new, upd
  <2>4. Unmark({new(e) : e \in S}) = {upd(e) : e \in Unmark(S)}
    BY <2>3 DEF Unmark
  <2>5. QED
    BY <2>1, <2>2, <2>4
<1>5. QED
  BY <1>1, <1>2, <1>3, <1>4 DEF Changing

\* A handler changes the table as its request says, and a mark is no part of it.
LEMMA HandlerTaken ==
  ASSUME Faults = {}, Consistent, StoredInv, Placed, TakenUnmarked, Next
  PROVE  TakenUnmarked'
<1> SUFFICES ASSUME pc' \in Saving \cup {"register"}
             PROVE  Unmark(Table') =
                      Parametric!Effect(Unmarking(req'), Unmark(Entries(disk)))
  BY ChangeSteps DEF TakenUnmarked, Unmark, Entries, Random
<1>1. CASE pc \in {"idle", "mark"} /\ Table' = Abstract!Effect(req', Table)
  <2>1. Unmark(Table) = Unmark(Entries(disk))
    BY <1>1, SameUnmarked DEF StoredInv, ParametersSettled, SettledSteps
  <2>2. req' \in Requests /\ req'.op \in Changing
    BY NextPlaced, NextConsistent
       DEF Placed, Consistent, TypeOK, Changes, Changing
  <2>3. Unmark(Table') = Parametric!Effect(Unmarking(req'), Unmark(Table))
    BY <1>1, <2>2, TableType, EffectUnmarked
  <2>4. QED
    BY <2>1, <2>3
<1>2. CASE pc \in Saving \cup {"register"} /\ UNCHANGED <<connections, connection_count>>
  <2>1. Table' = Table
    BY <1>2 DEF Table
  <2>2. Unmarking(req') = Unmarking(req)
    BY <1>2, ChangeSteps DEF Unmarking, Saving, Random
  <2>3. QED
    BY <1>2, <2>1, <2>2 DEF TakenUnmarked
<1>3. QED
  BY <1>1, <1>2, ChangeSteps DEF Random

\* A step that is no handler's leaves the request and the parameters alone.
LEMMA AsideTaken ==
  ASSUME TakenUnmarked, ParametersStay, UNCHANGED <<disk, pc, req>>
  PROVE  TakenUnmarked'
<1>1. ParametersIn(Table') = ParametersIn(Table)
  BY ParametersStayTable DEF ParametersIn
<1>2. Unmark(Table') = Unmark(Table)
  BY <1>1, SameUnmarked
<1>3. QED
  BY <1>2 DEF TakenUnmarked, Unmark, Entries

\* A thread that is not torn into a handler's step does not move the registry.
LEMMA ThreadAside ==
  ASSUME Consistent, NEW t \in Threads, ThreadStep(t), ~TornCopy(t)
  PROVE  ParametersStay /\ UNCHANGED <<disk, pc, req>>
  BY ThreadSteps DEF Consistent

\* Every step of the composed system keeps the effect of the request.
LEMMA NextTakenUnmarked ==
  ASSUME Faults = {}, Consistent, StoredInv, Placed, TakenUnmarked, [GNext]_gvars
  PROVE  Placed' /\ TakenUnmarked'
<1>1. CASE Next
  BY <1>1, NextPlaced, HandlerTaken
<1>2. CASE ParametersStay /\ UNCHANGED <<disk, pc, req>>
  BY <1>2, AsideTaken DEF Placed, Saving
<1>3. CASE UNCHANGED gvars
  BY <1>2, <1>3 DEF ParametersStay
<1>4. ASSUME NEW t \in Threads, ThreadStep(t)
      PROVE  Next \/ (ParametersStay /\ UNCHANGED <<disk, pc, req>>)
  BY <1>4, ThreadAside DEF TornCopy, Next
<1>5. QED
  BY <1>1, <1>2, <1>3, <1>4 DEF GNext, HandlerStep, Exit, Restart, Next

\* A step that shows in the registry is a step of the registry of parameters.
LEMMA VisibleParametric ==
  ASSUME Consistent, StoredInv', TakenUnmarked, Visible
  PROVE  [Parametric!Next]_(Parametric!vars)
<1>1. disk' = disk => Unmark(Entries(disk))' = Unmark(Entries(disk))
  BY DEF Entries, Unmark
<1>2. ASSUME SaveRename
      PROVE  Unmark(Entries(disk))' =
                Parametric!Effect(Unmarking(req), Unmark(Entries(disk)))
  <2>1. pc = "rename" /\ pc' = "ok" /\ Table' = Table
    BY <1>2 DEF SaveRename, Table
  <2>2. ParametersIn(Table') = ParametersIn(Entries(disk'))
    BY <2>1 DEF StoredInv, ParametersSettled, SettledSteps, ParametersIn, Entries
  <2>3. Unmark(Table) = Unmark(Entries(disk'))
    BY <2>1, <2>2, SameUnmarked
  <2>4. QED
    BY <2>1, <2>3 DEF TakenUnmarked, Saving, Unmark, Entries
<1>3. Unmarking(NoRequest) = NoRequest
  BY DEF Unmarking, NoRequest, Request
<1>4. req' \in Changes => Unmarking(req') \in Changes
  BY DEF Changes, Changing, Unmarking, Request, Requests, Ops
<1>5. QED
  BY <1>1, <1>2, <1>3, <1>4
     DEF Visible, Unmark, Parametric!Next, Parametric!Start, Parametric!Commit,
         Parametric!Answer, Parametric!Crash, Parametric!Recover, Parametric!vars

\* Every step of the composed system is one of the registry, or leaves it alone.
LEMMA NextParametric ==
  ASSUME Faults = {}, Consistent, StoredInv, Placed, TakenUnmarked, [GNext]_gvars
  PROVE  [Parametric!Next]_(Parametric!vars)
<1>1. CASE Next
  BY <1>1, NextVisible, NextStored, VisibleParametric
<1>2. CASE UNCHANGED <<disk, pc, req>>
  BY <1>2 DEF Parametric!vars, registryStatus, registryChange, Entries
<1>3. ASSUME NEW t \in Threads, ThreadStep(t)
      PROVE  Next \/ UNCHANGED <<disk, pc, req>>
  BY <1>3, ThreadAside DEF TornCopy, Next
<1>4. QED
  BY <1>1, <1>2, <1>3 DEF GNext, HandlerStep, Exit, Restart, Next

\* For any number of viewers, at any steps of their threads, the component is
\* the registry of the parameters, where no I/O fails: no mark and no unlocked
\* read of a viewer loses, changes or undoes what a request has stored.
THEOREM ViewersKeepTheRegistry ==
  ASSUME Faults = {}
  PROVE  GSpec => ViewersKeepRegistry
<1>1. GInit => Placed /\ TakenUnmarked /\ Parametric!Init
  <2> SUFFICES ASSUME GInit PROVE Placed /\ TakenUnmarked /\ Parametric!Init
    OBVIOUS
  <2>1. pc = "down" /\ req = NoRequest /\ disk \in InitialFiles
    BY DEF GInit, Init
  <2>2. registryStatus = "down" /\ Unmarking(registryChange) = NoRequest
    BY <2>1 DEF registryStatus, registryChange, Unmarking, NoRequest, Request
  <2>3. QED
    BY <2>1, <2>2 DEF Placed, TakenUnmarked, Saving, Parametric!Init
<1>2. Consistent /\ StoredInv /\ Placed /\ TakenUnmarked /\ [GNext]_gvars
          => Placed' /\ TakenUnmarked'
  BY NextTakenUnmarked
<1>3. Consistent /\ StoredInv /\ Placed /\ TakenUnmarked /\ [GNext]_gvars
          => [Parametric!Next]_(Parametric!vars)
  BY NextParametric
<1>4. QED
  BY <1>1, <1>2, <1>3, StoredHolds, PTL DEF GSpec, ViewersKeepRegistry
=============================================================================
