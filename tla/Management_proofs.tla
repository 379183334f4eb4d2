------------------------- MODULE Management_proofs --------------------------
(* Proofs about the management component, for any limits, any identifiers   *)
(* and, where it is not said otherwise, any I/O faults.  The last part is    *)
(* the refinement of the registry of module Registry.                       *)
EXTENDS Management, TLAPS

-----------------------------------------------------------------------------
(* The inductive invariant.                                                *)

\* /dev/urandom can be read.
Random == "random" \notin Faults

\* A connect works for a connection it has found.
Connecting == pc \in {"probe", "mark", "register"} => req.id \in Ids

\* What the table holds is named and complete, and named only once while
\* identifiers are random.
SoundTable ==
    /\ \A i \in 1..connection_count :
          /\ connections[i].id \in issued
          /\ connections[i].proto # Nil
          /\ connections[i].target # Nil
    /\ Random => UniqueIds

\* A file fits the table and names nothing unknown, and nothing twice while
\* identifiers are random.
SoundFile(file) ==
    /\ Len(file) <= MaxConnections
    /\ Random => DistinctIds(file)
    /\ \A i \in DOMAIN file : file[i].id \in issued

SoundFiles == SoundFile(disk) /\ SoundFile(tmp) /\ SoundFile(buf)

\* The load starts with an empty table, and the objects it has still to read
\* name none of the connections it has read.
Loading ==
    /\ pc = "read" => connection_count = 0
    /\ pc = "load" =>
          /\ buf = disk
          /\ pos <= Len(buf) + 1
          /\ connection_count < pos
          /\ Random => \A i \in 1..connection_count, j \in pos..Len(buf) :
                            connections[i].id # buf[j].id

\* The table as a save writes it.
Snapshot == [i \in 1..connection_count |-> Stored(connections[i])]

\* A save under way carries the table as it is.
Writing ==
    /\ pc \in {"open", "write", "rename"} => buf = Snapshot
    /\ pc = "rename" => tmp = buf

IInv == TypeOK /\ Connecting /\ SoundTable /\ SoundFiles /\ Loading /\ Writing

\* The part of it that does not say what a save carries.
Consistent == TypeOK /\ Connecting /\ SoundTable /\ SoundFiles /\ Loading

\* What the load has taken over of the objects it has read.
LoadedSoFar == {o \in {buf[j] : j \in 1..(pos - 1)} : Complete(o)}

\* Between a request that changes the table and its save the two differ; at
\* every other place the store holds what the table holds.
Settled ==
    /\ pc \in {"idle", "ok", "fail", "probe", "mark"} => Table = Entries(disk)
    /\ pc = "load" => Table = LoadedSoFar

-----------------------------------------------------------------------------
(* Types.                                                                  *)

USE DEF vars, table, files, work

\* An element of a sequence over S is in S.
LEMMA SeqElement ==
  ASSUME NEW S, NEW s \in Seq(S), NEW i \in DOMAIN s
  PROVE  s[i] \in S
  OBVIOUS

\* Appending an element of S to a sequence over S gives one, longer by one.
LEMMA AppendElement ==
  ASSUME NEW S, NEW s \in Seq(S), NEW e \in S
  PROVE  Append(s, e) \in Seq(S) /\ Len(Append(s, e)) = Len(s) + 1
  OBVIOUS

\* A slot guac_mgmt_init has cleared is a record.
LEMMA BlankType == Blank \in Records
  BY DEF Blank, Records

\* "No request" is a value of the request variable.
LEMMA NoRequestType == NoRequest \in Requests
  BY DEF NoRequest, Request, Requests, Ops

\* The service starts with well typed variables and an empty, sound table.
LEMMA TypeInit == Init => TypeOK /\ Connecting /\ SoundTable
<1> SUFFICES ASSUME Init PROVE TypeOK /\ Connecting /\ SoundTable
  OBVIOUS
<1>1. connections \in [Slots -> Records]
  BY BlankType DEF Init
<1>2. disk \in Seq(Objects) /\ issued \subseteq Ids
  <2>1. disk \in Seq(Objects)
    BY FilesAssumption DEF Init
  <2>2. \A i \in DOMAIN disk : disk[i].id \in Ids
    <3>1. ASSUME NEW i \in DOMAIN disk PROVE disk[i] \in Objects
      BY <2>1, SeqElement
    <3>2. QED
      BY <3>1 DEF Objects
  <2>3. QED
    BY <2>1, <2>2 DEF Init
<1>3. sessions \in Seq([id : SessionIds, conn : Ids]) /\ Len(sessions) = 0
  BY DEF Init
<1>4. tmp \in Seq(Objects) /\ buf \in Seq(Objects)
  BY DEF Init
<1>5. TypeOK
  BY <1>1, <1>2, <1>3, <1>4, NoRequestType, LimitsAssumption DEF Init, TypeOK
<1>6. QED
  BY <1>5 DEF Init, Connecting, SoundTable, UniqueIds

\* Removing an element by swapping leaves a list of the same elements.
LEMMA SwapRemoveType ==
  ASSUME NEW S, NEW s \in Seq(S), NEW k \in DOMAIN s
  PROVE  /\ SwapRemove(s, k) \in Seq(S)
         /\ Len(SwapRemove(s, k)) = Len(s) - 1
<1>1. Len(s) \in Nat \ {0} /\ \A j \in 1..Len(s) : s[j] \in S
  OBVIOUS
<1>2. \A j \in 1..(Len(s) - 1) : (IF j = k THEN s[Len(s)] ELSE s[j]) \in S
  BY <1>1
<1>3. QED
  BY <1>1, <1>2 DEF SwapRemove

\* Marking a connection active or idle keeps every slot a record.
LEMMA FlagsType ==
  ASSUME connections \in [Slots -> Records], NEW id, NEW value \in BOOLEAN
  PROVE  /\ SetActive(id, value) \in [Slots -> Records]
         /\ Activate(id) \in [Slots -> Records]
<1>1. \A c \in Records :
          /\ [c EXCEPT !.active = value] \in Records
          /\ [c EXCEPT !.active = TRUE, !.used = TRUE] \in Records
  BY DEF Records
<1>2. QED
  BY <1>1 DEF SetActive, Activate

\* The types, and what they need to hold from step to step.
Typed == TypeOK /\ Connecting /\ \A i \in 1..connection_count : connections[i].id \in Ids

\* A request taken from the mailbox keeps the types.
LEMMA TypeReceive ==
  ASSUME Typed, Receive
  PROVE  TypeOK' /\ Connecting'
<1> USE LimitsAssumption, NamesAssumption, NoRequestType
<1>1. ASSUME NEW id \in Ids, NEW p \in Protocols, NEW t \in Targets,
             Add(id, p, t)
      PROVE  TypeOK' /\ Connecting'
  <2>1. [id |-> id, proto |-> p, target |-> t, active |-> FALSE,
         used |-> FALSE] \in Records
    BY DEF Records
  <2>2. connection_count + 1 \in Slots
    BY <1>1 DEF Add, Typed, TypeOK, Slots
  <2>3. connections' \in [Slots -> Records]
    BY <1>1, <2>1, <2>2 DEF Add, Typed, TypeOK
  <2>4. req' \in Requests
    BY <1>1 DEF Add, Request, Requests, Ops
  <2>5. QED
    BY <1>1, <2>2, <2>3, <2>4 DEF Add, Typed, TypeOK, Connecting, Slots
<1>2. ASSUME NEW p \in Protocols \cup {Nil}, NEW t \in Targets \cup {Nil},
             AddRejected(p, t)
      PROVE  TypeOK' /\ Connecting'
  BY <1>2 DEF AddRejected, Typed, TypeOK, Connecting
<1>3. ASSUME NEW id \in Ids, NEW p \in Protocols \cup {Nil},
             NEW t \in Targets \cup {Nil}, Update(id, p, t)
      PROVE  TypeOK' /\ Connecting'
  <2>1. connections' \in [Slots -> Records]
    <3>1. PICK i \in 1..connection_count :
              connections' = [connections EXCEPT
                ![i].proto  = IF p = Nil THEN @ ELSE p,
                ![i].target = IF t = Nil THEN @ ELSE t]
      BY <1>3 DEF Update
    <3>2. i \in Slots /\ connections[i] \in Records
      BY DEF Typed, TypeOK, Slots
    <3>3. [connections[i] EXCEPT !.proto  = IF p = Nil THEN @ ELSE p,
                                 !.target = IF t = Nil THEN @ ELSE t] \in Records
      BY <3>2 DEF Records
    <3>4. connections' = [connections EXCEPT ![i] =
              [connections[i] EXCEPT !.proto  = IF p = Nil THEN @ ELSE p,
                                     !.target = IF t = Nil THEN @ ELSE t]]
      BY <3>1, <3>2, Zenon DEF Typed, TypeOK
    <3>5. QED
      BY <3>2, <3>3, <3>4 DEF Typed, TypeOK
  <2>2. req' \in Requests
    BY <1>3 DEF Update, Request, Requests, Ops
  <2>3. QED
    BY <1>3, <2>1, <2>2 DEF Update, Typed, TypeOK, Connecting
<1>4. ASSUME NEW id \in Ids, Delete(id)
      PROVE  TypeOK' /\ Connecting'
  <2>1. connections' \in [Slots -> Records] /\ connection_count' \in 0..MaxConnections
    BY <1>4 DEF Delete, Typed, TypeOK, Slots
  <2>2. req' \in Requests
    BY <1>4 DEF Delete, Request, Requests, Ops
  <2>3. QED
    BY <1>4, <2>1, <2>2 DEF Delete, Typed, TypeOK, Connecting
<1>5. ASSUME NEW id \in Ids, UnknownConnection(id)
      PROVE  TypeOK' /\ Connecting'
  BY <1>5 DEF UnknownConnection, Typed, TypeOK, Connecting
<1>6. ASSUME NEW id \in Ids, ConnectLookup(id)
      PROVE  TypeOK' /\ Connecting'
  <2>1. req' \in Requests /\ req'.id = id
    BY <1>6 DEF ConnectLookup, Request, Requests, Ops
  <2>2. QED
    BY <1>6, <2>1 DEF ConnectLookup, Typed, TypeOK, Connecting
<1>7. ASSUME NEW sid \in SessionIds, Disconnect(sid)
      PROVE  TypeOK' /\ Connecting'
  <2>1. PICK k \in DOMAIN sessions :
            /\ connections' = SetActive(sessions[k].conn, FALSE)
            /\ sessions' = SwapRemove(sessions, k)
            /\ req' = Request("disconnect", sessions[k].conn, Nil, Nil, sid)
    BY <1>7 DEF Disconnect
  <2>2. connections' \in [Slots -> Records]
    BY <2>1, FlagsType DEF Typed, TypeOK
  <2>3. /\ sessions' \in Seq([id : SessionIds, conn : Ids])
        /\ Len(sessions') <= MaxSessions
    BY <2>1, SwapRemoveType DEF Typed, TypeOK
  <2>4. req' \in Requests
    <3>1. sessions[k] \in [id : SessionIds, conn : Ids]
      BY SeqElement DEF Typed, TypeOK
    <3>2. QED
      BY <2>1, <3>1 DEF Request, Requests, Ops
  <2>5. QED
    BY <1>7, <2>2, <2>3, <2>4 DEF Disconnect, Typed, TypeOK, Connecting
<1>8. ASSUME NEW sid \in SessionIds, UnknownSession(sid)
      PROVE  TypeOK' /\ Connecting'
  BY <1>8 DEF UnknownSession, Typed, TypeOK, Connecting
<1>9. CASE Reload
  <2>1. req' \in Requests
    BY <1>9 DEF Reload, Request, Requests, Ops
  <2>2. QED
    BY <1>9, <2>1 DEF Reload, Typed, TypeOK, Connecting
<1>10. QED
  BY <1>1, <1>2, <1>3, <1>4, <1>5, <1>6, <1>7, <1>8, <1>9 DEF Receive

\* What a save serialises of a typed, named table is a sequence of objects.
LEMMA StoredType ==
  ASSUME Typed
  PROVE  Snapshot \in Seq(Objects)
<1>1. ASSUME NEW i \in 1..connection_count
      PROVE  Stored(connections[i]) \in Objects
  <2>1. connections[i] \in Records /\ connections[i].id \in Ids
    BY LimitsAssumption DEF Typed, TypeOK, Slots
  <2>2. QED
    BY <2>1 DEF Stored, Objects, Records
<1>2. connection_count \in Nat
  BY LimitsAssumption DEF Typed, TypeOK
<1>3. QED
  BY <1>1, <1>2 DEF Snapshot

\* What the load makes of an object of the file is a record.
LEMMA LoadedType ==
  ASSUME NEW o \in Objects
  PROVE  Loaded(o) \in Records
  BY DEF Loaded, Objects, Records

\* A step of a handler or of a load keeps the types.
LEMMA TypeContinue ==
  ASSUME Typed, Continue
  PROVE  TypeOK' /\ Connecting'
<1> USE LimitsAssumption, NamesAssumption, NoRequestType
<1>1. CASE Probe
  BY <1>1 DEF Probe, Typed, TypeOK, Connecting
<1>2. CASE Mark
  <2>1. connections' \in [Slots -> Records]
    BY <1>2, FlagsType DEF Mark, Typed, TypeOK
  <2>2. QED
    BY <1>2, <2>1 DEF Mark, Typed, TypeOK, Connecting
<1>3. ASSUME NEW sid \in SessionIds, Register(sid)
      PROVE  TypeOK' /\ Connecting'
  <2>1. [id |-> sid, conn |-> req.id] \in [id : SessionIds, conn : Ids]
    BY <1>3 DEF Register, Typed, Connecting
  <2>2. /\ sessions' \in Seq([id : SessionIds, conn : Ids])
        /\ Len(sessions') <= MaxSessions
    <3>1. CASE Len(sessions) < MaxSessions
      <4>1. sessions' = Append(sessions, [id |-> sid, conn |-> req.id])
        BY <1>3, <3>1 DEF Register
      <4>2. /\ Append(sessions, [id |-> sid, conn |-> req.id])
                  \in Seq([id : SessionIds, conn : Ids])
            /\ Len(Append(sessions, [id |-> sid, conn |-> req.id]))
                  = Len(sessions) + 1
        BY <2>1, AppendElement DEF Typed, TypeOK
      <4>3. QED
        BY <3>1, <4>1, <4>2 DEF Typed, TypeOK
    <3>2. CASE ~(Len(sessions) < MaxSessions)
      BY <1>3, <3>2 DEF Register, Typed, TypeOK
    <3>3. QED
      BY <3>1, <3>2
  <2>3. req' \in Requests
    BY <1>3 DEF Register, Typed, TypeOK, Requests
  <2>4. QED
    BY <1>3, <2>2, <2>3 DEF Register, Typed, TypeOK, Connecting
<1>4. CASE SaveSnapshot
  BY <1>4, StoredType DEF SaveSnapshot, Snapshot, Typed, TypeOK, Connecting
<1>5. CASE SaveOpen
  BY <1>5 DEF SaveOpen, Typed, TypeOK, Connecting
<1>6. CASE SaveWrite
  BY <1>6 DEF SaveWrite, Typed, TypeOK, Connecting
<1>7. CASE SaveRename
  BY <1>7 DEF SaveRename, Typed, TypeOK, Connecting
<1>8. CASE SaveFails
  BY <1>8 DEF SaveFails, Typed, TypeOK, Connecting
<1>9. CASE ReadFile
  BY <1>9 DEF ReadFile, Typed, TypeOK, Connecting
<1>10. CASE ReadFails
  BY <1>10 DEF ReadFails, LoadReturns, Typed, TypeOK, Connecting
<1>11. CASE LoadObject
  <2>1. buf[pos] \in Objects
    BY <1>11, SeqElement DEF LoadObject, Typed, TypeOK
  <2>2. connection_count + 1 \in Slots
    BY <1>11 DEF LoadObject, Typed, TypeOK, Slots
  <2>3. connections' \in [Slots -> Records]
    BY <1>11, <2>1, <2>2, LoadedType DEF LoadObject, Typed, TypeOK
  <2>4. connection_count' \in 0..MaxConnections /\ pos' \in Nat \ {0}
    BY <1>11, <2>2 DEF LoadObject, Typed, TypeOK, Slots
  <2>5. QED
    BY <1>11, <2>3, <2>4 DEF LoadObject, Typed, TypeOK, Connecting
<1>12. CASE LoadDone
  BY <1>12 DEF LoadDone, LoadReturns, Typed, TypeOK, Connecting
<1>13. CASE Reply
  BY <1>13 DEF Reply, Typed, TypeOK, Connecting
<1>14. QED
  BY <1>1, <1>2, <1>3, <1>4, <1>5, <1>6, <1>7, <1>8, <1>9, <1>10, <1>11,
     <1>12, <1>13 DEF Continue

\* Every step of the component keeps the types.
LEMMA TypeStep ==
  ASSUME Typed, [Next]_vars
  PROVE  TypeOK' /\ Connecting'
<1> USE LimitsAssumption, NoRequestType
<1>1. [i \in Slots |-> Blank] \in [Slots -> Records]
  BY BlankType
<1>2. CASE Crash
  BY <1>1, <1>2 DEF Crash, Typed, TypeOK, Connecting
<1>3. CASE Boot
  <2>1. req' \in Requests
    BY <1>3 DEF Boot, Request, Requests, Ops
  <2>2. QED
    BY <1>1, <1>3, <2>1 DEF Boot, Typed, TypeOK, Connecting
<1>4. CASE UNCHANGED vars
  BY <1>4 DEF Typed, TypeOK, Connecting
<1>5. QED
  BY <1>2, <1>3, <1>4, TypeReceive, TypeContinue DEF Next

-----------------------------------------------------------------------------
(* The invariant is inductive.                                             *)

\* A consistent state has the part the type lemmas start from.
LEMMA ConsistentTyped == Consistent => Typed
  BY DEF Consistent, SoundTable, Typed, TypeOK

\* The inductive invariant is that, and what a save under way carries.
LEMMA IInvParts == IInv <=> Consistent /\ Writing
  BY DEF IInv, Consistent

\* An empty file fits every table.
LEMMA EmptyFile == SoundFile(<<>>)
  BY LimitsAssumption DEF SoundFile, DistinctIds

\* The inductive invariant holds when the service is started.
LEMMA InitIInv == Init => IInv
<1> SUFFICES ASSUME Init PROVE IInv
  OBVIOUS
<1>1. TypeOK /\ Connecting /\ SoundTable
  BY TypeInit
<1>2. SoundFile(disk)
  BY FilesAssumption DEF Init, SoundFile
<1>3. SoundFiles
  BY <1>2, EmptyFile DEF Init, SoundFiles
<1>4. Loading /\ Writing
  BY DEF Init, Loading, Writing
<1>5. QED
  BY <1>1, <1>3, <1>4 DEF IInv

\* Files that are left alone stay sound while identifiers are only added.
LEMMA FilesStay ==
  ASSUME SoundFiles, UNCHANGED <<disk, tmp, buf>>, issued \subseteq issued'
  PROVE  SoundFiles'
  BY DEF SoundFiles, SoundFile

\* Flags do not matter to the table: marking keeps names and parameters.
LEMMA FlagsKeep ==
  ASSUME TypeOK, NEW id, NEW value, NEW i \in Slots
  PROVE  /\ Stored(SetActive(id, value)[i]) = Stored(connections[i])
         /\ Activate(id)[i].id = connections[i].id
         /\ Activate(id)[i].proto = connections[i].proto
         /\ Activate(id)[i].target = connections[i].target
<1>1. connections[i] \in Records
  BY DEF TypeOK
<1>2. QED
  BY <1>1 DEF SetActive, Activate, Stored, Records

\* A step that changes no more than flags of the table keeps it sound.
LEMMA TableStays ==
  ASSUME TypeOK, SoundTable, issued' = issued, connection_count' = connection_count,
         \A i \in Slots : /\ connections'[i].id = connections[i].id
                          /\ connections'[i].proto = connections[i].proto
                          /\ connections'[i].target = connections[i].target
  PROVE  SoundTable'
<1>1. 1..connection_count \subseteq Slots
  BY LimitsAssumption DEF TypeOK, Slots
<1>2. QED
  BY <1>1 DEF SoundTable, UniqueIds

\* An add takes the slot after the last with a name that is new.
LEMMA AddIInv ==
  ASSUME Consistent, NEW id \in Ids, NEW p \in Protocols, NEW t \in Targets,
         Add(id, p, t)
  PROVE  SoundTable' /\ SoundFiles' /\ Loading'
<1> USE DEF Consistent
<1>1. connection_count \in Nat /\ connection_count + 1 \in Slots
  BY LimitsAssumption DEF Add, TypeOK, Slots
<1>2. /\ connections'[connection_count + 1].id = id
      /\ connections'[connection_count + 1].proto = p
      /\ connections'[connection_count + 1].target = t
      /\ \A i \in 1..connection_count : connections'[i] = connections[i]
  BY <1>1 DEF Add, TypeOK, Slots
<1>3. p # Nil /\ t # Nil
  BY NamesAssumption
<1>4. connection_count' = connection_count + 1 /\ issued' = issued \cup {id}
  BY DEF Add
<1>5. Random => id \notin issued
  BY DEF Add, Generates, Random
<1>6. SoundTable'
  <2>1. \A i \in 1..connection_count' :
            i \in 1..connection_count \/ i = connection_count + 1
    BY <1>1, <1>4
  <2>2. QED
    BY <1>2, <1>3, <1>4, <1>5, <2>1 DEF SoundTable, UniqueIds, Random
<1>7. SoundFiles'
  BY FilesStay DEF Add
<1>8. QED
  BY <1>6, <1>7 DEF Add, Loading

\* handle_update_connection keeps the table sound: it leaves the identifiers
\* alone, and a field the request leaves empty is not emptied.
LEMMA UpdateIInv ==
  ASSUME Consistent, NEW id \in Ids, NEW p \in Protocols \cup {Nil},
         NEW t \in Targets \cup {Nil}, Update(id, p, t)
  PROVE  SoundTable' /\ SoundFiles' /\ Loading'
<1> USE DEF Consistent
<1>1. PICK k \in 1..connection_count :
          connections' = [connections EXCEPT
              ![k].proto  = IF p = Nil THEN @ ELSE p,
              ![k].target = IF t = Nil THEN @ ELSE t]
  BY DEF Update
<1>2. k \in Slots /\ 1..connection_count \subseteq Slots
  BY LimitsAssumption DEF TypeOK, Slots
<1>3. \A i \in 1..connection_count :
          /\ connections'[i].id = connections[i].id
          /\ connections[i].proto # Nil => connections'[i].proto # Nil
          /\ connections[i].target # Nil => connections'[i].target # Nil
  BY <1>1, <1>2, SMTT(30) DEF TypeOK, Records
<1>4. SoundTable'
  BY <1>3 DEF Update, SoundTable, UniqueIds
<1>5. SoundFiles'
  BY FilesStay DEF Update
<1>6. QED
  BY <1>4, <1>5 DEF Update, Loading

\* A delete moves the last record: its name leaves the slot it had.
LEMMA DeleteIInv ==
  ASSUME Consistent, NEW id \in Ids, Delete(id)
  PROVE  SoundTable' /\ SoundFiles' /\ Loading'
<1> USE DEF Consistent
<1>1. PICK k \in 1..connection_count :
          connections' = [connections EXCEPT ![k] = connections[connection_count]]
  BY DEF Delete
<1>2. /\ connection_count \in Nat \ {0} /\ 1..connection_count \subseteq Slots
      /\ connection_count' = connection_count - 1
  BY <1>1, LimitsAssumption DEF Delete, TypeOK, Slots
<1>3. \A i \in 1..(connection_count - 1) :
          connections'[i] = IF i = k THEN connections[connection_count]
                                     ELSE connections[i]
  BY <1>1, <1>2 DEF TypeOK
<1>4. SoundTable'
  BY <1>2, <1>3 DEF Delete, SoundTable, UniqueIds
<1>5. SoundFiles'
  BY FilesStay DEF Delete
<1>6. QED
  BY <1>4, <1>5 DEF Delete, Loading

\* Marking a connection active keeps the inductive invariant.
LEMMA MarkIInv ==
  ASSUME Consistent, Mark
  PROVE  SoundTable' /\ SoundFiles' /\ Loading'
<1> USE DEF Consistent
<1>1. SoundTable'
  BY TableStays, FlagsKeep DEF Mark
<1>2. SoundFiles'
  BY FilesStay DEF Mark
<1>3. QED
  BY <1>1, <1>2 DEF Mark, Loading

\* handle_disconnect keeps the inductive invariant.
LEMMA DisconnectIInv ==
  ASSUME Consistent, NEW sid \in SessionIds, Disconnect(sid)
  PROVE  SoundTable' /\ SoundFiles' /\ Loading'
<1> USE DEF Consistent
<1>1. PICK k \in DOMAIN sessions :
          connections' = SetActive(sessions[k].conn, FALSE)
  BY DEF Disconnect
<1>2. \A i \in Slots : Stored(connections'[i]) = Stored(connections[i])
  BY <1>1, FlagsKeep
<1>3. SoundTable'
  BY <1>2, TableStays DEF Disconnect, Stored
<1>4. SoundFiles'
  BY FilesStay DEF Disconnect
<1>5. QED
  BY <1>3, <1>4 DEF Disconnect, Loading

\* The steps that touch neither the table nor the files, nor the buffer.
Aside ==
    /\ UNCHANGED <<table, issued, files, buf, pos>>
    /\ \/ pc' \notin {"read", "load", "open", "write", "rename"}
       \/ pc' = pc

\* So do the steps that touch neither the table nor the files.
LEMMA AsideIInv ==
  ASSUME Consistent, Aside
  PROVE  SoundTable' /\ SoundFiles' /\ Loading'
<1> USE DEF Consistent, Aside
<1>1. SoundTable'
  BY DEF SoundTable, UniqueIds
<1>2. SoundFiles'
  BY FilesStay
<1>3. QED
  BY <1>1, <1>2 DEF Loading

\* handle_reload_connections starts a load with an empty table.
LEMMA ReloadIInv ==
  ASSUME Consistent, Reload
  PROVE  SoundTable' /\ SoundFiles' /\ Loading'
<1> USE DEF Consistent, Reload
<1>1. SoundFiles'
  BY FilesStay
<1>2. QED
  BY <1>1 DEF SoundTable, UniqueIds, Loading

\* A snapshot of a sound table is a sound file; the rest of a save copies it.
LEMMA SaveIInv ==
  ASSUME Consistent,
         SaveSnapshot \/ SaveOpen \/ SaveWrite \/ SaveRename \/ SaveFails
  PROVE  SoundTable' /\ SoundFiles' /\ Loading'
<1> USE DEF Consistent
<1>1. UNCHANGED <<connections, connection_count, issued>>
  BY DEF SaveSnapshot, SaveOpen, SaveWrite, SaveRename, SaveFails
<1>2. SoundTable'
  BY <1>1 DEF SoundTable, UniqueIds
<1>3. CASE SaveSnapshot
  <2>1. SoundFile(Snapshot)
    <3>1. connection_count \in Nat /\ connection_count <= MaxConnections
      BY LimitsAssumption DEF TypeOK
    <3>2. Len(Snapshot) = connection_count /\ DOMAIN Snapshot = 1..connection_count
      BY <3>1 DEF Snapshot
    <3>3. \A i \in 1..connection_count : Snapshot[i].id = connections[i].id
      BY DEF Snapshot, Stored
    <3>4. QED
      BY <3>1, <3>2, <3>3 DEF SoundFile, DistinctIds, SoundTable, UniqueIds
  <2>2. buf' = Snapshot
    BY <1>3 DEF SaveSnapshot, Snapshot
  <2>3. SoundFiles'
    BY <1>1, <1>3, <2>1, <2>2 DEF SaveSnapshot, SoundFiles, SoundFile
  <2>4. QED
    BY <1>2, <1>3, <2>2, <2>3 DEF SaveSnapshot, Loading
<1>4. CASE SaveOpen
  <2>1. SoundFiles'
    BY <1>1, <1>4, EmptyFile DEF SaveOpen, SoundFiles, SoundFile
  <2>2. QED
    BY <1>2, <1>4, <2>1 DEF SaveOpen, Loading
<1>5. CASE SaveWrite
  <2>1. SoundFiles'
    BY <1>1, <1>5 DEF SaveWrite, SoundFiles, SoundFile
  <2>2. QED
    BY <1>2, <1>5, <2>1 DEF SaveWrite, Loading
<1>6. CASE SaveRename
  <2>1. SoundFiles'
    BY <1>1, <1>6, EmptyFile DEF SaveRename, SoundFiles, SoundFile
  <2>2. QED
    BY <1>2, <1>6, <2>1 DEF SaveRename, Loading
<1>7. CASE SaveFails
  <2>1. SoundFiles'
    BY <1>1, <1>7, EmptyFile DEF SaveFails, SoundFiles, SoundFile
  <2>2. QED
    BY <1>2, <1>7, <2>1 DEF SaveFails, Loading
<1>8. QED
  BY <1>3, <1>4, <1>5, <1>6, <1>7

\* Reading the store, and ending a load early or late, keep the invariant.
LEMMA ReadIInv ==
  ASSUME Consistent, ReadFile \/ ReadFails \/ LoadDone
  PROVE  SoundTable' /\ SoundFiles' /\ Loading'
<1> USE DEF Consistent
<1>1. UNCHANGED <<connections, connection_count, issued, disk, tmp>>
  BY DEF ReadFile, ReadFails, LoadDone
<1>2. SoundTable'
  BY <1>1 DEF SoundTable, UniqueIds
<1>3. buf' \in {buf, disk, <<>>}
  BY DEF ReadFile, ReadFails, LoadDone
<1>4. SoundFiles'
  BY <1>1, <1>3, EmptyFile DEF SoundFiles, SoundFile
<1>5. CASE ReadFile
  BY <1>2, <1>4, <1>5 DEF ReadFile, Loading, TypeOK
<1>6. CASE ReadFails \/ LoadDone
  BY <1>2, <1>4, <1>6 DEF ReadFails, LoadDone, LoadReturns, Loading
<1>7. QED
  BY <1>5, <1>6

\* The load adds one connection at most, and its name is not in the table.
LEMMA LoadObjectIInv ==
  ASSUME Consistent, LoadObject
  PROVE  SoundTable' /\ SoundFiles' /\ Loading'
<1> USE DEF Consistent, LoadObject
<1>1. /\ connection_count \in Nat /\ connection_count + 1 \in Slots
      /\ 1..connection_count \subseteq Slots /\ pos \in Nat \ {0}
      /\ pos \in DOMAIN buf /\ Len(buf) \in Nat
  BY LimitsAssumption DEF TypeOK, Slots
<1>2. connections'[connection_count + 1] = Loaded(buf[pos])
  BY <1>1 DEF TypeOK
<1>3. \A i \in 1..connection_count : connections'[i] = connections[i]
  BY <1>1 DEF TypeOK
<1>4. /\ buf[pos].id \in issued
      /\ Random => \A i \in 1..connection_count :
                       connections[i].id # buf[pos].id
  BY <1>1 DEF SoundFiles, SoundFile, Loading
<1>5. \A i \in 1..connection_count' :
          \/ i \in 1..connection_count
          \/ i = connection_count + 1 /\ Complete(buf[pos])
  <2>1. CASE Complete(buf[pos])
    <3>1. connection_count' = connection_count + 1
      BY <2>1
    <3>2. QED
      BY <1>1, <2>1, <3>1
  <2>2. CASE ~Complete(buf[pos])
    <3>1. connection_count' = connection_count
      BY <2>2
    <3>2. 1..connection_count' = 1..connection_count
      BY <3>1
    <3>3. QED
      BY <3>2 DEF TypeOK
  <2>3. QED
    BY <2>1, <2>2
<1>6. SoundTable'
  BY <1>2, <1>3, <1>4, <1>5 DEF SoundTable, UniqueIds, Loaded, Complete
<1>7. SoundFiles'
  BY FilesStay
<1>8. Loading'
  <2>1. Random => \A j \in (pos + 1)..Len(buf) : buf[j].id # buf[pos].id
    BY <1>1 DEF SoundFiles, SoundFile, DistinctIds
  <2>2. Random => \A i \in 1..connection_count', j \in (pos + 1)..Len(buf) :
                      connections'[i].id # buf[j].id
    BY <1>1, <1>2, <1>3, <1>5, <2>1 DEF Loading, Loaded
  <2>3. connection_count' < pos + 1 /\ pos + 1 <= Len(buf) + 1
    BY <1>1 DEF Loading
  <2>4. QED
    BY <1>1, <2>2, <2>3 DEF Loading
<1>9. QED
  BY <1>6, <1>7, <1>8

\* So do a crash, at any step, and the restart that follows.
LEMMA ProcessIInv ==
  ASSUME Consistent, Crash \/ Boot
  PROVE  SoundTable' /\ SoundFiles' /\ Loading'
<1> USE DEF Consistent
<1>1. connection_count' = 0 /\ issued' = issued /\ files' = files
      /\ buf' \in {buf, <<>>}
  BY DEF Crash, Boot
<1>2. SoundFiles'
  BY <1>1, EmptyFile DEF SoundFiles, SoundFile
<1>3. QED
  BY <1>1, <1>2 DEF Crash, Boot, SoundTable, UniqueIds, Loading

\* Every step of the component keeps the table and the files consistent.
LEMMA NextConsistent == Consistent /\ [Next]_vars => Consistent'
<1> SUFFICES ASSUME Consistent, [Next]_vars PROVE Consistent'
  OBVIOUS
<1>1. TypeOK' /\ Connecting'
  BY TypeStep, ConsistentTyped
<1>2. SoundTable' /\ SoundFiles' /\ Loading'
  <2>1. CASE Receive
    <3>1. ASSUME \/ \E p \in Protocols \cup {Nil}, t \in Targets \cup {Nil} :
                       AddRejected(p, t)
                 \/ \E id \in Ids : UnknownConnection(id) \/ ConnectLookup(id)
                 \/ \E sid \in SessionIds : UnknownSession(sid)
          PROVE  Aside
      BY <3>1 DEF AddRejected, UnknownConnection, ConnectLookup,
                  UnknownSession, Aside
    <3>2. QED
      BY <2>1, <3>1, AddIInv, UpdateIInv, DeleteIInv, DisconnectIInv,
         ReloadIInv, AsideIInv DEF Receive
  <2>2. CASE Continue
    <3>1. ASSUME Probe \/ Reply \/ \E sid \in SessionIds : Register(sid)
          PROVE  Aside
      BY <3>1 DEF Probe, Reply, Register, Aside
    <3>2. QED
      BY <2>2, <3>1, MarkIInv, SaveIInv, ReadIInv, LoadObjectIInv, AsideIInv
         DEF Continue
  <2>3. CASE UNCHANGED vars
    BY <2>3, AsideIInv DEF Aside
  <2>4. QED
    BY <2>1, <2>2, <2>3, ProcessIInv DEF Next
<1>3. QED
  BY <1>1, <1>2 DEF Consistent

\* A handler that is saving takes the steps of a save, unless it ends.
LEMMA SavingSteps ==
  ASSUME Next, pc' \in {"open", "write", "rename"}
  PROVE  SaveSnapshot \/ SaveOpen \/ SaveWrite
  BY DEF Next, Receive, Continue, Add, AddRejected, Update, Delete,
     UnknownConnection, ConnectLookup, Disconnect, UnknownSession, Reload,
     Probe, Mark, Register, SaveRename, SaveFails, ReadFile, ReadFails,
     LoadObject, LoadDone, LoadReturns, Reply, Crash, Boot

\* What a save under way carries stays what the table holds.
LEMMA NextWriting == Writing /\ [Next]_vars => Writing'
<1> SUFFICES ASSUME Writing, [Next]_vars PROVE Writing'
  OBVIOUS
<1>1. CASE UNCHANGED vars
  BY <1>1 DEF Writing, Snapshot
<1>2. CASE Next /\ pc' \notin {"open", "write", "rename"}
  BY <1>2 DEF Writing
<1>3. CASE Next /\ pc' \in {"open", "write", "rename"}
  <2>1. Snapshot' = Snapshot
    BY <1>3, SavingSteps DEF SaveSnapshot, SaveOpen, SaveWrite, Snapshot
  <2>2. CASE SaveSnapshot
    BY <2>1, <2>2 DEF SaveSnapshot, Snapshot, Writing
  <2>3. CASE SaveOpen \/ SaveWrite
    BY <2>1, <2>3 DEF SaveOpen, SaveWrite, Writing
  <2>4. QED
    BY <1>3, <2>2, <2>3, SavingSteps
<1>4. QED
  BY <1>1, <1>2, <1>3

\* Every step of the component keeps the inductive invariant.
LEMMA NextIInv == IInv /\ [Next]_vars => IInv'
<1>1. IInv' <=> Consistent' /\ Writing'
  BY DEF IInv, Consistent
<1>2. QED
  BY <1>1, IInvParts, NextConsistent, NextWriting

\* The inductive invariant holds in every state, whatever I/O fails and
\* wherever the process ends.
THEOREM Inductive == Spec => []IInv
  BY InitIInv, NextIInv, PTL DEF Spec

\* Every variable keeps its type, whatever fails.
THEOREM TypeCorrect == Spec => []TypeOK
<1>1. IInv => TypeOK
  BY DEF IInv
<1>2. QED
  BY <1>1, Inductive, PTL

\* No two stored connections ever share an identifier, whatever reads and saves
\* of the store fail, while /dev/urandom can be read.
THEOREM IdsAreUnique ==
  ASSUME "random" \notin Faults
  PROVE  Spec => []UniqueIds
<1>1. IInv => UniqueIds
  BY DEF IInv, SoundTable, Random
<1>2. QED
  BY <1>1, Inductive, PTL

-----------------------------------------------------------------------------
(* What a save leaves on the disk.                                         *)

\* All of a snapshot is kept by a load: the table holds complete records only.
LEMMA SnapshotEntries ==
  ASSUME IInv
  PROVE  Entries(Snapshot) = Table
<1> USE DEF IInv
<1>1. connection_count \in Nat /\ DOMAIN Snapshot = 1..connection_count
  BY LimitsAssumption DEF TypeOK, Snapshot
<1>2. \A i \in 1..connection_count :
          Snapshot[i] = Stored(connections[i]) /\ Complete(Snapshot[i])
  BY DEF Snapshot, Stored, Complete, SoundTable
<1>3. QED
  BY <1>1, <1>2 DEF Entries, Table

\* Every change of the store puts the whole table in its place: no I/O fault
\* and no crash ever leaves part of a save there.
THEOREM StoreIsWhole == Spec => StoreChangesWhole
<1>1. IInv /\ [Next]_vars => [Entries(disk') = Table]_disk
  <2> SUFFICES ASSUME IInv, Next, disk' # disk
               PROVE  Entries(disk') = Table
    OBVIOUS
  <2>1. SaveRename
    BY DEF Next, Receive, Continue, Add, AddRejected, Update, Delete,
       UnknownConnection, ConnectLookup, Disconnect, UnknownSession, Reload,
       Probe, Mark, Register, SaveSnapshot, SaveOpen, SaveWrite, SaveFails,
       ReadFile, ReadFails, LoadObject, LoadDone, Reply, Crash, Boot
  <2>2. disk' = Snapshot
    BY <2>1 DEF SaveRename, IInv, Writing
  <2>3. QED
    BY <2>2, SnapshotEntries
<1>2. QED
  BY <1>1, Inductive, PTL DEF Spec, StoreChangesWhole

-----------------------------------------------------------------------------
(* Durability, where no I/O fails.                                         *)

\* A step that changes only the active flags leaves what is stored alone.
LEMMA TableOfFlags ==
  ASSUME TypeOK, connection_count' = connection_count,
         \A i \in Slots : Stored(connections'[i]) = Stored(connections[i])
  PROVE  Table' = Table
<1>1. 1..connection_count \subseteq Slots
  BY LimitsAssumption DEF TypeOK, Slots
<1>2. QED
  BY <1>1 DEF Table

\* Nothing is unsaved before the service starts.
LEMMA InitSettled == Init => Settled
  BY DEF Init, Settled

\* One more object read: it is added to the table exactly if it is complete.
LEMMA LoadObjectSettled ==
  ASSUME Consistent, Table = LoadedSoFar, LoadObject
  PROVE  Table' = LoadedSoFar'
<1> USE DEF Consistent, LoadObject
<1>1. /\ connection_count \in Nat /\ connection_count + 1 \in Slots
      /\ 1..connection_count \subseteq Slots /\ pos \in Nat \ {0}
      /\ pos \in DOMAIN buf /\ buf[pos] \in Objects
  BY LimitsAssumption, SeqElement DEF TypeOK, Slots
<1>2. Stored(Loaded(buf[pos])) = buf[pos]
  BY <1>1 DEF Stored, Loaded, Objects
<1>3. /\ connections'[connection_count + 1] = Loaded(buf[pos])
      /\ \A i \in 1..connection_count : connections'[i] = connections[i]
  BY <1>1 DEF TypeOK
<1>4. CASE Complete(buf[pos])
  <2>1. connection_count' = connection_count + 1
    BY <1>4
  <2>2. 1..connection_count' = (1..connection_count) \cup {connection_count + 1}
    BY <2>1, <1>1
  <2>3. Table' = Table \cup {buf[pos]}
    BY <1>2, <1>3, <2>2 DEF Table
  <2>4. 1..(pos' - 1) = (1..(pos - 1)) \cup {pos}
    BY <1>1
  <2>5. LoadedSoFar' = LoadedSoFar \cup {buf[pos]}
    BY <2>4, <1>4 DEF LoadedSoFar
  <2>6. QED
    BY <2>3, <2>5
<1>5. CASE ~Complete(buf[pos])
  <2>1. connection_count' = connection_count
    BY <1>5
  <2>2. Table' = Table
    BY <1>3, <2>1 DEF Table
  <2>3. 1..(pos' - 1) = (1..(pos - 1)) \cup {pos}
    BY <1>1
  <2>4. LoadedSoFar' = LoadedSoFar
    BY <2>3, <1>5 DEF LoadedSoFar
  <2>5. QED
    BY <2>2, <2>4
<1>6. QED
  BY <1>4, <1>5

\* A load ends at the end of the file: the file never outgrows the table.
LEMMA LoadDoneSettled ==
  ASSUME Consistent, Table = LoadedSoFar, LoadDone
  PROVE  Table' = Entries(disk')
<1> USE DEF Consistent, LoadDone
<1>1. pos \in Nat \ {0} /\ Len(buf) \in Nat /\ DOMAIN buf = 1..Len(buf)
  BY DEF TypeOK
<1>2. pos = Len(buf) + 1
  BY <1>1, LimitsAssumption DEF Loading, SoundFiles, SoundFile, TypeOK
<1>3. LoadedSoFar = Entries(buf)
  BY <1>1, <1>2 DEF LoadedSoFar, Entries
<1>4. Table = Entries(disk)
  BY <1>3 DEF Loading
<1>5. Table' = Table
  BY DEF Table
<1>6. QED
  BY <1>4, <1>5

\* Without I/O faults every step leaves the table and the store equal, or
\* goes on to the step that makes them equal.
LEMMA NextSettled ==
  ASSUME Faults = {}, IInv, Settled, [Next]_vars
  PROVE  Settled'
<1>1. CASE SaveRename
  <2>1. disk' = Snapshot
    BY <1>1 DEF SaveRename, IInv, Writing
  <2>2. Table' = Table
    BY <1>1 DEF SaveRename, Table
  <2>3. QED
    BY <1>1, <2>1, <2>2, SnapshotEntries DEF SaveRename, Settled
<1>2. ASSUME NEW sid \in SessionIds, Disconnect(sid)
      PROVE  Settled'
  <2>1. PICK k \in DOMAIN sessions :
            connections' = SetActive(sessions[k].conn, FALSE)
    BY <1>2 DEF Disconnect
  <2>2. \A i \in Slots : Stored(connections'[i]) = Stored(connections[i])
    BY <2>1, FlagsKeep DEF IInv
  <2>3. connection_count' = connection_count /\ TypeOK
    BY <1>2 DEF Disconnect, IInv
  <2>4. Table' = Table
    BY <2>2, <2>3, TableOfFlags
  <2>5. QED
    BY <1>2, <2>4 DEF Disconnect, Settled
<1>3. CASE ReadFile
  <2>1. Table' = {}
    BY <1>3 DEF ReadFile, IInv, Loading, Table
  <2>2. LoadedSoFar' = {}
    BY <1>3 DEF ReadFile, LoadedSoFar
  <2>3. QED
    BY <1>3, <2>1, <2>2 DEF ReadFile, Settled
<1>4. ASSUME \/ \E p \in Protocols \cup {Nil}, t \in Targets \cup {Nil} :
                   AddRejected(p, t)
             \/ \E id \in Ids : UnknownConnection(id) \/ ConnectLookup(id)
             \/ \E sid \in SessionIds : UnknownSession(sid)
             \/ Probe \/ Reply \/ UNCHANGED vars
      PROVE  Settled'
  <2>1. UNCHANGED <<connections, connection_count, disk, buf, pos>>
    BY <1>4 DEF AddRejected, UnknownConnection, ConnectLookup,
                UnknownSession, Probe, Reply
  <2>2. Table' = Table /\ LoadedSoFar' = LoadedSoFar
    BY <2>1 DEF Table, LoadedSoFar
  <2>3. QED
    BY <1>4, <2>1, <2>2 DEF AddRejected, UnknownConnection, ConnectLookup,
       UnknownSession, Probe, Reply, Settled
<1>5. ASSUME \/ \E id \in Ids, p \in Protocols, t \in Targets : Add(id, p, t)
             \/ \E id \in Ids, p \in Protocols \cup {Nil},
                   t \in Targets \cup {Nil} : Update(id, p, t)
             \/ \E id \in Ids : Delete(id)
             \/ \E sid \in SessionIds : Register(sid)
             \/ Reload \/ Mark \/ SaveSnapshot \/ SaveOpen \/ SaveWrite
             \/ Crash \/ Boot
      PROVE  Settled'
  BY <1>5 DEF Add, Update, Delete, Register, Reload, Mark, SaveSnapshot,
              SaveOpen, SaveWrite, Crash, Boot, Settled
<1>6. ~SaveFails /\ ~ReadFails
  BY DEF SaveFails, ReadFails
<1>7. CASE LoadObject
  BY <1>7, IInvParts, LoadObjectSettled DEF LoadObject, Settled
<1>8. CASE LoadDone
  BY <1>8, IInvParts, LoadDoneSettled DEF LoadDone, LoadReturns, Settled
<1>9. QED
  BY <1>1, <1>2, <1>3, <1>4, <1>5, <1>6, <1>7, <1>8
     DEF Next, Receive, Continue

\* Where no I/O fails, the store holds what the table holds whenever the
\* service waits for a request, after any requests, crashes and restarts.
THEOREM TableIsDurable ==
  ASSUME Faults = {}
  PROVE  Spec => []Durable
<1>1. IInv /\ Settled /\ [Next]_vars => Settled'
  BY NextSettled
<1>2. Settled => Durable
  BY DEF Settled, Durable
<1>3. QED
  BY <1>1, <1>2, InitSettled, Inductive, PTL DEF Spec

-----------------------------------------------------------------------------
(* The management component implements the registry of module Registry, for *)
(* any limits and identifiers, where no I/O fails.                          *)

(* What a request in progress has made of the table.                        *)

\* Which request is in progress where.
Placed ==
    /\ pc \in {"down", "idle", "fail"} => req = NoRequest
    /\ pc \in {"read", "load"} => req.op \in {"boot", "reload"}
    /\ pc \in {"probe", "mark", "register"} => req.op = "connect"
    /\ pc \in Saving => req \in Changes
    /\ pc = "ok" => req.op \in Changing \cup {"disconnect", "reload"}

\* Between the change a request makes of the table and its save the table is
\* the store with the effect of the request.
Taken ==
    pc \in Saving \cup {"register"} =>
        Table = Abstract!Effect(req, Entries(disk))

\* A connect has its effect whatever session it makes.
LEMMA ConnectEffect ==
  ASSUME NEW c, NEW d, NEW reg, c.op = "connect", d.op = "connect", c.id = d.id
  PROVE  Abstract!Effect(c, reg) = Abstract!Effect(d, reg)
<1>1. /\ Abstract!Effect(c, reg) =
             {IF e.id = c.id THEN [e EXCEPT !.used = TRUE] ELSE e : e \in reg}
      /\ Abstract!Effect(d, reg) =
             {IF e.id = d.id THEN [e EXCEPT !.used = TRUE] ELSE e : e \in reg}
  BY DEF Abstract!Effect
<1>2. QED
  BY <1>1, Zenon

\* Where the table equals the store, the four changes have their effect on it.
LEMMA AddEffect ==
  ASSUME Consistent, NEW id \in Ids, NEW p \in Protocols, NEW t \in Targets,
         Add(id, p, t)
  PROVE  Table' = Abstract!Effect(req', Table)
<1>1. connection_count \in Nat /\ connection_count + 1 \in Slots
      /\ 1..connection_count \subseteq Slots
  BY LimitsAssumption DEF Consistent, Add, TypeOK, Slots
<1> DEFINE new == [id |-> id, proto |-> p, target |-> t, used |-> FALSE]
<1>2. /\ Stored(connections'[connection_count + 1]) = new
      /\ \A i \in 1..connection_count : connections'[i] = connections[i]
  BY <1>1 DEF Consistent, Add, TypeOK, Slots, Stored
<1>3. 1..connection_count' = (1..connection_count) \cup {connection_count + 1}
  BY <1>1 DEF Add
<1>4. Table' = Table \cup {new}
  BY <1>2, <1>3 DEF Table
<1>5. Abstract!Effect(req', Table) = Table \cup {new}
  BY DEF Add, Request, Abstract!Effect
<1>6. QED
  BY <1>4, <1>5

\* handle_update_connection changes the one record it finds.
LEMMA UpdateEffect ==
  ASSUME Random, Consistent, NEW id \in Ids, NEW p \in Protocols \cup {Nil},
         NEW t \in Targets \cup {Nil}, Update(id, p, t)
  PROVE  Table' = Abstract!Effect(req', Table)
<1> DEFINE new(e) == IF e.id = id
                     THEN [e EXCEPT !.proto = IF p = Nil THEN @ ELSE p,
                                    !.target = IF t = Nil THEN @ ELSE t]
                     ELSE e
<1>1. PICK k \in 1..connection_count :
          /\ connections[k].id = id
          /\ connections' = [connections EXCEPT
                ![k].proto  = IF p = Nil THEN @ ELSE p,
                ![k].target = IF t = Nil THEN @ ELSE t]
  BY DEF Update, FoundAt
<1>2. /\ connections \in [Slots -> Records]
      /\ connection_count' = connection_count
      /\ 1..connection_count \subseteq Slots
  BY LimitsAssumption DEF Consistent, Update, TypeOK, Slots
<1>3. \A i \in 1..connection_count :
          Stored(connections'[i]) = new(Stored(connections[i]))
  <2>1. ASSUME NEW i \in 1..connection_count
        PROVE  Stored(connections'[i]) = new(Stored(connections[i]))
    <3>1. connections[i].id = id <=> i = k
      BY <1>1 DEF Consistent, SoundTable, UniqueIds
    <3>2. i \in Slots /\ k \in Slots /\ connections[i] \in Records
      BY <1>2
    <3>3. CASE i = k
      BY <1>1, <1>2, <3>1, <3>2, <3>3 DEF Stored, Records
    <3>4. CASE i # k
      BY <1>1, <1>2, <3>1, <3>2, <3>4 DEF Stored
    <3>5. QED
      BY <3>3, <3>4
  <2>2. QED
    BY <2>1
<1>4. Table' = {new(e) : e \in Table}
  <2> HIDE DEF new
  <2>1. QED
    BY <1>2, <1>3 DEF Table
<1>5. Abstract!Effect(req', Table) = {new(e) : e \in Table}
  <2>1. /\ req'.op = "update" /\ req'.id = id
        /\ req'.proto = p /\ req'.target = t
    BY DEF Update, Request
  <2> DEFINE abs(e) == IF e.id = req'.id
                       THEN [e EXCEPT !.proto = Abstract!Keep(req'.proto, @),
                                      !.target = Abstract!Keep(req'.target, @)]
                       ELSE e
  <2>2. \A e \in Table : abs(e) = new(e)
    BY <2>1, Zenon DEF Abstract!Keep
  <2>3. Abstract!Effect(req', Table) = {abs(e) : e \in Table}
    BY <2>1 DEF Abstract!Effect
  <2> HIDE DEF abs, new
  <2>4. QED
    BY <2>2, <2>3
<1>6. QED
  BY <1>4, <1>5

\* handle_delete_connection drops the one record it finds, and no other.
LEMMA DeleteEffect ==
  ASSUME Random, Consistent, NEW id \in Ids, Delete(id)
  PROVE  Table' = Abstract!Effect(req', Table)
<1>1. PICK k \in 1..connection_count :
          /\ connections[k].id = id
          /\ connections' = [connections EXCEPT ![k] = connections[connection_count]]
  BY DEF Delete, FoundAt
<1>2. /\ connection_count \in Nat \ {0} /\ 1..connection_count \subseteq Slots
      /\ connection_count' = connection_count - 1
      /\ connections \in [Slots -> Records]
  BY LimitsAssumption DEF Consistent, Delete, TypeOK, Slots
<1>3. \A i \in 1..(connection_count - 1) :
          connections'[i] = IF i = k THEN connections[connection_count]
                                     ELSE connections[i]
  BY <1>1, <1>2
<1>4. \A i \in 1..connection_count : connections[i].id = id <=> i = k
  BY <1>1 DEF Consistent, SoundTable, UniqueIds
<1>5. \A e \in Table' : e \in Table /\ e.id # id
  <2>1. ASSUME NEW i \in 1..(connection_count - 1)
        PROVE  /\ Stored(connections'[i]) \in Table
               /\ Stored(connections'[i]).id # id
    <3>1. PICK j \in 1..connection_count : j # k /\ connections'[i] = connections[j]
      <4>1. CASE i = k
        BY <1>2, <1>3, <2>1, <4>1
      <4>2. CASE i # k
        BY <1>2, <1>3, <2>1, <4>2
      <4>3. QED
        BY <4>1, <4>2
    <3>2. QED
      BY <1>4, <3>1 DEF Table, Stored
  <2>2. QED
    BY <1>2, <2>1 DEF Table
<1>6. ASSUME NEW e \in Table, e.id # id PROVE e \in Table'
  <2>1. PICK j \in 1..connection_count : e = Stored(connections[j])
    BY DEF Table
  <2>2. j # k
    BY <1>4, <1>6, <2>1 DEF Stored
  <2>3. PICK i \in 1..(connection_count - 1) : connections'[i] = connections[j]
    <3>1. CASE j = connection_count
      <4>1. k \in 1..(connection_count - 1)
        BY <1>2, <2>2, <3>1
      <4>2. QED
        BY <1>3, <3>1, <4>1
    <3>2. CASE j # connection_count
      <4>1. j \in 1..(connection_count - 1)
        BY <1>2, <3>2
      <4>2. QED
        BY <1>3, <2>2, <4>1
    <3>3. QED
      BY <3>1, <3>2
  <2>4. QED
    BY <1>2, <2>1, <2>3 DEF Table
<1>7. Table' = {e \in Table : e.id # id}
  BY <1>5, <1>6
<1>8. Abstract!Effect(req', Table) = {e \in Table : e.id # id}
  BY DEF Delete, Request, Abstract!Effect
<1>9. QED
  BY <1>7, <1>8

\* handle_connect marks the record it finds as used, if it is still there.
LEMMA MarkEffect ==
  ASSUME Random, Consistent, Mark, req.op = "connect"
  PROVE  Table' = Abstract!Effect(req', Table)
<1> DEFINE new(e) == IF e.id = req.id THEN [e EXCEPT !.used = TRUE] ELSE e
<1>1. /\ connections \in [Slots -> Records]
      /\ connection_count' = connection_count /\ connection_count \in Nat
      /\ 1..connection_count \subseteq Slots
  BY LimitsAssumption DEF Consistent, Mark, TypeOK, Slots
<1>2. ASSUME NEW i \in 1..connection_count
      PROVE  Stored(connections'[i]) = new(Stored(connections[i]))
  <2>1. FoundAt(i, req.id) <=> connections[i].id = req.id
    <3>1. \A j \in 1..(i - 1) : j \in 1..connection_count /\ j # i
      BY <1>1
    <3>2. QED
      BY <3>1 DEF FoundAt, Consistent, SoundTable, UniqueIds
  <2>2. i \in Slots /\ connections[i] \in Records /\ i <= connection_count
    BY <1>1
  <2>3. connections'[i] = IF connections[i].id = req.id
                          THEN [connections[i] EXCEPT !.active = TRUE, !.used = TRUE]
                          ELSE connections[i]
    BY <2>1, <2>2 DEF Mark, Activate
  <2>4. QED
    BY <2>2, <2>3 DEF Stored, Records
<1>3. Table' = {new(e) : e \in Table}
  <2> HIDE DEF new
  <2>1. QED
    BY <1>1, <1>2 DEF Table
<1>4. Abstract!Effect(req', Table) = {new(e) : e \in Table}
  BY DEF Mark, Abstract!Effect
<1>5. QED
  BY <1>3, <1>4

-----------------------------------------------------------------------------
(* The invariant is inductive.                                              *)

\* Every step of the service leaves a request where it can be.
LEMMA ReceivePlaced ==
  ASSUME Consistent, Placed, Receive
  PROVE  Placed'
<1>1. ASSUME NEW id \in Ids, NEW p \in Protocols \cup {Nil},
             NEW t \in Targets \cup {Nil},
             Add(id, p, t) \/ Update(id, p, t) \/ Delete(id)
      PROVE  Placed'
  <2>1. pc' = "snapshot"
    BY <1>1 DEF Add, Update, Delete
  <2>2. req' \in Changes
    BY <1>1, NamesAssumption
       DEF Add, Update, Delete, Request, Requests, Changes, Changing, Ops
  <2>3. QED
    BY <2>1, <2>2 DEF Placed, Saving
<1>2. ASSUME NEW id \in Ids, ConnectLookup(id) PROVE Placed'
  BY <1>2 DEF ConnectLookup, Request, Placed, Saving
<1>3. ASSUME \/ \E p \in Protocols \cup {Nil}, t \in Targets \cup {Nil} :
                   AddRejected(p, t)
             \/ \E id \in Ids : UnknownConnection(id)
             \/ \E sid \in SessionIds : UnknownSession(sid)
      PROVE  Placed'
  BY <1>3 DEF AddRejected, UnknownConnection, UnknownSession, Placed, Saving
<1>4. CASE Reload
  BY <1>4 DEF Reload, Request, Placed, Saving
<1>5. ASSUME NEW sid \in SessionIds, Disconnect(sid) PROVE Placed'
  <2>1. pc' = "ok" /\ req'.op = "disconnect"
    <3>1. PICK x : req' = Request("disconnect", x, Nil, Nil, sid)
      BY <1>5, Zenon DEF Disconnect
    <3>2. pc' = "ok"
      BY <1>5 DEF Disconnect
    <3>3. QED
      BY <3>1, <3>2 DEF Request
  <2>2. QED
    BY <2>1 DEF Placed, Saving
<1>6. QED
  BY <1>1, <1>2, <1>3, <1>4, <1>5 DEF Receive

\* A session number is all that a connect learns on its way.
LEMMA RegisterRequest ==
  ASSUME Consistent, Placed, NEW sid \in SessionIds, Register(sid)
  PROVE  req' \in Changes /\ req'.op = "connect" /\ req'.id = req.id
<1>1. /\ pc = "register" /\ req' = [req EXCEPT !.sid = sid]
      /\ req.op = "connect"
  BY DEF Register, Placed
<1>2. req \in Requests /\ req.id \in Ids
  BY <1>1 DEF Consistent, TypeOK, Connecting
<1>3. QED
  BY <1>1, <1>2, NamesAssumption DEF Requests, Changes, Changing

\* A handler on its way keeps its request until it is answered.
LEMMA ContinuePlaced ==
  ASSUME Faults = {}, Consistent, Placed, Continue
  PROVE  Placed'
<1>1. CASE Probe \/ Reply
  BY <1>1 DEF Probe, Reply, Placed, Saving
<1>2. CASE Mark
  BY <1>2 DEF Mark, Placed, Saving
<1>3. ASSUME NEW sid \in SessionIds, Register(sid) PROVE Placed'
  <2>1. pc' = "snapshot" /\ req' \in Changes
    BY <1>3, RegisterRequest DEF Register
  <2>2. QED
    BY <2>1 DEF Placed, Saving
<1>4. CASE SaveSnapshot \/ SaveOpen \/ SaveWrite
  BY <1>4 DEF SaveSnapshot, SaveOpen, SaveWrite, Placed, Saving
<1>5. CASE SaveRename
  BY <1>5 DEF SaveRename, Placed, Changes, Saving
<1>6. CASE ReadFile \/ LoadObject
  BY <1>6 DEF ReadFile, LoadObject, Placed, Saving
<1>7. CASE LoadDone
  BY <1>7 DEF LoadDone, LoadReturns, Placed, Saving
<1>8. ~SaveFails /\ ~ReadFails
  BY DEF SaveFails, ReadFails
<1>9. QED
  BY <1>1, <1>2, <1>3, <1>4, <1>5, <1>6, <1>7, <1>8 DEF Continue

\* So does every step.
LEMMA NextPlaced ==
  ASSUME Faults = {}, Consistent, Placed, [Next]_vars
  PROVE  Placed'
<1>1. CASE UNCHANGED vars
  BY <1>1 DEF Placed, Saving
<1>2. CASE Crash \/ Boot
  BY <1>2 DEF Crash, Boot, Request, Placed, Saving
<1>3. QED
  BY <1>1, <1>2, ReceivePlaced, ContinuePlaced DEF Next

\* A step to a save, or within it, has its effect on the table, or comes after
\* the step that had it.
LEMMA ChangeSteps ==
  ASSUME Random, Consistent, Placed, [Next]_vars, pc' \in Saving \cup {"register"}
  PROVE  /\ disk' = disk
         /\ \/ /\ pc \in {"idle", "mark"}
               /\ Table' = Abstract!Effect(req', Table)
            \/ /\ pc \in Saving \cup {"register"}
               /\ UNCHANGED <<connections, connection_count>>
               /\ \/ req' = req
                  \/ /\ req.op = "connect" /\ req'.op = "connect"
                     /\ req'.id = req.id
<1> USE DEF Saving
<1>1. CASE UNCHANGED vars
  BY <1>1
<1>2. ASSUME NEW id \in Ids, NEW p \in Protocols \cup {Nil},
             NEW t \in Targets \cup {Nil},
             \/ Add(id, p, t) /\ p \in Protocols /\ t \in Targets
             \/ Update(id, p, t)
             \/ Delete(id)
      PROVE  /\ pc = "idle" /\ disk' = disk
             /\ Table' = Abstract!Effect(req', Table)
  <2>1. Table' = Abstract!Effect(req', Table)
    BY <1>2, AddEffect, UpdateEffect, DeleteEffect
  <2>2. QED
    BY <1>2, <2>1 DEF Add, Update, Delete
<1>3. CASE Mark
  <2>1. pc = "mark" /\ disk' = disk /\ req.op = "connect"
    BY <1>3 DEF Mark, Placed
  <2>2. QED
    BY <1>3, <2>1, MarkEffect
<1>4. ASSUME NEW sid \in SessionIds, Register(sid)
      PROVE  /\ pc = "register" /\ disk' = disk
             /\ UNCHANGED <<connections, connection_count>>
             /\ req.op = "connect" /\ req'.op = "connect" /\ req'.id = req.id
  BY <1>4, RegisterRequest DEF Register, Placed
<1>5. CASE SaveSnapshot \/ SaveOpen \/ SaveWrite
  BY <1>5 DEF SaveSnapshot, SaveOpen, SaveWrite
<1>6. ~Crash /\ ~Boot
  BY DEF Crash, Boot
<1>7. CASE Receive
  BY <1>2, <1>7
     DEF Receive, AddRejected, UnknownConnection, ConnectLookup, Disconnect,
         UnknownSession, Reload
<1>8. CASE Continue
  BY <1>3, <1>4, <1>5, <1>8
     DEF Continue, Probe, SaveRename, SaveFails, ReadFile, ReadFails,
         LoadObject, LoadDone, LoadReturns, Reply
<1>9. QED
  BY <1>1, <1>6, <1>7, <1>8 DEF Next

\* The table keeps the effect of the request until the store has it.
LEMMA NextTaken ==
  ASSUME Random, Consistent, Settled, Placed, Taken, [Next]_vars
  PROVE  Taken'
<1> SUFFICES ASSUME pc' \in Saving \cup {"register"}
             PROVE  Table' = Abstract!Effect(req', Entries(disk))
  BY ChangeSteps DEF Taken, Entries
<1>1. CASE pc \in {"idle", "mark"} /\ Table' = Abstract!Effect(req', Table)
  BY <1>1 DEF Settled
<1>2. CASE pc \in Saving \cup {"register"} /\ UNCHANGED <<connections, connection_count>>
  <2>1. Table' = Abstract!Effect(req, Entries(disk))
    BY <1>2 DEF Taken, Table
  <2>2. Abstract!Effect(req', Entries(disk)) = Abstract!Effect(req, Entries(disk))
    BY <1>2, ChangeSteps, ConnectEffect DEF Saving
  <2>3. QED
    BY <2>1, <2>2
<1>3. QED
  BY <1>1, <1>2, ChangeSteps

\* What is said of requests and of the table holds in every behaviour.
LEMMA RegistryInvHolds ==
  ASSUME Faults = {}
  PROVE  Spec => [](Settled /\ Placed /\ Taken)
<1>1. Init => Settled /\ Placed /\ Taken
  BY InitSettled DEF Init, Placed, Taken, Saving
<1>2. IInv /\ Settled /\ Placed /\ Taken /\ [Next]_vars
          => Settled' /\ Placed' /\ Taken'
  BY NextSettled, NextPlaced, NextTaken, IInvParts DEF Random
<1>3. QED
  BY <1>1, <1>2, Inductive, PTL DEF Spec

-----------------------------------------------------------------------------
(* Every step is a step of the registry, or leaves it as it is.             *)

\* The steps the registry can see of the request that is in progress.
Visible ==
    \/ /\ registryStatus = "idle" /\ registryStatus' = "working"
       /\ registryChange = NoRequest /\ registryChange' = req'
       /\ req' \in Changes /\ disk' = disk
    \/ /\ registryStatus = "working" /\ registryStatus' = "done"
       /\ registryChange = req /\ registryChange' = req
       /\ req \in Changes /\ SaveRename
    \/ /\ registryStatus = "done" /\ registryStatus' = "idle"
       /\ registryChange' = NoRequest /\ disk' = disk
    \/ /\ registryStatus # "down" /\ registryStatus' = "down"
       /\ registryChange' = NoRequest /\ disk' = disk
    \/ /\ registryStatus = "down" /\ registryStatus' = "idle"
       /\ registryChange' = registryChange /\ disk' = disk
    \/ UNCHANGED <<registryStatus, registryChange, disk>>

\* A request is the start of a change, or nothing the registry can see.
LEMMA ReceiveVisible ==
  ASSUME Consistent, Placed, Receive
  PROVE  Visible
<1>r. /\ pc = "idle" /\ disk' = disk
      /\ \/ pc' = "snapshot"
         \/ pc' = "fail" /\ req' = NoRequest
         \/ pc' \in {"probe", "mark"} /\ req'.op = "connect"
         \/ pc' = "ok" /\ req'.op = "disconnect"
         \/ pc' = "read" /\ req'.op = "reload"
  <2>1. ASSUME NEW id, NEW p, NEW t,
               Add(id, p, t) \/ Update(id, p, t) \/ Delete(id)
        PROVE  pc = "idle" /\ disk' = disk /\ pc' = "snapshot"
    BY <2>1 DEF Add, Update, Delete
  <2>2. ASSUME NEW x, NEW y,
               AddRejected(x, y) \/ UnknownConnection(x) \/ UnknownSession(x)
        PROVE  pc = "idle" /\ disk' = disk /\ pc' = "fail" /\ req' = NoRequest
    BY <2>2 DEF AddRejected, UnknownConnection, UnknownSession
  <2>3. ASSUME NEW id, ConnectLookup(id)
        PROVE  /\ pc = "idle" /\ disk' = disk
               /\ pc' \in {"probe", "mark"} /\ req'.op = "connect"
    BY <2>3 DEF ConnectLookup, Request
  <2>4. ASSUME NEW sid, Disconnect(sid)
        PROVE  pc = "idle" /\ disk' = disk /\ pc' = "ok" /\ req'.op = "disconnect"
    <3>1. PICK x : req' = Request("disconnect", x, Nil, Nil, sid)
      BY <2>4, Zenon DEF Disconnect
    <3>2. pc = "idle" /\ disk' = disk /\ pc' = "ok"
      BY <2>4 DEF Disconnect
    <3>3. QED
      BY <3>1, <3>2 DEF Request
  <2>5. ASSUME Reload
        PROVE  pc = "idle" /\ disk' = disk /\ pc' = "read" /\ req'.op = "reload"
    BY <2>5 DEF Reload, Request
  <2>6. QED
    BY <2>1, <2>2, <2>3, <2>4, <2>5, Zenon DEF Receive
<1>0. registryStatus = "idle" /\ registryChange = NoRequest
  BY <1>r DEF Placed, registryStatus, registryChange, NoRequest, Request, Saving
<1>1. CASE pc' = "snapshot"
  <2>1. req' \in Changes
    BY <1>1, ReceivePlaced DEF Placed, Saving
  <2>2. registryStatus' = "working" /\ registryChange' = req'
    BY <1>1, <2>1 DEF registryStatus, registryChange, Changes, Changing, Saving
  <2>3. QED
    BY <1>r, <1>0, <2>1, <2>2 DEF Visible
<1>2. CASE pc' # "snapshot"
  <2>1. /\ pc' \in {"fail", "probe", "mark", "ok", "read"}
        /\ req'.op \in {"none", "connect", "disconnect", "reload"}
        /\ pc' = "ok" => req'.op = "disconnect"
    BY <1>r, <1>2 DEF NoRequest, Request
  <2>2. registryStatus' = "idle" /\ registryChange' = NoRequest
    BY <2>1 DEF registryStatus, registryChange, Changing, Saving
  <2>3. QED
    BY <1>r, <1>0, <2>2 DEF Visible
<1>3. QED
  BY <1>1, <1>2

\* A handler on its way commits once, when the rename puts the table in the
\* place of the store, and answers once.
LEMMA ContinueVisible ==
  ASSUME Faults = {}, Consistent, Placed, Continue
  PROVE  Visible
<1>r. req \in Requests /\ NoRequest.op = "none"
  BY DEF Consistent, TypeOK, NoRequest, Request
<1>1. CASE Probe \/ Mark
  <2>1. /\ disk' = disk /\ pc \in {"probe", "mark"}
        /\ \/ pc' \in {"mark", "register"} /\ req' = req
           \/ pc' = "fail" /\ req' = NoRequest
    <3>1. CASE Probe
      BY <3>1 DEF Probe
    <3>2. CASE Mark
      BY <3>2 DEF Mark
    <3>3. QED
      BY <1>1, <3>1, <3>2
  <2>2. req.op = "connect"
    BY <2>1 DEF Placed
  <2>3. UNCHANGED <<registryStatus, registryChange, disk>>
    BY <1>r, <2>1, <2>2 DEF registryStatus, registryChange, Saving, Changing
  <2>4. QED
    BY <2>3 DEF Visible
<1>2. ASSUME NEW sid \in SessionIds, Register(sid) PROVE Visible
  <2>1. /\ disk' = disk /\ pc = "register" /\ pc' = "snapshot"
        /\ req.op = "connect" /\ req'.op = "connect" /\ req' \in Changes
    BY <1>2, RegisterRequest DEF Register, Placed
  <2>2. registryStatus = "idle" /\ registryChange = NoRequest
    BY <2>1 DEF registryStatus, registryChange, Saving
  <2>3. registryStatus' = "working" /\ registryChange' = req'
    BY <2>1 DEF registryStatus, registryChange, Saving
  <2>4. QED
    BY <2>1, <2>2, <2>3 DEF Visible
<1>3. CASE SaveSnapshot \/ SaveOpen \/ SaveWrite
  <2>1. /\ pc \in Saving /\ pc' \in Saving /\ req' = req /\ disk' = disk
        /\ pc # "down" /\ pc' # "down"
    BY <1>3 DEF SaveSnapshot, SaveOpen, SaveWrite, Saving
  <2>2. UNCHANGED <<registryStatus, registryChange, disk>>
    BY <2>1 DEF registryStatus, registryChange
  <2>3. QED
    BY <2>2 DEF Visible
<1>4. CASE SaveRename
  <2>1. /\ pc = "rename" /\ pc' = "ok" /\ req' = req
        /\ req \in Changes /\ req.op \in Changing
    BY <1>4 DEF SaveRename, Placed, Saving, Changes
  <2>2. /\ registryStatus = "working" /\ registryStatus' = "done"
        /\ registryChange = req /\ registryChange' = req
    BY <2>1 DEF registryStatus, registryChange, Saving, Changing
  <2>3. QED
    BY <1>4, <2>1, <2>2 DEF Visible
<1>5. CASE Reply
  <2>1. /\ pc \in {"ok", "fail"} /\ pc' = "idle" /\ req' = NoRequest
        /\ disk' = disk
    BY <1>5 DEF Reply
  <2>2. registryStatus' = "idle" /\ registryChange' = NoRequest
    BY <1>r, <2>1 DEF registryStatus, registryChange, Saving
  <2>3. CASE pc = "ok" /\ req.op \in Changing
    <3>1. registryStatus = "done"
      BY <2>3 DEF registryStatus, Saving, Changing
    <3>2. QED
      BY <2>1, <2>2, <3>1 DEF Visible
  <2>4. CASE ~(pc = "ok" /\ req.op \in Changing)
    <3>1. registryStatus = "idle" /\ registryChange = NoRequest
      BY <1>r, <2>1, <2>4 DEF registryStatus, registryChange, Saving, Placed
    <3>2. QED
      BY <2>1, <2>2, <3>1 DEF Visible
  <2>5. QED
    BY <2>3, <2>4
<1>6. CASE ReadFile \/ LoadObject
  <2>1. /\ pc \in {"read", "load"} /\ pc' = "load" /\ req' = req /\ disk' = disk
    BY <1>6 DEF ReadFile, LoadObject
  <2>2. UNCHANGED <<registryStatus, registryChange, disk>>
    BY <2>1 DEF registryStatus, registryChange, Saving
  <2>3. QED
    BY <2>2 DEF Visible
<1>7. CASE LoadDone
  <2>1. /\ pc = "load" /\ disk' = disk
        /\ \/ req.op = "boot" /\ pc' = "idle" /\ req' = NoRequest
           \/ req.op = "reload" /\ pc' = "ok" /\ req' = req
    BY <1>7 DEF LoadDone, LoadReturns
  <2>2. registryStatus' = "idle" /\ registryChange' = NoRequest
    BY <1>r, <2>1 DEF registryStatus, registryChange, Saving, Changing
  <2>3. CASE req.op = "boot"
    <3>1. registryStatus = "down" /\ registryChange = NoRequest
      BY <2>3 DEF registryStatus, registryChange
    <3>2. QED
      BY <2>1, <2>2, <3>1 DEF Visible
  <2>4. CASE req.op = "reload"
    <3>1. registryStatus = "idle" /\ registryChange = NoRequest
      BY <2>1, <2>4 DEF registryStatus, registryChange, Saving
    <3>2. QED
      BY <2>1, <2>2, <3>1 DEF Visible
  <2>5. QED
    BY <2>1, <2>3, <2>4
<1>8. ~SaveFails /\ ~ReadFails
  BY DEF SaveFails, ReadFails
<1>9. QED
  BY <1>1, <1>2, <1>3, <1>4, <1>5, <1>6, <1>7, <1>8 DEF Continue

\* A crash takes the registry down, and a boot is seen when it is over.
LEMMA ProcessVisible ==
  ASSUME Crash \/ Boot
  PROVE  Visible
<1>1. disk' = disk /\ registryStatus' = "down" /\ registryChange' = NoRequest
  BY DEF Crash, Boot, Request, registryStatus, registryChange
<1>2. registryStatus = "down" => registryChange = NoRequest
  BY DEF registryChange
<1>3. QED
  BY <1>1, <1>2 DEF Visible

\* No step of the service is seen as anything else.
LEMMA NextVisible ==
  ASSUME Faults = {}, Consistent, Placed, [Next]_vars
  PROVE  Visible
<1>1. CASE UNCHANGED vars
  BY <1>1 DEF Visible, registryStatus, registryChange
<1>2. QED
  BY <1>1, ReceiveVisible, ContinueVisible, ProcessVisible DEF Next

\* Every step of the component is a step of the registry or leaves it alone.
LEMMA NextAbstract ==
  ASSUME Faults = {}, IInv, Placed, Taken, [Next]_vars
  PROVE  [Abstract!Next]_(Abstract!vars)
<1>1. Visible
  BY IInvParts, NextVisible
<1>2. disk' = disk => Entries(disk)' = Entries(disk)
  BY DEF Entries
<1>3. SaveRename => Entries(disk)' = Abstract!Effect(req, Entries(disk))
  <2> SUFFICES ASSUME SaveRename
               PROVE  Entries(disk') = Abstract!Effect(req, Entries(disk))
    BY DEF Entries
  <2>1. pc = "rename" /\ disk' = Snapshot
    BY DEF SaveRename, IInv, Writing
  <2>2. QED
    BY <2>1, SnapshotEntries DEF Taken, Saving
<1>4. QED
  BY <1>1, <1>2, <1>3
     DEF Visible, Abstract!Next, Abstract!Start, Abstract!Commit,
         Abstract!Answer, Abstract!Crash, Abstract!Recover, Abstract!vars

\* The safety half of KeepsRegistry, for every instance: where no I/O fails,
\* the component is the registry.  Each answered add, update, delete or
\* connect is one change of the store, of exactly the effect asked for; a
\* crash or a restart at any step costs at most a change that was not made.
THEOREM ImplementsRegistry ==
  ASSUME Faults = {}
  PROVE  Spec => Abstract!Init /\ [][Abstract!Next]_(Abstract!vars)
<1>1. Init => Abstract!Init
  BY DEF Init, Abstract!Init, registryStatus, registryChange
<1>2. IInv /\ Placed /\ Taken /\ [Next]_vars => [Abstract!Next]_(Abstract!vars)
  BY NextAbstract
<1>3. QED
  BY <1>1, <1>2, RegistryInvHolds, Inductive, PTL DEF Spec

-----------------------------------------------------------------------------
(* What a change leaves in the registry.                                    *)

\* Only a delete takes a connection out, and only the one it names.
LEMMA EffectKeeps ==
  ASSUME NEW c \in Changes, NEW reg, NEW e \in reg,
         ~(c.op = "delete" /\ c.id = e.id),
         \A f \in reg : DOMAIN f = {"id", "proto", "target", "used"}
                        /\ f = [x \in DOMAIN f |-> f[x]]
  PROVE  \E f \in Abstract!Effect(c, reg) : f.id = e.id
<1>1. c.op \in {"add", "update", "delete", "connect"}
  BY DEF Changes, Changing
<1>2. CASE c.op = "add"
  <2>1. e \in Abstract!Effect(c, reg)
    BY <1>2 DEF Abstract!Effect
  <2>2. QED
    BY <2>1
<1>3. CASE c.op = "delete"
  <2>1. e \in Abstract!Effect(c, reg)
    BY <1>3 DEF Abstract!Effect
  <2>2. QED
    BY <2>1
<1>4. CASE c.op = "update"
  <2> DEFINE new(f) == IF f.id = c.id
                       THEN [f EXCEPT !.proto  = Abstract!Keep(c.proto, @),
                                      !.target = Abstract!Keep(c.target, @)]
                       ELSE f
  <2>1. Abstract!Effect(c, reg) = {new(f) : f \in reg}
    BY <1>4 DEF Abstract!Effect
  <2>2. new(e).id = e.id
    OBVIOUS
  <2> HIDE DEF new
  <2>3. QED
    BY <2>1, <2>2
<1>5. CASE c.op = "connect"
  <2> DEFINE new(f) == IF f.id = c.id THEN [f EXCEPT !.used = TRUE] ELSE f
  <2>1. Abstract!Effect(c, reg) = {new(f) : f \in reg}
    BY <1>5 DEF Abstract!Effect
  <2>2. new(e).id = e.id
    OBVIOUS
  <2> HIDE DEF new
  <2>3. QED
    BY <2>1, <2>2
<1>6. QED
  BY <1>1, <1>2, <1>3, <1>4, <1>5

\* A connection leaves the store only by a request to delete it, after any
\* requests, reloads, crashes and restarts, where no I/O fails.
THEOREM DropsAreDeletes ==
  ASSUME Faults = {}
  PROVE  Spec => SaveDropsOnlyDeleted
<1> DEFINE Kept == \A e \in Entries(disk) :
                      \/ \E f \in Entries(disk') : f.id = e.id
                      \/ req.op = "delete" /\ req.id = e.id
<1>1. IInv /\ Placed /\ Taken /\ [Next]_vars => [Kept]_disk
  <2> SUFFICES ASSUME IInv, Placed, Taken, Next, disk' # disk, NEW e \in Entries(disk),
                      ~(req.op = "delete" /\ req.id = e.id)
               PROVE  \E f \in Entries(disk') : f.id = e.id
    OBVIOUS
  <2>1. SaveRename
    BY DEF Next, Receive, Continue, Add, AddRejected, Update, Delete,
       UnknownConnection, ConnectLookup, Disconnect, UnknownSession, Reload,
       Probe, Mark, Register, SaveSnapshot, SaveOpen, SaveWrite, SaveFails,
       ReadFile, ReadFails, LoadObject, LoadDone, Reply, Crash, Boot
  <2>2. disk' = Snapshot
    BY <2>1 DEF SaveRename, IInv, Writing
  <2>3. Entries(disk') = Abstract!Effect(req, Entries(disk)) /\ req \in Changes
    BY <2>1, <2>2, SnapshotEntries DEF SaveRename, Placed, Taken, Saving
  <2>4. \A f \in Entries(disk) : f \in Objects
    BY SeqElement DEF Entries, IInv, TypeOK
  <2>5. \A f \in Entries(disk) : DOMAIN f = {"id", "proto", "target", "used"}
                                 /\ f = [x \in DOMAIN f |-> f[x]]
    BY <2>4 DEF Objects
  <2>6. QED
    BY <2>3, <2>5, EffectKeeps
<1>2. QED
  BY <1>1, RegistryInvHolds, Inductive, PTL DEF Spec, SaveDropsOnlyDeleted
=============================================================================
