# Verification of the Kin Guacamole gateway

This directory specifies and checks `guacamole.service` and what surrounds it:
a system service of Kin that stores remote-desktop connections, serves clients
of the Guacamole protocol, and tunnels browsers to them. The specifications are
TLA+, checked on small instances with TLC; the theorems are proved with TLAPS
for every value of the constants.

All source paths below are relative to the repository; the service is
`services/guacamole.service/`.

## 1. Inventory

### Components, their state and operations

| Component | Source | State | Operations |
|---|---|---|---|
| Registry and store | `management.c` | `g_connections[256]` with `g_connection_count`, under `g_connections_lock`; `g_sessions[256]` with its count, under `g_sessions_lock`; the file `Guacamole.info` and its `.tmp` | add, update, delete, connect, disconnect, reload; boot; save (snapshot, open, write, rename), load; the queries list, get, active, protocols, settings |
| Protocol clients | `service.c`, `connection_thread` | for each client a detached thread with its pointer into `g_connections`, its plugin, its thread-local copy `t_stored_conn` | select a stored connection or a protocol, load the plugin, copy the parameters, mark the start, serve, mark the end |
| Tunnel tickets | `tunnel.c` 21-105, 255-259 | the list `g_tickets` under `g_ticket_lock` | issue (on the IPC thread), prune, consume (on a thread for each request), clean up |
| Tunnel relay | `tunnel.c` 107-253 | for each browser a thread, its WebSocket and a socket pair to a protocol client | HTTP upgrade, frame and unframe, relay both ways, close |
| Main loop | `service.c` `main`, `on_signal` | `g_running`, the wake pipe, two listening sockets | start, poll, accept, stop |
| IPC dispatch | `service.c` `ipc_handler`, `ipc_pump_thread`; `polykernel/modules/guacamole.module.c` | none of its own | take one message, find its handler, run it, answer |
| JSON encoding | `management.c` 60-147, 221-267, 333-362 | none of its own | escape, find a field, find an object |
| Command-line client | `commands/guacamole.cmd/main.c` | one request in flight | send, wait about 10 s, print |
| Admin app | `kin_guacamole_admin/app.js` | copies of the lists, an edit index, the selected session, a viewer | load, edit, save, remove, connect, select, disconnect |
| Web viewer | `kin_guacamole_admin/guac-viewer.js` | client, generation | request a ticket, connect, disconnect |

### How they interact

* The HTTP server and the command line send messages over the Kin bus. **One**
  thread (`ipc_pump_thread`) takes them one by one and runs the handler to its
  end, so handlers never interleave with each other.
* Every protocol client has a thread of its own. These threads look connections
  up (`guac_mgmt_find_connection`), which takes the lock only for the search,
  and go on to use the pointer it returns while the IPC thread changes the
  table. They mark a connection active and idle again.
* A browser asks for a ticket over IPC, presents it on a WebSocket, and its
  tunnel thread starts a protocol client for the connection the ticket names.
* The process may end at any moment; what is left is the `.info` store.

### What is hard, and what makes each component correct

* *Registry*: a crash, or a failure of a file operation, between any two steps
  of a save or a load; long mixes of adds, swapping deletes and reloads. Correct
  means: it behaves as a durable registry (module `Registry`), never mixes up
  identifiers, never leaves half a save, always answers.
* *Protocol clients*: the unlocked pointer against every handler. Correct means:
  a client gets the connection it selected; lookups fail only for a reason.
* *Tickets*: requests, issues, pruning and cleanup at once, the last second of
  a ticket's life. Correct means: used once, for what it was issued, for its
  time and no less.
* *Relay*: framing across partial reads, one thread for two directions, closing
  in both orders. *Main loop*: a signal at any point. *Encoding*: what is
  written must read back. *Clients*: a late answer after a timeout, indexes and
  generations that are stale when an answer arrives.

`PROJECT.json` lists each hazard with its line, and the properties about it.

## 2. Modules

| Module | What it is |
|---|---|
| `Registry` | abstract: a durable registry of connections, one change at a time |
| `Management` | `management.c` and its store; refines `Registry` |
| `Gateway` | `connection_thread` for any number of clients, extends `Management`; refines `Registry` but for `last_used` |
| `Tickets` | the tickets of `tunnel.c` |
| `Relay` | one tunnel of `tunnel.c`, between a browser and a protocol client |
| `MainLoop` | `main` and `on_signal` of `service.c`, for processes that may overlap |
| `Dispatch` | the HTTP route, the command line and the pump thread |
| `Codec` | JSON text: `json_escape`, `json_field_str`, `next_json_object` |
| `AdminApp` | `app.js` with `guac-viewer.js` |
| `MC*` | values of the constants for TLC |
| `*_proofs` | the theorems about the module before the underscore; `Management_proofs` ends with the refinement of `Registry` |

A definition whose comment begins "Mutant" or "A plausible bug" is a variant of
the one that follows it and is in no specification. `PROJECT.json` names the
property that notices it.

### Management

`connections` is the whole array, the slots past the count included: delete and
load leave records there, and a client thread may still point to them. A record
keeps what the properties tell apart: its identifier, its protocol, its
`target` (host, port, credentials and the other parameters, always copied
together), `active`, and `used`, which stands for `last_used # 0`. `Nil` is an
empty field. `disk` and `tmp` are the two files as sequences of objects.

`pc` is where the IPC thread is, `req` what it works on. A handler is cut into
steps where something else can happen or be seen: each critical section is one
step; a save is `SaveSnapshot` (the table is serialised under the lock),
`SaveOpen` (truncates the temporary file), `SaveWrite`, `SaveRename`; the load
takes a step for each object, since threads wait for its lock and a crash can
cut it short. `Add`, `Update` and `Delete` are the part of their handlers up to
the end of the critical section, with the save as the steps that follow; each
ends in `Reply`. `handle_connect` is `ConnectLookup`, `Probe` (answers either
way), `Mark`, `Register`, and the save.

Faults: with `"save" \in Faults`, `SaveFails` stands for the failure of
`malloc`, `open`, `write` or `rename`, which the code treats alike: it goes on.
With `"read" \in Faults` a load can return at once (`ReadFails`). With
`"random" \in Faults`, `generate_id` cannot read `/dev/urandom` and mixes the second
and the process into an identifier, which repeats one of the same second: `Generates`
then allows any. `Crash` is
the end of the process at any step, by a signal or otherwise; `Boot` is the
next start. A crash between the write and the rename leaves the temporary file.

Abstractions. Identifiers that were read from `/dev/urandom` never repeat (`issued`), as
16 random bytes do not. Session identifiers may be used again once a session has ended, which allows
more than the code does. Files are those the service wrote, and hand-edited
ones whose objects carry distinct identifiers (`FilesAssumption`); the store fits
the table, as any file it wrote does. A power loss that reorders a rename and
a write (nothing is synced) is not modelled, nor is the limit of 2 MiB on a
save, which 256 records of the maximal size can reach. Queries change nothing
and are left out.

The refinement mapping to `Registry` is at the end of the module: the registry
is what the store holds, a change is `working` from the first step of its save
to the rename, which commits it, and `done` until it is answered. `Saving`,
`Changes`, `Changing`, `registryStatus` and `registryChange` belong to the
mapping and model no code.

### Gateway

A thread is at a stage `at[t]` of `connection_thread`: `find`, `load` (the
plugin), `copy`, `start` (mark), `user`, `live`, `ending`. `slot[t]` is the
pointer, kept as an index and used without a look at the count. The lock
matters to a thread only while a load holds it over several steps
(`LockFree`); every other critical section is a single step.

`t_stored_conn = *conn` is not atomic and races with the handler that writes
the slot. A copy that overlaps a handler's step is `TornCopy`: each field reads
as it was before the step or after it, or as zero when a slot past the end is
cleared first. The outcome of a race within one field is not modelled.

`moved[t]` is a history variable: a delete or a reload has shrunk the table
since the lookup. `StaleCopyNeedsCompaction` is stated with it.

`Parametric` is `Registry` again, with entries that carry no mark (`Unmarked`) and with
a connect as an update that gives no field (`Unmarking`): a viewer sets `last_used` in
the table and saves nothing, so some later save stores it, and the registry with marks is
not what the component among viewers implements. `ViewersKeepRegistry` is the safety half.

### Tickets

`guac_tunnel_ticket_issue` is `Build` (value and expiry), `Insert` (prune and
list, under the lock), `Answer` (reads the expiry for the reply, without the
lock). `Serve` and `Refuse` are `guac_tunnel_ticket_consume` for a request.
`Tick` is the clock. `asked` and `when` are history. A client presents a value
it has been told, or text that is no ticket. The user of a ticket is stored and,
as in the code, never looked at by the tunnel.

### Relay

`pc` is where `tunnel_client` is. It reads or writes one thing to its end before
it looks at another, so a step of a read or write is a step of the model, and the
thread can wait at each: a frame is read as `ReadHead` and `ReadBody`, what is
written is written unit by unit (`WriteBrowser`, `WriteProtocol`), and each
direction is full after `DownCap` or `PairCap` units. `AfterWrite` and
`AfterFailure` say where the code goes on. The function is left at nine places: `Exits`
names them, with one name for the three refusals. `Closes` is the list of descriptors that
the code closes at each (`tunnel.c` 198, 203, 210, 216, 223, 224, 226, 228, 236), and `Shut`
closes just that list, open or not. A descriptor that is closed without being open is
`"stray"`. `revents` is what the last `poll`
returned, as read by the rest of the round.

The protocol client's output is counted in units; two make an instruction, and
the first instruction is its `args`. One read takes at most `BufCap` units, which
stands for the 65536 bytes of `buf`, so a text frame can end inside an instruction
as it can in the code. `wrote` and `fed` are everything written to either side,
`seen` and `taken` how far the two sides have read.

`Browser` and `Protocol` are the environment. The browser's frames come in two
pieces, of every opcode (`Odd`: ping, close, unmasked or too long, ignored); it
may close at any point. When the thread closes the WebSocket with input unread,
the connection is reset and what the browser has not read is lost (`reset`).
That libguac reads and writes on threads of its own is an assumption on it.
The HTTP request is one piece. `HandshakeTimeout` is the end of the 30 s that
`guac_user_handle_connection` waits for an instruction (`service.c` 401): it ends a client
whose `args` nobody answers, and happens only when no input is on its way to it
(`timedOut` remembers it).

### MainLoop

A process is a number, and processes start in order, possibly while an earlier
one is still alive. `Start` to `OpenPipe` are the start of `main`, `TestRunning` to
`AcceptTunnel` a round of the loop, `ClosePipe` to `Finish` the cleanup. A
signal is handled on the main thread, which it interrupts, or on another one,
which it does not: `SetFlag`, `TestPipe` and `WriteByte` are the three steps of
`on_signal`, so that any step of `main` can come between them. `path` and `port`
are what is bound at the socket path and the tunnel's port, and by whom. A
process that starts while another lives is `shared`, and so is the other.
`Crash` ends a process at any step and leaves the path.

A client waits in the backlog of a listener until it is accepted or the listener
closes (`Settle`, `settled`). What becomes of an accepted client is the subject of
`Gateway` and `Relay`. `Failure` is a system call that fails: of the start (`StartFails`);
an `accept`, as often as it likes, after which the round ends (`AcceptFails`), at the first
listener before the tunnel's is served; or a `poll` or `accept` that breaks the loop
(`LoopBreaks`). `PathFits` says whether `sun_path` holds the path: if it does not, `bind` cuts it and
`unlink` does not (`Unlinked`). At `"drain"` the code would read the wake pipe until a read
fails; its read end blocks. The step is not modelled because no state gets there
(`NeverDrains`, proved). `ClearPipe` is separate from `ClosePipe`: between the two
a handler may write to a closed descriptor, which the model lets fail.

### Dispatch

A caller is a run of the command (`Runs`) or an HTTP request (`Posts`). `Reject`,
`Post` and `PostFails` are the route and the sending; `Take` is the pump thread
taking one message, `EmptyCommand`, `Request` and
`ManagementNull` the ways it is answered; `Respond` is the bus. `Receive`, `Look`
and `GiveUp` are the callback and the polling loop of the command, whose
`Patience` rounds stand for its 10 s. `frame` is the set of callers the bus
holds a pointer into, `seen` what the caller was told. What a handler of `management.c`
does, and whether its answer is true, is the subject of `Management` (`Durable`,
`ConnectIsListed`); here a request is answered with success or failure. With `PumpFails`
the service may run without its pump thread or its handler (`pump`). With `NoMemory` a handler may return NULL: the constant that is sent
instead is then given to `free` (`service.c` 144-149), modelled as the end of the process
(`alive`).

### Codec

Character by character where a character matters: quotes, backslashes, braces,
line breaks (`Newline` for newline, return and tab) and `x` for all others. A
connection has two fields. `text` stands for the eleven that a save escapes: one without
which a load skips the object, one that an update cuts. `protocol` is written as it is,
which is harmless for what an add accepts (`Supported`), and not for what an update
does. The id is written so too, and is hexadecimal. `ProtocolCap`, `FieldCap`, `ValueCap` and
`EscapeCap` are the arrays of 32, 1024, 256 and 2100 bytes. A request is taken to fit the
command's `BODY_CAP`. The functions are recursive over the places of a text, with the
state the C loops keep: `ReadNext` is one turn of the loop of `json_field_str`
(`at` says whether the last character was a backslash whose successor is still to
be seen, and whether the loop has ended), `ScanNext` one of that of
`next_json_object` (`at` is where it is: between objects, in an object, in a
string of one, behind a backslash, or at the end). The name of a field is one sign,
for no text can spell what `json_field_str` searches for: in an escaped text a
quote follows a backslash. `given` is what the requests gave, uncut. `AllHarmless` says
that no protocol in the table needs an escape. Where one does, a load may find anything, and
`given` starts afresh from what it has found.

### AdminApp

JavaScript runs one task at a time, so an action is a function up to its next
`await`. `calls` are the requests under way: what was asked, which function
awaits the answer, and what that function remembers (`was`, `current`). The
service answers each at some point, with what it holds then or with a failure,
and calls continue in any order. `current` is the comparison of generations in
`guac-viewer.js`. The list and the rows on the screen are rebuilt in the same
task, so a row is an index. `form` is the connection whose parameters the form shows, and
`editIndex` the row it was opened for. `FetchFails` is a rejected `fetch`: the function that
awaits it throws, and nothing follows. Left out: protocols and settings, which are
loaded once and shown, the window a connection can open in, display and input.

## 3. What is checked

`tlc -config <run>.cfg <module>`; the numbers are of distinct states.

| Run | Module | Shows |
|---|---|---|
| `MCManagement` | MCManagement | no faults, crashes anywhere: `TypeOK`, `UniqueIds`, `Durable`, `KeepsRegistry` (refinement), `RequestsFinish` (423 000) |
| `MCFaults` | MCManagement | reads and saves of the store and `/dev/urandom` may fail as well: `StoreChangesWhole` (1.46 million) |
| `MCGateway` | MCGateway | a client thread among the handlers: `StaleCopyNeedsCompaction`, `ParametersDurable`, `RefusedViewerWasUnstored`, `ViewersKeepRegistry` (refinement), `ViewersProgress` (595 000) |
| `MCTickets` | MCTickets | `SingleUse`, `GrantAsIssued`, `RefusedForAReason`, `ListedAsTold` (symmetry) |
| `MCRelay` | MCRelay | what is relayed is whole and in order (`InputInOrder`, `OutputIntact`, `LastWords`), how a tunnel ends (`RefusedKeepsTicket`, `NothingLeaks`, `TunnelEnds`, `BothSidesEnd`), and that it does not get stuck (`InputDelivered`) (1.09 million) |
| `MCMainLoop` | MCMainLoop | `NeverDrains`, `Reachable`, `StartsAfterCrash`, `SignalEnds`, `ClientsSettled` (200 000) |
| `MCCodec` | MCCodec | `TypeOK`, `PlainTextKept`, `NothingLost`, `DamageSettles` (3 200) |
| `MCAdmin` | MCAdmin | `TypeOK`, `ViewerShowsWanted`, `ConnectOpensItsOwn`, `CallsEnd` (788 000) |
| `MCDispatch` | MCDispatch | `FrameIsLive`, `PostsAnswered`, `RunsEnd` (160 000) |
| `MCInjects`, `MCUnread`, `MCForm` | | must be violated: section 4 |

### Bounds, and why they suffice

* *Management.* Two slots and three identifiers let a table be full, let a
  delete move a record and leave a stale slot, and leave an identifier to add
  afterwards; two protocols are needed only for the connect that is not probed.
  One session slot makes the list full after one connect. The initial stores of
  `MCManagement` include an incomplete object in front of a complete one, which
  a load must step over. `MCFaults` has two identifiers, one of
  sessions and one protocol: how a store is replaced does not depend on them.
* *Gateway.* One thread: threads affect each other only through `active` and
  `used`, which these properties do not mention; the proofs of all but
  `ViewersProgress` are for any number. The one host makes updates stutter here, not in the proofs.
  There is one identifier of sessions, so a connect that meets a full list gets no further; what
  such a connect does is in `MCManagement`, and threads do not look at sessions.
* *Tickets.* Two tickets and three requests make a request compete for a ticket
  while another is pruned; five instants with a lifetime of two let a ticket be
  fresh, in its last second, and gone.
* *Relay.* Two frames of six kinds let any kind precede any other; four units of
  output make two instructions and exceed both the buffer and the pair, so a
  frame is cut and both directions can be full at once; any step of the set-up fails.
* *MainLoop.* `Last` = 2 processes of which the second overlaps or succeeds the
  first; `MaxSignals` is 0 for the first and 2 for the second, so that
  a signal can be handled on each thread, at once, of a process that has found
  things as the first left them; `MaxBytes` 1 lets the pipe be full. One
  client of each listener; accepts and polls fail any number of times.
* *Dispatch.* Two commands and one HTTP request make each wait for another on the
  one thread; `Patience` 2 lets a late answer come before, between and after the looks.
* *Codec.* `ProtocolCap` 3, `FieldCap` 5, `ValueCap` 4 and `EscapeCap` 9 let texts be cut between
  any two of their characters, behind a backslash and inside an escape. `ObjectCap`
  is exactly the longest object two fields can make, in the proportion in which
  8192 exceeds what eleven can (8105).
* *AdminApp.* Two calls, four moves of the users and two sessions reach each
  answer being overtaken by another answer and by a move.

Actions that stop by design end in states with no successor: the clock of
`MCTickets`, the closed tunnel of `MCRelay`, the ended processes of `MCMainLoop`,
the told callers of `MCDispatch`, the users of `MCAdmin`. Deadlock is not checked
there, and liveness is checked instead (`RefusedForAReason` for the tickets). It is
checked in the other runs.

### Fairness

Threads are scheduled, so what a thread can do for ever it does: `WF` of
`Continue` (the pump thread in `Management`), of each client thread (`Advance`),
of the tunnel's thread, of `main` and of each running signal handler, and of
`Take` and the answers in `Dispatch`. Requests, crashes, restarts, hang-ups and
signals are never bound to happen.

* `ViewersProgress` has the premise `<>[]LockFree`: taking the mutex is only weakly
  fair, and reloads repeated for ever could starve a thread.
* `Relay` asks the browser to finish a frame it has begun and to read what it is
  sent, and the protocol client to read its input. Without this the thread
  waits for ever: but for the 30 s of the handshake, which end the protocol client
  (`HandshakeTimeout` is fair, as a clock is), the code sets no timeout. The liveness of a tunnel is as good as its peers.
* No failure is bound to happen, nor to stop. `ClientsSettled` has the premise that accepts
  fail no more from some point on: while the first listener's do (no descriptors are
  left), each round ends before the tunnel's listener is served, and its clients wait.
* `AdminApp` asks that every request is answered or fails, as `fetch` does, and that
  the browser runs what awaits it.

## 4. Where the code and what is said of it differ

Each line is a property that says what a document or a comment says, and that TLC
violates by what the code does. The first three are among the runs of `PROJECT.json`; the
others have a configuration beside them, to be run in the same way.

| Configuration | Module | Property | What happens |
|---|---|---|---|
| `MCInjects` | MCGateway | `InjectsSelected` | a delete between a client's lookup and its copy (`service.c` 373): the client is given another connection's host and credentials. `StaleCopyNeedsCompaction` shows that a delete or a reload is needed for it |
| `MCUnread` | MCManagement | `SaveDropsOnlyDeleted` | a load that cannot read the store leaves the table empty (`management.c` 369), and the next save erases what was stored |
| `MCForm` | MCAdmin | `SaveUpdatesShown` | a list that arrives, or a removal, while the form is open: Save updates another connection than the one shown (`app.js` 412) |
| `MCUnsaved` | MCManagement | `Durable` | a save that fails is answered with success (`management.c` 299, 302); a restart undoes the change |
| `MCListed` | MCManagement | `ConnectIsListed` | with the list of sessions full, a connect succeeds and names a session that is not listed (`management.c` 876) |
| `MCProtocol` | MCCodec | `ConnectionsSurvive` | an update stores any protocol (`management.c` 659), a save writes it unescaped (248); a quote in it makes a load lose connections, which `next_json_object` is said to find exactly (331-332) |
| `MCKey` | MCCodec | `ParametersSurvive` | a line break in a stored text comes back as the six characters `\u000a` after a restart (`management.c` 73) |
| `MCEdit` | MCCodec | `EditedAsGiven` | an update cuts a private key to 255 characters (`management.c` 655, 669) |
| `MCHandshake` | MCRelay | `HandshakeServed` | the tunnel writes `select` and then only relays. `TESTING.md` 93-94 says that it does the handshake for the browser; the protocol client of a browser that relies on it gives up after 30 s |
| `MCPath` | MCMainLoop | `StartsAfterCrash` | a socket path longer than `sun_path` is cut for the bind and not for the unlink (`service.c` 493, 498): after a crash the next process finds it in use |
| `MCAbort` | MCDispatch | `CallsProcessed` | the constant sent for a NULL answer is given to `free` (`service.c` 144-149), which ends the process with requests waiting |
| `MCDisconnect` | MCAdmin | `DisconnectClosesItsOwn` | whether a session is the selected one is decided before the request (`app.js` 497); its answer closes the viewer opened since (505) |

What follows was met while modelling. It is in the models as the code has it, and no
property contradicts it.

*Registry and clients*
* Without `/dev/urandom` two identifiers of one second are the same (`management.c` 31-39),
  and every lookup finds the first of the two. `UniqueIds` is stated, checked and proved for
  the other case.
* A viewer that closes leaves its session listed, and disconnecting a session
  leaves its viewer connected (903-922); the app's `docs/manual.md` 11 reads
  otherwise.
* A reload (416, 950), or the first of two viewers to close (`service.c` 410), shows a
  connection as idle while a viewer is live.
* A viewer that looks a connection up between the two critical sections of a reload (947)
  is refused it. `RefusedViewerWasUnstored` counts the reload as a reason.
* The plugin is chosen from the record at one moment (`service.c` 358) and the
  parameters are copied at another (373): an update between the two gives the plugin
  of one protocol the parameters of another. It is the window of `InjectsSelected`.
* An update ignores width, height, dpi and the `enable_` flags and cannot clear a
  field, though the help of the command (`main.c` 232) says that only the fields given
  change.
* The list of connections is written into 65536 bytes without regard for what has
  been written (447).

*Process and messages*
* `msg_body` points into an array whose block has ended (`service.c` 95).
* Messages are cut at 65536 bytes (88), while the route allows 530000.
* A process that starts while another lives does not get the tunnel's port and
  never asks for it again (520); it takes over the path, which the other then
  unlinks when it ends (600). `Reachable` and `StartsAfterCrash` are for processes
  that were alone.
* After a failed accept the tunnel's listener has to wait for the next round
  (579-584), and as long as accepts keep failing it is not served at all.
* While the wake pipe is closed and not yet forgotten (596), a handler on another thread
  may write to a descriptor that has been given out again.
* `connection_thread` closes the client's descriptor, which libguac has closed when it freed
  its socket, a second time (413-417).

*Tunnel*
* The expiry of a ticket is read after the lock is released, from memory that
  cleanup may have freed (`tunnel.c` 83).
* The user of a ticket is stored and never compared with anything, though the app's
  `docs/manual.md` 11 calls a ticket tied to its user.
* A text frame ends where a read ended (233), which may be inside an instruction or
  a character.

*Admin app*
* The index of the selected session is not looked up again in a new list (308-314).
* A late answer to a save closes whichever form is open by then (446).

## 5. What is proved

`tlapm <module>_proofs.tla`, for each of the eight modules (`Gateway_proofs`
extends `Management_proofs`). The theorems hold for
every value of the constants that satisfies the ASSUMEs of the modules: limits and
capacities are positive, `Nil` is no name, initial files fit the table and name
nothing twice, the arrays of `Codec` hold what is written into them (below), the
lifetime of a ticket is 1 to 300 s, clients and browsers differ, the connections the
admin app can meet are finitely many.

**Management.** `TypeCorrect` and `StoreIsWhole` hold for every table size, every set of
names and every set of faults; `IdsAreUnique` for those without `"random"`, that is, while
`generate_id` can read `/dev/urandom`, whichever reads and saves of the store fail;
`TableIsDurable` where no I/O fails. `UniqueIds` is not inductive: a load fills the table from a file,
so the file must name nothing twice either, and its objects must differ from
what has been read so far; a save writes the table into that file. `IInv` says
this: `SoundTable` (what the table holds is complete, issued, and unique),
`SoundFiles` (so are store, temporary file and buffer, and they fit the table),
`Loading` (a load starts from an empty table, and what it has still to read
is not yet there) and `Writing` (between the snapshot and the rename the buffer,
and then the temporary file, is the table as it still is, for no request can
change it meanwhile). The proof takes the actions one by one
(`AddIInv` ... `ProcessIInv`). All of it but `Writing` is `Consistent`, which is inductive
by itself (`NextConsistent`) and is what holds among viewers too; `NextIInv` adds
`Writing`. `StoreIsWhole` follows: only the rename changes the store, and by `Writing` it
puts the snapshot there.
`TableIsDurable` adds `Settled`: table and store agree wherever no change is
under way, and a load has taken over exactly the complete objects it has passed.

**Registry.** `ImplementsRegistry`: for `Faults = {}` the initial states of
`Management` are initial states of `Registry` under the mapping, and every step is
a step of it or a stutter. Besides `IInv` and `Settled` this needs `Placed` (which
request is in progress where) and `Taken`: from the change of the table to the rename,
the table is the store with the effect of that request. `NextVisible` says what the
registry can see of each step, without saying what the registry holds, so that the
proof of `Gateway` can use it too. `DropsAreDeletes` follows from `Taken`: the rename
puts the effect in the store, and only the effect of a delete leaves an entry out. Its
property, `SaveDropsOnlyDeleted`, is in no passing run, since `KeepsRegistry` implies it
without faults; with failing reads it is what `MCUnread` violates.

**Gateway.** `GTypeCorrect`, and `StaleCopies` for any number of threads and any
faults. `StaleCopyNeedsCompaction` speaks of the copy; the invariant `GInv` says
why it comes out right. `Pointers`: a thread has a pointer exactly from its lookup
to its mark. `Steady`: as long as nothing has moved, the pointer is to a slot in use
whose record has the identifier that was looked up. `Processes`: no thread outlives
its process. An add writes behind the count, an update and a mark keep the
identifier, a delete and a load set `moved`. That the table names nothing twice is not needed.

Where no I/O fails, `ParametersAreDurable`, `RefusedViewers` and `ViewersKeepTheRegistry`
say what viewers cannot spoil. Their marks change the table between a
request's change and its save and set `last_used` without a save, so neither the exact
`Settled` nor the exact `Writing` holds any more. `StoredInv` is what does: table and store
agree in the parameters (`ParametersSettled`), a save carries the parameters the table
has now (`ParametersWriting`), and until the save is in place only the connection that
is being deleted is stored and not in the table (`Present`); the load has the lock, so
nothing is marked while it is at work. For the refinement, `TakenUnmarked` is `Taken` with
the marks left out, and `EffectUnmarked` says that a connect, seen so, is an update
that gives no field.

**Tickets.** `TicketsAreSingleUse`, `TicketsAreBound`, `TicketsAreTold` and
`RefusalsHaveAReason` hold for any number of tickets, requests and instants. The
invariant is that a value is in one place at a time (`OnePlace`: about to be
listed, listed once, or used), and that listed tickets are what was asked for
(`Genuine`); a refusal adds what may have happened to a value that is in none of
these places.

**Relay.** `TicketsAreKept` and `DescriptorsAreClosed`, for any buffers and bounds. The
second compares the lists in `Closes`, exit by exit, with what is open when the thread gets
there: nothing is left open and nothing closed twice.
`RInv` ties `pc` to the rest: `Asked` (the request is read before any frame is
sent), `Busy` (there is something left to feed wherever the thread feeds, and a
frame it reads the payload of is not a bad one), `Answered` (the ticket is held
until `upgrade`, and nothing but a refusal is written while it is), and `Ends` (which
end of the pair is open at which `pc`, and that a running protocol client has the second).

`InputArrivesInOrder`, `OutputIsIntact` and `LastWordsAreSent` speak of sequences that
grow and are filtered. No induction over them is needed: each has an invariant that a
step extends by one element.
`Input` is that heads and bodies of frames alternate (`Paired`), that what has been fed is
"select" and a prefix of what was typed (`InOrder`), and that there are counts of the
instructions before each piece under way (`Counts`), which stand for the filter.
`Framing` is that an unfinished text frame exists in the relay only, that it is completed
as long as the browser is there, and that the payloads are together what was read.
`HangUp` is that the thread has read all that a protocol client left, if its buffer takes
it, before it acts on the hang-up. `LastWordsAreSent` keeps the conditions of `LastWords`: the
browser is there, its input was all delivered, and no more than one buffer of output was left.
The code drops the rest (`tunnel.c` 232-234).

**MainLoop.** `PipeIsNeverDrained` from `FlagFirst`: as long as the flag says to go on, no
handler has got past setting it, so the pipe is empty and no poll has seen a byte;
and main tests the flag after the poll and before it looks at what the poll saw. `ServiceIsReachable` and `StartIsClear`
from `PInv`: processes that were alone do not overlap (`Apart`), and own the path from
the bind to the cleanup (`OwnsPath`). `StartIsClear` assumes that the path fits.

**Dispatch.** `CallbacksAreLive`: a caller whose callback the bus holds is waiting, for
any number of callers and any patience.
`DispatchAssumption` says that `Nil` is none of the answers.

**AdminApp.** `ViewerIsCurrent`: a ticket request whose generation is still the
viewer's is for `wanted` (`VInv`), since each step that changes `wanted` makes the
others outdated. `ConnectsOpenTheirOwn`: each session has its connection for good
(`OwnedBy`), every list a call is answered with agrees with that, and a connect carries
the number of a session of its connection from its answer to the selection.
`AdminTypeCorrect` needs to know that indices stay within their lists, whichever list
is replaced under them (`TInv`: `Lists`, `FormTyped`, `Selection`, the types of the calls);
the lists are finite since the connections are assumed to be, of which the service
keeps at most `MAX_CONNECTIONS`.

**Codec.** `CodecTypeCorrect`, `PlainTextIsKept`, `NothingIsLost` and
`DamageIsSettled` hold for texts and tables of any size (the last two while no protocol
needs an escape, `AllHarmless`) and for arrays of any size
with what `CodecAssumption` says of the code's: a field's array takes at least one
character, the one `update` reads through lies between them (32, 256 and 1024); an escape
array takes a field all of whose characters take two, and one escape of six (2100 for
1024, and at least twice the field for the others); and `obj` takes the longest
object (8192 for 8105).

What a recursive function makes of a text is proved by induction on the places of
the text, not by a theorem that takes the property as an operator: `Least` is the
well-ordering of the numbers, `Upto` is induction as a fact about a set, and each proof
names the set of places where its property holds. `Runs` is why such a function
exists at all, and `EscapeRun`, `MessageRun`, `ValueRun`, `ScanRun` and `StoredRun`
give its values from one place to the next. Then:

* `EscapedSealed`: what `json_escape` makes of any text is sealed. A reader that pairs
  each backslash with its successor meets no quote outside a pair and ends outside one,
  even when the text was cut for want of room.
* `FieldOfObject`: the name of a field stands in one place of an object. `ReadMessage`: from
  there `json_field_str` reads back what a client wrote, up to the size of its array.
  `ReadSealed`: of a sealed text it reads something that fits, is without control
  characters, and is not empty unless the text was. `EscapedPlain`: without control
  characters, the store has what a client would have written.
* `ScanObject`: `next_json_object` takes an object of two sealed texts as a whole, whatever
  braces and quotes are in them; `ScanStored` puts the objects of a store together.
  `HarmlessText`: a protocol without quotes, backslashes and line breaks is one although it is
  written as it is. `StoreLoad`: a load of what a save wrote of a table with such protocols
  (`TameTable`) is each connection reread (`Reread`) in its place.

`CodecInv` is what a load needs to know. `NothingLost` and `DamageSettles` speak of a save
made now, and need only that the table is sound (texts fit, hosts are not empty,
`Sound`). `PlainTextKept` is not inductive: a load takes the table from the store, which
must therefore be what a save made of the table, or what the last load made the table of; in
both cases a text without control characters is the same in the table and in the store
(`Given`). A store that a protocol has spoiled yields a table of which it is only known that
its texts fit (`LoadedFits`).

The inductive invariants were checked with TLC on the instances above first, but for
`CodecInv`, which quantifies over all tables; its consequences are what `MCCodec` checks. The
type invariants of `Tickets`, `Gateway`, `Relay`, `MainLoop` and `Dispatch` are proved
and in no run.

## 6. Only model-checked

* Liveness: `RequestsFinish`, `ViewersProgress`, `TunnelEnds`, `BothSidesEnd`,
  `InputDelivered`, `SignalEnds`, `ClientsSettled`, `PostsAnswered`, `RunsEnd`, `CallsEnd`, and the
  liveness half of `KeepsRegistry`. Out of the prover's reach.

Everything else the passing runs check is stated by a theorem. What a theorem adds is the
instances TLC cannot reach; what TLC adds is that the mutants in `PROJECT.json` are found,
and the violations of section 4, which no theorem is about.

## 7. Not modelled

* The queries (list, get, active, protocols, settings) change nothing. How numbers and
  flags are written and read, and the length of what a list writes, are left out
  of `Codec`.
* In the web client: the lists of protocols and settings, `viewer.js` (it connects once,
  with the viewer that is modelled), display, mouse and keyboard.
* External: the protocol plugins and libguac (a thread that is live until one side
  hangs up), the Kin bus (one message at a time), nginx, the vendored
  `guacamole-common.min.js`.
* Styles, icons, the UI description, packaging, build and test scripts hold no
  state of the running system.

What could follow: `Tickets`, `Relay` and `Gateway` composed in one module, so that a
ticket's connection is followed from the request to the copied record.
