# A TLA+ development of the remote update system

The repository is a central server and any number of clients on TCP sockets.
The server offers applications, counts their versions, sends files and pushes
new versions to connected clients; a client verifies a file, installs it, or
stages it while its application is locked, and a background thread applies what
was staged. Everything persistent is a few small files on either side. What is
hard about it is not the data but the order of things: threads that look and
then act, connections that replace each other, processes that die between two
file replacements, and saves that fail after the memory has changed.

## 1. Inventory

| Part | State | Operations | Interacts with |
|---|---|---|---|
| `client/src/local_state.py` `LocalState` | `downloads/<app>`, `<app>.lock`, `pending_updates/<app>.new` and `.meta`, `client_state.json`, its copy in memory | install, stage, apply, delete an orphan, lock, unlock, list, load | called by listener, retry worker and console, each method under one `RLock` |
| `client/src/update_manager.py` | none | `process_received_file`: verify, look at the lock, install or stage | called by the listener; its answer decides whether an ACK is sent |
| `client/src/retry_worker.py` | none beyond its position in a pass | remove orphan `.meta`, remove orphan `.new`, apply what is unlocked, wait | `LocalState`; stop event set by listener and console |
| `client/src/main_client.py` `ConsoleClient` | socket, request counter, waiters by request id, two stop events | connect, request, deliver, fail all, disconnect, console commands | listener thread, worker thread, server |
| `server/src/state_manager.py` `StateManager` | manifest and downloads registry in memory and on disk, active clients, push queues, push id counter | register, clean up, register a download, resynchronise, update a record, enqueue, pop | all handlers and the publisher, each method under one `RLock` |
| `server/src/client_handler.py` | per connection: client id, pending transfer | HELLO, LIST_APPS, DOWNLOAD, CHECK_UPDATES, ACK, DISCONNECT, idle push, ACK timeout, clean-up | `StateManager`, the socket, the socket of a replaced connection |
| `server/src/publisher.py` | none | read and hash the file, then commit under the lock | `StateManager`; never touches sockets |
| `server/src/server_main.py` | stop event | bootstrap the manifest, accept, console | starts handlers, calls the publisher |
| `shared/src/protocol.py` | none | framing, building and checking headers | both sides |

What makes each part correct:

* *client storage*: the record names only what is installed; a staged pair is
  complete and consistent; a staged update is not lost; locked applications are
  left alone; an older version does not replace a newer one;
* *retry worker*: it removes orphans only, respects locks, and gets pending
  updates applied in the end;
* *server state*: newest-only queues that belong to somebody, downloads and
  versions that survive a restart, one content per version number;
* *handlers*: the clean-up of a replaced connection does not undo the
  registration of its successor, a transfer at a time, no endless wait;
* *requests*: each answer reaches the request it answers, and every request
  ends.

The complete list of what can go wrong, at the line where it would, is
`hazards` in `PROJECT.json`.

## 2. Modules

| Module | Models | Relation to the others |
|---|---|---|
| `LocalStore` | the client's files and the three actors that use them | implements `UpdateSlots` |
| `UpdateSlots` | what the storage promises, without files and threads | abstract |
| `Requests` | the client's two threads on one connection | takes the storage and the server as peers |
| `AppServer` | the server: shared state, handlers, publisher, restarts | takes any client |
| `UpdateSystem` | one client and the server, joined by connections | an instance of `AppServer`; the client in outline |
| `MC...` | constants for TLC | |
| `LocalStoreProofs`, `AppServerProofs`, `RequestsProofs` | theorems about one component | each extends the module it is about |
| `UpdateSystemProofs`, `DeliveryProofs` | theorems about the joined system | the first uses `AppServerProofs` for its server, the second extends the first |

Client storage, client connection and server are each modelled in full against
an open environment, and `UpdateSystem` closes the loop: it checks what
`LocalStore` assumes of the order of transfers (`TransfersInOrder`), and its
server is `AppServer`, whose actions it calls.

### LocalStore

The variables are the files (`installed`, `recorded`, `pnew`, `pmeta`,
`locked`), the copy of the record in memory (`mem`), the listener's and the
worker's positions, and `latest`, the newest version the server has sent, which
is history. A file's content is identified by the version of the transfer that
carried it, so `installed[a]` is what really is in `downloads/` and
`recorded[a]` is what `client_state.json` claims.

* *Atomicity.* All methods of `LocalState` exclude each other. A method is
  split into several actions only at its visible disk operations, because the
  process can die and the disk can fail there; while a thread is inside one
  (`ListenerHolds`, `WorkerHolds`) no other thread takes the lock
  (`LockFree`). Two calls of one thread are always two actions:
  `CheckAppLock` then `InstallFile`, `CheckNew` then `DropNew`, `ReadMeta`
  then `ApplyCheck`.
* *Failure.* `Crash` at any point loses memory and keeps the files; `Exit` is
  the orderly end. `StoreFails` and `WorkerFails` are an `OSError` at each
  disk operation: the first refuses the transfer, the second ends the thread,
  because nothing catches it. A failed save has already changed the memory.
  `DamageMeta` corrupts a `.meta` from outside, the case the code's branch for
  unusable metadata is for. `DamageRecord` does it to `client_state.json`, which
  the next process replaces by a record of nothing (`_load_or_create_state`).
* *Left out.* Temporary files (`os.replace` makes the write visible), the
  headers' fields (an invalid header is the refusal of `Verify`), the order of
  names within a pass (left open), logging. `apply_pending_update` can read
  the metadata itself when called without a version; the program never does.
* *Input.* `Receive` takes any transfer not older than the last of the same
  application: connections of one client follow each other, and server
  versions grow. `TransfersInOrder` of `UpdateSystem` checks this of the two
  programs together, and gives it as long as no disk operation of the *server*
  has failed; after a failed save of the manifest an older push can follow a
  newer download, and what this module shows is not claimed for that. The
  payload may be missing or not match its hash.
* *The user* may lock and unlock an application at any time after `connect` has
  started the worker. The console waits while main checks for updates or for a
  download, so this is more than the program does; every behaviour of the
  program is among those checked, and the two counterexamples of section 3 do
  not need more: their transfers can be pushes, which nobody at the console waits for.

### UpdateSlots

One announced, one installed and at most one staged version per application,
and the locks. `Install` and `Stage` take the version announced last; `Apply`
moves the staged version, of an unlocked application, in one step; `Discard`
gives it up, but only once something has died or failed. `Slots` in
`LocalStore` maps `latest`, `installed` and `pnew` to these three; `pmeta`, the
records and both threads' positions have no counterpart. So the refinement says
that no partly written, unverified or outdated content is ever seen in either
place, whatever dies or fails. It also shows what is *not* promised: `Install`
looks neither at the lock nor at what is staged, which are the first two rows
of the table of differences below.

### Requests

`ConsoleClient` on one connection. The variables are the request counter, the
registered `waiters`, what their queues hold (`box`), the two threads, the stop
events, the socket, `send_lock`, and the two directions of the stream.

* *Atomicity.* `send_message` is several `sendall` calls: a frame is sent in
  two halves (`SendFirst`, `SendRest`) with `send_lock` held between them, and
  the server reads a frame when its two halves lead the stream. Each use of
  `pending_lock` is one action; `_pop_waiter` and `put`, or the clearing of the
  dict and the puts of `_fail_all_waiters`, are separate ones.
* *Main* begins a request from the console, and after an answer returns to it;
  a time-out or a failed send ends the console loop (no handler catches them),
  and `disconnect` follows: DISCONNECT unless the stop event is set, stop
  events, `shutdown`, joins with their time-outs, `close`.
* *Listener*: delivers an answer, stores a file (whether it could is left open)
  and sends its ACK, then delivers; its end, for any reason and at any frame,
  sets the events and fails the waiters. It looks at the stop event at the top
  of its loop only (`CheckStop`).
* *The server* is `handle_client` reduced to one connection: it answers in order,
  with the `request_id` it was asked with, waits for an ACK after a transfer,
  and may push or close at any time.
* *Left out.* HELLO, which is a request like the others; the retry worker; the
  contents of answers. A push's id is of the server's own numbers, which in the
  program too may equal a client's: the listener never looks up a waiter for a push.


### AppServer

The variables are the manifest and the registry, in memory (`apps`,
`downloads`) and on disk (`manifest`, `registry`), the files of `server/apps`,
`active`, `pushes`, one handler record per connection (`conn`), the sockets
the server has closed (`open`), and what the publisher has read (`pub`).
`named` is history: the contents a version number has ever stood for.

* *Atomicity.* Every method of `StateManager`, and the part of `publish_app`
  under its lock, is one action. A handler's loop is cut where another thread
  can overtake it: `Receive` / the request; `Hello` / `CloseOld` / `Welcome`;
  `Idle` / `PopPush` / `SendPush`; `Cleanup`. A crash inside a locked method
  leaves the state before it or after it, as each makes one file replacement.
* *Sends.* `Sent` is a send: it succeeds only on an open socket, and may fail
  at any time, after which the handler leaves its loop. The socket is in blocking
  mode when the handler sends, so to a peer that neither reads nor goes away a
  send may never return: the step is then not taken, which only a fairness
  assumption could exclude, and `Fairness` has none for the steps that send.
* *Frames.* A frame is read by as many calls of `recv` as its bytes take. `Part`
  is a call that returns before the frame is whole, `ReceiveMore` the next call,
  `Receive` the one that completes it. `FRAME_TIMEOUT` is a timeout of one call,
  so `Part` and `ReceiveMore` may alternate for ever, and a handler that reads or
  sends does not come to the ACK timeout at the top of its loop (`AckTimeout`).
  A peer that vanishes, a bad frame, a frame of which nothing more comes for
  `FRAME_TIMEOUT` and a socket that another handler has closed are all `Hangup`.
  `SlowFrames` says whether frames come in parts; only `UpdateSystem` sets it to
  FALSE.
* *Requests.* Clients are not modelled: any request may come at any time.
  `OTHER` is every frame that is only answered, `NO_ID` a frame without a
  valid `request_id`, which is answered even while an ACK is awaited.
* *Failure.* `Restart` ends all threads and loads the files, after which
  `Bootstrapped` registers what the manifest lacks. A save may fail in
  `AcceptAck`, `CheckUpdates` and `CommitPublish`: the memory keeps the
  change. `DamageManifest` is a manifest that cannot be parsed, which the code
  reads as an empty one.
* *Left out.* A damaged `downloads_registry.json`, which is read as empty too. Push ids (one transfer is pending at a time) and, here, the
  contents of the DOWNLOAD and CHECK_UPDATES answers, which `UpdateSystem` adds;
  the contents of LIST_APPS, which nothing depends on; the end of the accept
  loop by an error.
* A handler's `conn` slot is reused only when no `active` entry and no handler
  still refers to it, since a new connection is a new socket object.

### UpdateSystem

The server's variables are those of `AppServer`, and every handler step is an
action of `AppServer` conjoined with what it takes from `up` and appends to
`down`. Two steps are added: `Look`, the read of `apps` that `_send_download` and
`_build_updates_response` make before they act, into `seen`. So a DOWNLOAD is
announced with the record read in one step and carries the file as it is in a
later one, and CHECK_UPDATES compares with a snapshot older than the
registration that follows.

* *The client* is `connect` and the console: HELLO, CHECK_UPDATES, a DOWNLOAD for
  each update it was told of, then any command; its listener installs what
  matches its hash and acknowledges it, at any time. Its applications are not
  locked, and it keeps a version and a content of each.
* *Crossing.* Frames are on the way in both directions: a request can cross a
  push, a new process can connect while frames of the old connection are still
  being served, the server can restart with frames on their way.
* *Failure.* A send succeeds or ends the connection, as in `AppServer`; either
  process ends at any time; `Hangup` at any `select`.
* `lost` is history: the newest version that could not be queued for the
  client, or whose task or file came to nothing, and `NewestOnItsWay` says
  that a client whose connection is registered has no other way to miss one,
  while no disk operation fails.
* *Left out.* Frames in parts (`SlowFrames` is FALSE): this client sends a frame
  whole or dies. LIST_APPS; an ERROR that answers an ACK (nobody waits for it);
  what the client does with its files beyond installing them.

## 3. What TLC checks

| Run | Bounds | Shows |
|---|---|---|
| `store_crash` | 1 application, 3 versions, 2 crashes, 1 fault | `PendingPaired`, `RecordNotAhead`, `PendingLeavesByInstall`: as long as nothing dies or fails the threads' pieces agree; `RecordedIsInstalled`, `MetaNotAhead`, `ReportedIsDurable`, `RetryRespectsLock`, and the refinement `SlotsSpec`, whatever dies or fails |
| `store_live` | 1 application, 2 versions, 1 crash | `OrphansCleared`, `PendingApplied` |
| `server_takeovers` | 1 client, 3 interchangeable connections, 3 versions | `QueueIsNewest`, `QueueHasReader`, `OnlyOwnerUnregisters`, `SupersededIsClosing` |
| `server_restart` | 2 connections, 2 restarts, 1 fault, 2 versions, 2 contents | `VersionNamesOneContent`, `NothingForgotten` |
| `server_live` | 2 connections, 2 versions, cooperative clients | `AckWaitEnds`, `SupersededEnds` |
| `client_requests` | 3 request ids begun by main, 1 push | `WaiterServed`, `AnswerMatches`, `PutNeverBlocks`, `AckComesNext`, `FramesWhole`, `CommandsEnd` |
| `system_crossing` | 1 application, 2 interchangeable connections, 2 versions, 2 contents, 1 restart of the server | `ContentMatchesVersion`, `NewestOnItsWay`, `ClientNotAhead`, `TransfersInOrder` |
| `system_live` | 2 applications, 1 connection at a time, 2 versions, 2 contents | `Converges`, `SilentClientIsServed` |

Bounds. Applications do not interact on the client: the files of each are its
own, a transfer is of one, and the worker takes the names it has listed one by
one. One is therefore checked; the theorems are about any number. Three versions are needed for a staged update to be
replaced while an older one is being applied. Two crashes let a death hit the
recovery from another. On the server the clients share nothing but the
publisher's loop; what interacts are the connections of *one* client: two for
a takeover, three for two takeovers that overlap. They are interchangeable (no
action or property orders or names them), so `server_takeovers` declares their
symmetry; the run with liveness does not. Three versions let a queued task be
replaced.

On a connection main has one request at a time, so three requests are a late
answer, the request it could be mistaken for, and one more; a push lets the
listener send while main does. The listener's ids are not bounded by `MaxId`,
and neither is the DISCONNECT's. In `system_crossing` two contents under two
versions are what an overwrite without publication, a publication, and a
publication between the two reads of a DOWNLOAD need; two connections are a
client that reconnects while its old handler still serves. `system_live` has two
applications because a CHECK_UPDATES may then lead to several downloads, with a
push between them, two pushes may be queued for a silent client, and two contents
because a DOWNLOAD may then be torn: its file is not the one announced, the client
drops it and acknowledges nothing, and the handler waits until its ACK timeout.
The restart is in the other run.

Deadlock is checked except where the program really may stop: in
`client_requests` the process ends, and in `system_live` the only connection slot
can stay referred to by the registration a failed `Welcome` leaves behind, after
which no connection is possible in the model.

Fairness. On the client both threads are scheduled, and strongly so with
respect to the lock of `LocalState`, which everybody holds for a bounded
number of disk operations and nobody in a loop without waiting. Nothing is
assumed about user, network, disk, or the life of the process, so the
liveness properties speak of a worker that keeps running and of an
application that stays unlocked. On the server the handlers are scheduled;
`select` on a registered connection returns, by a frame or after
`SOCKET_TIMEOUT`; a `recv` returns, by `FRAME_TIMEOUT` at the latest; the ACK
timeout is looked at on every turn of the loop, so it is taken if it keeps being
possible; a closed socket makes `select` fail. That is all the code sees to, and
`FairSpec` says no more: under it neither a read nor a wait for an ACK has to end
(`server_frame`). `CooperativeSpec` adds what the code leaves to its clients: they
read what they are sent, so that sends end, or go away; and they do not feed a
frame byte by byte for ever. `AckWaitEnds` and `SupersededEnds` hold under it,
whatever requests come, in whatever order. Nothing is assumed about the operator. In `Requests` both threads are
scheduled, main strongly, since it competes with the listener for `send_lock`,
which is held for one message; the listener reads the end of the stream, and
looks at the stop event at the top of its loop, where `select` lets it come back
every `SOCKET_TIMEOUT`. In `UpdateSystem` the threads of both sides are scheduled, which makes its client
cooperative (its listener reads, and its frames are whole), and a handler whose ACK
does not come ends by its timeout. `Converges` assumes in its premise, and not as
fairness, that publications cease and that the client keeps getting answers to
CHECK_UPDATES; `SilentClientIsServed`, that the client stays connected and asks for
nothing.

### Where code and documentation differ

Each of these runs checks one statement of the repository, and TLC finds a
behaviour of the code that contradicts it.

| Run | Statement | Behaviour |
|---|---|---|
| `store_locked` | an update that arrives while the application is locked does not overwrite it (README.md:439) | the lock is looked at, taken by the user, and the binary is replaced |
| `store_downgrade` | v3 is installed, not v2 (test_client_retry.py:347) | v2 is staged, the application unlocked, v3 installed directly, then the worker applies v2 |
| `server_transfer` | one pending transfer per client (README.md:395) | three connections, two overlapping takeovers |
| `server_frame` | `FRAME_TIMEOUT` is the time for a complete frame (config.py:10) | bytes keep coming, and every `recv` starts the time anew |

Other limits of the code were met while modelling. The models contain the
steps that lead there, and `hazards` in `PROJECT.json` says which property stops
short of them and why:

* the worker can install a binary staged after it read the metadata, and record
  the older version: the record falls behind, never ahead (`RecordNotAhead`);
* after a death between the two replacements of `write_pending_update`, the
  worker can delete as an orphan a binary whose metadata has been written
  since; without a crash it cannot (`PendingLeavesByInstall`);
* an `OSError` ends the retry worker (`WorkerFails`), although its docstring
  says that it runs for ever; the end of a connection stops it too, for the rest
  of the process, and updates staged by then wait for the next start;
* a process that dies after an older pending update has replaced a newer binary,
  and before the record is saved, leaves a record that is ahead of the binary; no
  property excludes it, as the downgrade of `store_downgrade` comes first;
* the handler of a replaced connection, past its `select`, pops by client name a
  task queued for its successor and loses it on its closed socket (`Pop` of
  `UpdateSystem`), although README.md:373 says that a client's own handler sends
  its pushes;
* a version published between a FILE_TRANSFER and its ACK, or between the
  snapshot of a CHECK_UPDATES and its registration, is not pushed to that client
  (`NewestOnItsWay` lists these cases; its next CHECK_UPDATES brings it,
  `Converges`);
* a request that crosses a push ends the connection (`Violation`), and with it
  the client's process, as no command survives an error of its connection
  (`CommandsEnd` counts that as an end);
* a request sent after the listener has ended waits for its whole time-out;
* a HELLO whose answer cannot be sent leaves its client registered (`Welcome`);
* a publication whose save failed is offered to clients, and its number is used
  again after a restart (`VersionNamesOneContent` assumes `faults = 0`); it is not
  queued, so an older task that was queued before stays there, and is pushed to a
  client that has downloaded the unsaved version since (`TransfersInOrder` and
  `NewestOnItsWay` assume `faults = 0` for this);
* a HELLO that a dead process has left on its connection is served when its
  handler comes to it, and takes over the connection of the client's new
  process; until that is closed its queue is the older connection's, and goes
  with it (`NewestOnItsWay` speaks of the registered connection; with two
  connections the closing comes first, it takes a third to see the difference);
* pushes wait for a connection to fall idle, so a client that keeps asking is
  never pushed anything (`SilentClientIsServed` speaks of one that does not);
* a handler that reads a trickled frame, or sends to a peer that does not read, is
  held beyond `ACK_TIMEOUT` (`server_frame`; `AckWaitEnds` assumes cooperation).

## 4. What is proved

`LocalStoreProofs` proves every safety and action property of the store runs,
for any set of applications, any number of versions, outages and faults, from
the three assumptions of `LocalStore` (`AppsAssumption`: there is an
application; `BoundsAssumption`: the bounds are natural numbers;
`GarbledAssumption`: a garbled content is no version). The bounds appear in the
guards only, so a theorem for every bound is a theorem without one.

None of the properties is inductive as it stands. The argument has three
layers, each an inductive invariant that may use the one below:

1. `TypeInv` (lemma `TypeInvariant`): `TypeOK`; past `Verify` the transfer in
   hand is intact, so that no garbled content reaches a file; and listener and
   worker are down together. Theorem `TypeCorrect`.
2. `CrashInv` (lemma `CrashSafe`), under every crash and fault: every version in
   the store is at most `latest`; at most one thread is inside a method of
   `LocalState`; a binary exists wherever a record is about to name it; pending
   metadata is not ahead of its binary, not even while the listener is between
   the two replacements; and the memory agrees with the saved record while no
   fault has happened. Theorems `RecordSurvivesCrashes`,
   `MetadataSurvivesCrashes`, `ReportsAreDurable`, `WorkerRespectsLocks`.
3. `QuietInv` (lemma `QuietSafe`), while nothing dies and no disk fails: pending
   files are paired except inside the method that makes or ends the pair, the
   record is behind the binary except between the two steps of
   `apply_pending_update`, and what the worker has listed is still there when it
   looks, so that it is never about to delete anything. Theorems `RecordStaysBehind`,
   `PendingStaysPaired`, `StagedUpdateIsKept`.

The same three layers give the refinement, theorem `StoreImplementsSlots`
(`Spec => SlotsSpec`). The initial states map to the initial state; a transfer
in hand is the one announced last (`CrashInv`), so `InstallFile` and `StageNew`
are `Install` and `Stage`; `apply_pending_update` is past its own look at the
lock when it moves the file, so `ApplyMove` is `Apply`; the deletions of orphans
are `Discard`, which `QuietInv` shows cannot happen undisturbed; faults and
crashes are `Disturb`; every other action leaves the mapped variables alone.

`AppServerProofs` proves every safety and action property of the server runs,
for any sets of applications, clients and connections, from `NoneAssumption`
(`None` is no name) and `BoundsAssumption` (the bounds are natural numbers, and
there is a version and a content). Four invariants rest on one of
types:

1. `TypeInv` (lemma `TypeInvariant`): `TypeOK`; `Control`, what a handler's
   control point says of its other fields (a frame while it serves, a client
   while it is idle, pushes or waits for an ACK); `RoomToPublish`, the bound on
   versions while a publication is under way. Theorem `TypeCorrect`.
2. `TakeoverInv` (lemma `TakeoverSafe`): `SupersededIsClosing` alone is not
   inductive, as a connection can be replaced before `Welcome` has given it its
   client's name; the invariant speaks of every connection that serves *or is
   about to serve* a client. When `Hello` replaces the registered connection it
   becomes the one that closes it; whoever was replaced before has its closer
   already. Theorems `SupersededAreClosing` and, from `TypeInv` alone,
   `OwnersUnregister`.
3. `QueueInv` (lemma `QueueSafe`): the two queue properties together, since a
   publication renews only the tasks of its recipients, and it takes
   `QueueHasReader` to know that everybody with a task for the application is
   one. The lemmas `QueuedTasks` and `RestOfQueue` say what `enqueue_push` and
   `pop_next_push` do to a queue. Theorems `QueuesAreNewest`,
   `QueuesHaveReaders`.
4. `HistoryInv` (lemma `HistorySafe`), while no disk operation fails: disk and
   memory agree between steps, versions to come have no content yet, and the
   current one has exactly its own, so that a restart changes nothing and the
   next number is free. Theorem `VersionsNameOneContent`.
5. `SavedInv` (lemma `SavedSafe`), whatever fails: what is on disk is never more
   than what is in memory, so that no save can take back what an earlier one
   wrote. With `HistoryInv` for the memory, theorem `RestartsForgetNothing`.

`RequestsProofs` proves every safety property of `client_requests`, for any
number of requests, pushes and frames on the way, from the one assumption of
`Requests` on its bounds. The invariants:

1. `TypeInv`: `TypeOK`, and what the two threads' places say of the frames in
   their hands. Theorem `TypeCorrect`.
2. `Waiting`: a queue is registered or in the listener's hands, never both, and
   is empty as long as it is either. `WaiterServed` is one conjunct of it, and
   depends on the others: that a popped queue is filled by the very next thing
   the listener does. Theorems `RequestsServed`, `PutsNeverBlock`.
3. `Owned`, on `Waiting`: no id is used twice, so a frame anywhere, in either stream
   or in either thread's hands, that carries the id main waits for is main's
   own, and an item in a queue answers the frame of that id. Theorem `AnswersMatch`.
4. `Stream`: the lock is held exactly between the halves of a send, and the
   stream is whole frames with the begun one at its end. `FramesWhole` alone does
   not say what the end of the stream is, on which the next half depends.
   Theorem `FramesStayWhole`.
5. `Acked`, on all of them, while the connection is up: main has at most one
   request in the stream, its answer comes after it is read, and a transfer's
   ACK is in the stream, or on its way to it, before main can ask again. The last
   part follows the file from the server through the listener to the queue;
   main cannot move before it arrives there. Theorem `AcksComeNext`.

`UpdateSystemProofs` proves the other safety properties of the two system
runs, for any sets of applications and connections and any bounds, from
`NamesAssumption` (`None` is no name, no request and no transfer) and
`SizesAssumption` (the bounds are natural numbers, and there is a version and a
content).

* *The server is `AppServer`.* Its steps are that module's actions, conjoined with
  what they take from the wire, so a theorem about the server holds here as soon
  as the frames that are taken are requests `AppServer` knows. That is `TypeInv`,
  in which the request a handler serves is the head of its stream.
  `S == INSTANCE AppServerProofs` brings the theorems here, through `SameNext` (the
  same module instantiated twice has the same steps) and the lemmas `ServerStep` and
  `ServerRuns`: types, queues and records of the server need no second proof.
* *Contents.* `NamedInv`: whatever carries a version and a content, a record,
  a copy of one, a task, a transfer awaiting its ACK, a file on its way, an
  installed application, carries a content that version has stood for. The lemma
  `NothingInvented` says that what is carried was carried before or has just
  been published, and is used for every property of this kind. Theorem
  `ContentsMatchVersions`.
* *Versions.* `BehindInv`, while no disk operation fails: nothing carried is
  newer than the record of its application, which the server's history theorem
  says is the one on disk. Theorem `ClientsNotAhead`.
* *Order.* `OrderInv`, while no disk operation fails: what the client has, what
  is on its way in its order, and what the handler of its connection may still
  send are in ascending order. The copy a DOWNLOAD was announced from is part of
  the chain, since a publication can come between. Theorem `TransfersStayInOrder`,
  which is what `LocalStore` assumes of its input, up to the first failed disk
  operation of the server.

`DeliveryProofs` proves that nothing gets lost on a connection that lives,
`NewestOnItsWay`, from the same assumptions. A version moves from the queue to
a task, a frame and the client, or from an answer to CHECK_UPDATES to the list
of downloads, a request and a frame, and the proof is that no step leaves it
between two places. Each part rests on the ones before:

1. `TalkInv`: the request main waits for is in the stream, in the handler's
   hands, or answered by a frame on its way: one of them, and only that request.
2. `TransferInv`: while a file is on its way to the client, or its ACK on its way
   back, the handler waits for that ACK; so no two transfers are confused, and
   no push overtakes a download.
3. `InstalledInv`: the server registers, and pushes, only what the client has
   installed; and a CHECK_UPDATES tells only what the client has.
4. `FreshInv`: no installation passes a CHECK_UPDATES that is on its way, so what
   it says is complete.
5. `WayInv`: if the client is behind, or an older file is on its way, or the
   handler is about to send one, then the newest version is coming after it or
   `lost` has it. `NewestOnItsWay` speaks of the client alone, and is not
   inductive: an older file in a stream is what makes a client behind next.

Two attempts at this proof failed for a reason and changed the property, not
the model of the code: the two cases of section 3 that it excludes, the failed
save and the connection replaced by an older HELLO. `OnItsWay` was sharpened
too: a task that is about to be sent counts only if it is the newest.

Only model-checked, for good: the liveness properties, `OrphansCleared`,
`PendingApplied`, `AckWaitEnds`, `SupersededEnds`, `CommandsEnd`, `Converges` and
`SilentClientIsServed`, since fairness rests on `ENABLED`, which TLAPS does not reason
about; and the counterexamples of section 3. Every invariant and action
property of every passing run is a theorem.

## 5. What is not modelled, and the plan

Not modelled, and why:

* hashing and configuration: library calls and constants; a hash is the identity
  of a content, and time-outs are nondeterminism or fairness;
* the encoding of frames (length, JSON, `file_size`): `Requests` has the stream
  in halves of frames, which is what two senders can mix; a payload of length
  zero, which `recv_message` reports as none, is the missing payload
  of `LocalStore`, and no content of the other models is empty;
* `is_valid_app_name` and the other checks of fields: a refused frame changes
  nothing, and is one outcome; that an application may be called like another's
  lock file is a hazard without a property;
* the end of the accept loop by an `OSError`, after which no state changes but by
  the connections that are left, and the limit of `select`;
* the demo generator, scripts, containers, tests, and output on the consoles.

Plan, in this order:

1. The client's side of the composition: that the installations of `UpdateSystem`
   are transfers `LocalStore` receives, as a step-by-step refinement of its
   environment, so that the two proofs meet in a theorem and not only in
   `TransfersInOrder`; and the same for the requests of `UpdateSystem` and the
   threads of `Requests`.
2. The lemmas on streams that `RequestsProofs`, `UpdateSystemProofs` and
   `DeliveryProofs` each state for their own frames, in one module.
3. A theorem for what the liveness properties need of safety: from where a pending
   update, a waiting request or a queued task can always go on, the step that
   takes it on does not undo another's.
4. The contents' length, so that the file of length zero is a case of the models
   and its hazard has a property.
