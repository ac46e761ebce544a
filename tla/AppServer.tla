------------------------------- MODULE AppServer -------------------------------
(***************************************************************************)
(* The server: the state shared through StateManager, one handler thread   *)
(* per accepted connection, the publisher, and what survives a restart.    *)
(*                                                                         *)
(* A method of StateManager holds its lock from end to end, and so does    *)
(* publish_app after it has read the file: each is one action.  Between    *)
(* two such calls a handler can be overtaken by every other thread.        *)
(*                                                                         *)
(* Clients are left open: a connection may carry any request at any time,  *)
(* and a peer may vanish at any time.  Transfers are named by application  *)
(* and version; contents are numbered in the order the operator puts them  *)
(* in server/apps, and a hash is the number of the content it was taken of *)
(***************************************************************************)
EXTENDS Naturals, Sequences

CONSTANTS Apps, Clients,
          Conns,         \* connections that exist at the same time
          None,          \* no client, no connection, no transfer, ...
          MaxVersion,    \* bound on publications of an application
          MaxContent,    \* bound on contents the operator makes for one
          MaxRestarts,   \* bound on restarts of the server
          MaxFaults,     \* bound on failed or corrupting disk operations
          ManifestBreaks, \* whether apps_manifest.json may be damaged from outside
          SlowFrames     \* whether the bytes of a frame may come one after the other

ASSUME NoneAssumption == None \notin Apps \cup Clients \cup Conns
ASSUME BoundsAssumption ==
  /\ MaxVersion \in Nat \ {0} /\ MaxContent \in Nat \ {0}
  /\ MaxRestarts \in Nat /\ MaxFaults \in Nat
  /\ ManifestBreaks \in BOOLEAN /\ SlowFrames \in BOOLEAN

VARIABLES
  file,       \* server/apps/<app>: number of the content
  apps,       \* StateManager.apps: [version, hash] of each application
  manifest,   \* apps_manifest.json
  downloads,  \* StateManager.downloads: who has downloaded what
  registry,   \* downloads_registry.json
  active,     \* active_clients: the connection registered for a client
  pushes,     \* pending_pushes: a client's tasks, in the order of the dict
  conn,       \* the handler of each connection
  open,       \* the connection's socket has not been closed by the server
  pub,        \* what publish_app has read and not yet committed
  named,      \* contents each version has ever stood for (history)
  restarts, faults

disk == <<file, manifest, registry>>
live == <<active, pushes>>
bounds == <<restarts, faults>>
vars == <<disk, apps, downloads, live, conn, open, pub, named, bounds>>

Versions == 1..MaxVersion
Contents == 1..MaxContent
Records == [version : Versions, hash : Contents]
NoRecord == [version |-> 0, hash |-> 0]     \* the application is not in the manifest
Tasks == [app : Apps, version : Versions, hash : Contents]
Transfers == [kind : {"DOWNLOAD", "PUSH_UPDATE"}, app : Apps]

\* What a frame can ask for.  OTHER stands for every well-formed frame that is
\* answered and changes nothing: LIST_APPS, an unknown action, a missing or
\* invalid field, an ACK for another request.  NO_ID has no valid request_id.
Requests ==
  [kind : {"HELLO"}, client : Clients]
    \cup [kind : {"DOWNLOAD"}, app : Apps]
    \cup [kind : {"CHECK_UPDATES"}, known : SUBSET Apps]
    \cup [kind : {"ACK", "DISCONNECT", "OTHER", "NO_ID"}]

Handlers ==
  [pc : {"free", "select", "recv", "part", "serve", "closeOld", "welcome", "idle", "push",
         "cleanup"},
   client : Clients \cup {None}, hello : Clients \cup {None}, old : Conns \cup {None},
   request : Requests \cup {None}, transfer : Transfers \cup {None},
   task : Tasks \cup {None}]

NoHandler == [pc |-> "free", client |-> None, hello |-> None, old |-> None,
              request |-> None, transfer |-> None, task |-> None]

\* Mutant of Bootstrapped: known applications are not looked for on disk.
NotBootstrapped(m) == m

\* Mutant of Bootstrapped: the hash is taken anew, the version kept.
Rehashed(m) ==
  [a \in Apps |-> [version |-> IF m[a] = NoRecord THEN 1 ELSE m[a].version, hash |-> file[a]]]

\* bootstrap_apps_from_disk: applications missing from the manifest become
\* version 1 of what is on disk.
Bootstrapped(m) ==
  [a \in Apps |-> IF m[a] = NoRecord THEN [version |-> 1, hash |-> file[a]] ELSE m[a]]

Init ==
  /\ file = [a \in Apps |-> 1]
  /\ apps = [a \in Apps |-> [version |-> 1, hash |-> 1]] /\ manifest = apps
  /\ downloads = [k \in Clients |-> {}] /\ registry = downloads
  /\ active = [k \in Clients |-> None] /\ pushes = [k \in Clients |-> <<>>]
  /\ conn = [c \in Conns |-> NoHandler] /\ open = [c \in Conns |-> FALSE]
  /\ pub = None
  /\ named = [a \in Apps |-> [v \in Versions |-> IF v = 1 THEN {1} ELSE {}]]
  /\ restarts = 0 /\ faults = 0

-----------------------------------------------------------------------------
(* One connection's handler.                                                *)

Goto(c, pc) == conn' = [conn EXCEPT ![c].pc = pc]

\* A send succeeds or raises OSError, which it does on a closed socket; the
\* handler then leaves its loop.  It has no timeout: to a peer that neither
\* reads nor goes away it may not return, which is the step not being taken.
Sent(c, then) ==
  \/ open[c] /\ conn' = [conn EXCEPT ![c] = then]
  \/ Goto(c, "cleanup")

\* accept_loop.  A connection is a fresh socket object: it is none of those
\* that are still referred to.
Accept(c) ==
  /\ conn[c].pc = "free"
  /\ \A k \in Clients : active[k] # c
  /\ \A d \in Conns : conn[d].old # c
  /\ conn' = [conn EXCEPT ![c].pc = "select"]
  /\ open' = [open EXCEPT ![c] = TRUE]
  /\ UNCHANGED <<disk, apps, downloads, live, pub, named, bounds>>

\* A recv returns with bytes, and the frame needs more of them: recv_exact calls
\* recv again.  FRAME_TIMEOUT is a recv's, not a frame's.
Part(c) ==
  /\ SlowFrames
  /\ conn[c].pc \in {"select", "recv"} /\ open[c]
  /\ Goto(c, "part")
  /\ UNCHANGED <<disk, apps, downloads, live, open, pub, named, bounds>>

ReceiveMore(c) ==
  /\ conn[c].pc = "part"
  /\ Goto(c, "recv")
  /\ UNCHANGED <<disk, apps, downloads, live, open, pub, named, bounds>>

\* A recv completes a frame.
Receive(c, r) ==
  /\ conn[c].pc \in {"select", "recv"} /\ open[c]
  /\ conn' = [conn EXCEPT ![c].pc = "serve", ![c].request = r]
  /\ UNCHANGED <<disk, apps, downloads, live, open, pub, named, bounds>>

\* select or recv fails: the peer is gone, the frame is bad, nothing has come for
\* FRAME_TIMEOUT, or the socket has been closed by the handler of a newer
\* connection.
Hangup(c) ==
  /\ conn[c].pc \in {"select", "recv"}
  /\ Goto(c, "cleanup")
  /\ UNCHANGED <<disk, apps, downloads, live, open, pub, named, bounds>>

\* Mutant of AckTimeout: only pushes time out.
AckTimeoutOfPushes(c) ==
  /\ conn[c].pc = "select" /\ conn[c].transfer \in [kind : {"PUSH_UPDATE"}, app : Apps]
  /\ Goto(c, "cleanup")
  /\ UNCHANGED <<disk, apps, downloads, live, open, pub, named, bounds>>

\* The check at the top of the loop, which a handler in recv_message or in a send
\* does not come to.
AckTimeout(c) ==
  /\ conn[c].pc = "select" /\ conn[c].transfer # None
  /\ Goto(c, "cleanup")
  /\ UNCHANGED <<disk, apps, downloads, live, open, pub, named, bounds>>

Serving(c, kinds) == conn[c].pc = "serve" /\ conn[c].request.kind \in kinds
Registered(c) == conn[c].client # None
Awaiting(c) == conn[c].transfer # None
Back(c) == [conn[c] EXCEPT !.pc = "select", !.request = None]

\* Frames that are answered and change nothing.
Answer(c) ==
  /\ \/ Serving(c, {"NO_ID"})
     \/ ~Awaiting(c) /\ Serving(c, {"ACK", "OTHER"})
     \/ ~Awaiting(c) /\ Registered(c) /\ Serving(c, {"HELLO"})
     \/ ~Awaiting(c) /\ ~Registered(c) /\ Serving(c, {"DOWNLOAD", "CHECK_UPDATES", "DISCONNECT"})
  /\ Sent(c, Back(c))
  /\ UNCHANGED <<disk, apps, downloads, live, open, pub, named, bounds>>

\* While a transfer waits for its ACK, any other request ends the connection.
Violation(c) ==
  /\ Awaiting(c) /\ Serving(c, {"HELLO", "DOWNLOAD", "CHECK_UPDATES", "DISCONNECT", "OTHER"})
  /\ Goto(c, "cleanup")
  /\ UNCHANGED <<disk, apps, downloads, live, open, pub, named, bounds>>

\* The ACK of a download registers it and saves the registry; a failed save
\* leaves the memory changed and is answered by INTERNAL_ERROR.
AcceptAck(c) ==
  /\ Awaiting(c) /\ Serving(c, {"ACK"})
  /\ LET t == conn[c].transfer
         done == [Back(c) EXCEPT !.transfer = None]
     IN IF t.kind = "DOWNLOAD"
        THEN /\ downloads' = [downloads EXCEPT ![conn[c].client] = @ \cup {t.app}]
             /\ \/ registry' = downloads' /\ conn' = [conn EXCEPT ![c] = done] /\ UNCHANGED faults
                \/ /\ faults < MaxFaults /\ faults' = faults + 1
                   /\ Sent(c, done) /\ UNCHANGED registry
        ELSE conn' = [conn EXCEPT ![c] = done] /\ UNCHANGED <<downloads, registry, faults>>
  /\ UNCHANGED <<file, manifest, apps, live, open, pub, named, restarts>>

\* set_active_client: this connection takes the client over; tasks queued for
\* the client stay queued.
Hello(c) ==
  /\ ~Awaiting(c) /\ ~Registered(c) /\ Serving(c, {"HELLO"})
  /\ LET k == conn[c].request.client
     IN /\ active' = [active EXCEPT ![k] = c]
        /\ conn' = [conn EXCEPT ![c].pc = "closeOld", ![c].request = None,
                                ![c].hello = k, ![c].old = active[k]]
  /\ UNCHANGED <<disk, apps, downloads, pushes, open, pub, named, bounds>>

\* Mutant of CloseOld: the replaced connection is left alone.
KeepOld(c) ==
  /\ conn[c].pc = "closeOld"
  /\ conn' = [conn EXCEPT ![c].pc = "welcome", ![c].old = None]
  /\ UNCHANGED <<disk, apps, downloads, live, open, pub, named, bounds>>

\* _handle_hello closes the socket of the connection it replaced ...
CloseOld(c) ==
  /\ conn[c].pc = "closeOld"
  /\ open' = [d \in Conns |-> open[d] /\ d # conn[c].old]
  /\ conn' = [conn EXCEPT ![c].pc = "welcome", ![c].old = None]
  /\ UNCHANGED <<disk, apps, downloads, live, pub, named, bounds>>

\* ... and answers.  Only then does handle_client learn the client's name.
Welcome(c) ==
  /\ conn[c].pc = "welcome"
  /\ Sent(c, [conn[c] EXCEPT !.pc = "select", !.client = conn[c].hello, !.hello = None])
  /\ UNCHANGED <<disk, apps, downloads, live, open, pub, named, bounds>>

\* DOWNLOAD: the transfer is sent and awaits its ACK.
Download(c) ==
  /\ ~Awaiting(c) /\ Registered(c) /\ Serving(c, {"DOWNLOAD"})
  /\ Sent(c, [Back(c) EXCEPT !.transfer = [kind |-> "DOWNLOAD", app |-> conn[c].request.app]])
  /\ UNCHANGED <<disk, apps, downloads, live, open, pub, named, bounds>>

\* Mutant of CheckUpdates: the registry is not saved.
CheckUpdatesUnsaved(c) ==
  /\ ~Awaiting(c) /\ Registered(c) /\ Serving(c, {"CHECK_UPDATES"})
  /\ downloads' = [downloads EXCEPT ![conn[c].client] = @ \cup conn[c].request.known]
  /\ Sent(c, Back(c))
  /\ UNCHANGED <<disk, apps, live, open, pub, named, bounds>>

\* CHECK_UPDATES: what the client says it has is added to its downloads, and
\* saved if that is new; an OSError of the save ends the connection.
CheckUpdates(c) ==
  /\ ~Awaiting(c) /\ Registered(c) /\ Serving(c, {"CHECK_UPDATES"})
  /\ LET k == conn[c].client
         new == conn[c].request.known \ downloads[k]
     IN /\ downloads' = [downloads EXCEPT ![k] = @ \cup new]
        /\ \/ /\ registry' = IF new = {} THEN registry ELSE downloads'
              /\ Sent(c, Back(c)) /\ UNCHANGED faults
           \/ /\ new # {} /\ faults < MaxFaults /\ faults' = faults + 1
              /\ Goto(c, "cleanup") /\ UNCHANGED registry
  /\ UNCHANGED <<file, manifest, apps, live, open, pub, named, restarts>>

Disconnect(c) ==
  /\ ~Awaiting(c) /\ Registered(c) /\ Serving(c, {"DISCONNECT"})
  /\ Goto(c, "cleanup")
  /\ UNCHANGED <<disk, apps, downloads, live, open, pub, named, bounds>>

\* select times out on a registered connection with no transfer pending ...
Idle(c) ==
  /\ conn[c].pc = "select" /\ open[c] /\ Registered(c) /\ ~Awaiting(c)
  /\ Goto(c, "idle")
  /\ UNCHANGED <<disk, apps, downloads, live, open, pub, named, bounds>>

\* Mutant of PopPush: the task is looked at and left in the queue.
PeekPush(c) ==
  /\ conn[c].pc = "idle"
  /\ LET k == conn[c].client
     IN IF pushes[k] = <<>>
        THEN Goto(c, "select")
        ELSE conn' = [conn EXCEPT ![c].pc = "push", ![c].task = Head(pushes[k])]
  /\ UNCHANGED <<disk, apps, downloads, live, open, pub, named, bounds>>

\* ... and the handler takes the oldest task queued under its client's name.
PopPush(c) ==
  /\ conn[c].pc = "idle"
  /\ LET k == conn[c].client
     IN IF pushes[k] = <<>>
        THEN Goto(c, "select") /\ UNCHANGED pushes
        ELSE /\ pushes' = [pushes EXCEPT ![k] = Tail(@)]
             /\ conn' = [conn EXCEPT ![c].pc = "push", ![c].task = Head(pushes[k])]
  /\ UNCHANGED <<disk, apps, downloads, active, open, pub, named, bounds>>

SendPush(c) ==
  /\ conn[c].pc = "push"
  /\ Sent(c, [conn[c] EXCEPT !.pc = "select", !.task = None,
                !.transfer = [kind |-> "PUSH_UPDATE", app |-> conn[c].task.app]])
  /\ UNCHANGED <<disk, apps, downloads, live, open, pub, named, bounds>>

\* Mutant of Owned: the identity of the socket is not compared.
OwnedByName(c) == {k \in Clients : k = conn[c].client}

\* The client this connection is registered for, if it still is.
Owned(c) == {k \in Clients : k = conn[c].client /\ active[k] = c}

\* cleanup_client_if_current, then the socket is closed and the thread ends.
Cleanup(c) ==
  /\ conn[c].pc = "cleanup"
  /\ active' = [k \in Clients |-> IF k \in Owned(c) THEN None ELSE active[k]]
  /\ pushes' = [k \in Clients |-> IF k \in Owned(c) THEN <<>> ELSE pushes[k]]
  /\ open' = [open EXCEPT ![c] = FALSE]
  /\ conn' = [conn EXCEPT ![c] = NoHandler]
  /\ UNCHANGED <<disk, apps, downloads, pub, named, bounds>>

-----------------------------------------------------------------------------
(* The operator, the publisher, the disk and the process.                   *)

\* The operator overwrites an application's file with new content.
Overwrite(a) ==
  /\ file[a] < MaxContent
  /\ file' = [file EXCEPT ![a] = @ + 1]
  /\ UNCHANGED <<manifest, registry, apps, downloads, live, conn, open, pub, named, bounds>>

\* publish_app reads the bytes and computes their hash without the lock ...
ReadFile(a) ==
  /\ pub = None /\ apps[a].version < MaxVersion
  /\ pub' = [app |-> a, hash |-> file[a]]
  /\ UNCHANGED <<disk, apps, downloads, live, conn, open, named, bounds>>

\* Mutant of Recipients: get_clients_who_downloaded, connected or not.
Downloaders(a) == {k \in Clients : a \in downloads[k]}

\* Mutant of Recipients: clients whose connection awaits an ACK are left out.
IdleRecipients(a) ==
  {k \in Clients : a \in downloads[k] /\ active[k] # None /\ ~Awaiting(active[k])}

\* get_connected_clients_for_app.
Recipients(a) == {k \in Clients : a \in downloads[k] /\ active[k] # None}

\* Mutant of Queued: older tasks of the application stay in the queue.
QueuedLast(q, t) == Append(q, t)

\* A dict keeps the place of a key that is assigned again.
Queued(q, t) ==
  IF \E i \in DOMAIN q : q[i].app = t.app
    THEN [i \in DOMAIN q |-> IF q[i].app = t.app THEN t ELSE q[i]]
    ELSE Append(q, t)

Renamed(m) ==
  [a \in Apps |-> [v \in Versions |->
     IF v = m[a].version THEN named[a][v] \cup {m[a].hash} ELSE named[a][v]]]

\* Mutant of CommitPublish: the manifest is not saved.
CommitUnsaved ==
  /\ pub # None
  /\ LET a == pub.app
         t == [app |-> a, version |-> apps[a].version + 1, hash |-> pub.hash]
     IN /\ apps' = [apps EXCEPT ![a] = [version |-> t.version, hash |-> t.hash]]
        /\ pushes' = [k \in Clients |->
             IF k \in Recipients(a) THEN Queued(pushes[k], t) ELSE pushes[k]]
  /\ named' = Renamed(apps')
  /\ pub' = None
  /\ UNCHANGED <<file, manifest, registry, downloads, active, conn, open, bounds>>

\* ... and under the lock counts the version up, saves the manifest and queues
\* a task for every connected client that has downloaded the application.
\* When the save fails the new version stays in memory and nothing is queued.
CommitPublish ==
  /\ pub # None
  /\ LET a == pub.app
         t == [app |-> a, version |-> apps[a].version + 1, hash |-> pub.hash]
     IN /\ apps' = [apps EXCEPT ![a] = [version |-> t.version, hash |-> t.hash]]
        /\ \/ /\ manifest' = apps'
              /\ pushes' = [k \in Clients |->
                   IF k \in Recipients(a) THEN Queued(pushes[k], t) ELSE pushes[k]]
              /\ UNCHANGED faults
           \/ /\ faults < MaxFaults /\ faults' = faults + 1
              /\ UNCHANGED <<manifest, pushes>>
  /\ named' = Renamed(apps')
  /\ pub' = None
  /\ UNCHANGED <<file, registry, downloads, active, conn, open, restarts>>

\* The process ends, with every thread, and is started again.
Restart ==
  /\ restarts < MaxRestarts /\ restarts' = restarts + 1
  /\ apps' = Bootstrapped(manifest) /\ manifest' = apps'
  /\ downloads' = registry
  /\ active' = [k \in Clients |-> None] /\ pushes' = [k \in Clients |-> <<>>]
  /\ conn' = [c \in Conns |-> NoHandler] /\ open' = [c \in Conns |-> FALSE]
  /\ pub' = None
  /\ named' = Renamed(apps')
  /\ UNCHANGED <<file, registry, faults>>

\* apps_manifest.json is damaged from outside; it is then read as empty.
DamageManifest ==
  /\ ManifestBreaks
  /\ faults < MaxFaults /\ faults' = faults + 1
  /\ manifest' = [a \in Apps |-> NoRecord]
  /\ UNCHANGED <<file, registry, apps, downloads, live, conn, open, pub, named, restarts>>

-----------------------------------------------------------------------------
\* The steps in which a handler sends, or may have to.
Sends(c) ==
  \/ Answer(c) \/ Violation(c) \/ AcceptAck(c) \/ Welcome(c) \/ Download(c) \/ CheckUpdates(c)
  \/ SendPush(c)

\* The steps it takes without a peer.
Moves(c) ==
  \/ ReceiveMore(c) \/ Hello(c) \/ CloseOld(c) \/ Disconnect(c) \/ PopPush(c) \/ Cleanup(c)

\* What a socket gives: bytes, or an error.
Reads(c) == Part(c) \/ Hangup(c) \/ \E r \in Requests : Receive(c, r)

\* select returns: something to read, or nothing for SOCKET_TIMEOUT.
Selects(c) == Idle(c) \/ Reads(c)

Handler(c) == Accept(c) \/ Sends(c) \/ Moves(c) \/ Selects(c) \/ AckTimeout(c)

Operator == \E a \in Apps : Overwrite(a) \/ ReadFile(a)

Next ==
  \/ \E c \in Conns : Handler(c)
  \/ Operator \/ CommitPublish \/ Restart \/ DamageManifest

Spec == Init /\ [][Next]_vars

\* What the code sees to, whatever the clients and the operator do: every handler
\* thread is scheduled; on a registered connection with nothing to wait for,
\* select returns in the end, with a frame or by its timeout; a recv returns, by
\* FRAME_TIMEOUT at the latest; the time at the top of the loop passes
\* ACK_TIMEOUT in the end, however often the loop is taken; a closed socket makes
\* select fail.
Fairness ==
  \A c \in Conns :
    /\ WF_vars(Moves(c))
    /\ WF_vars(Registered(c) /\ ~Awaiting(c) /\ Selects(c))
    /\ WF_vars(conn[c].pc = "recv" /\ Reads(c))
    /\ SF_vars(AckTimeout(c))
    /\ WF_vars(~open[c] /\ Hangup(c))

FairSpec == Spec /\ Fairness

\* A frame that has begun comes to its end, or nothing more of it comes.
FrameEnds(c) == conn[c].pc = "recv" /\ (Hangup(c) \/ \E r \in Requests : Receive(c, r))

\* What it leaves to the clients: they read what they are sent, or go away, and
\* do not feed a frame to the server byte by byte for ever.
Cooperation ==
  \A c \in Conns : WF_vars(Sends(c)) /\ SF_vars(FrameEnds(c))

CooperativeSpec == FairSpec /\ Cooperation

-----------------------------------------------------------------------------
(* Properties.                                                              *)

TypeOK ==
  /\ file \in [Apps -> Contents]
  /\ apps \in [Apps -> Records] /\ manifest \in [Apps -> Records \cup {NoRecord}]
  /\ downloads \in [Clients -> SUBSET Apps] /\ registry \in [Clients -> SUBSET Apps]
  /\ active \in [Clients -> Conns \cup {None}]
  /\ pushes \in [Clients -> Seq(Tasks)]
  /\ conn \in [Conns -> Handlers] /\ open \in [Conns -> BOOLEAN]
  /\ pub \in [app : Apps, hash : Contents] \cup {None}
  /\ named \in [Apps -> [Versions -> SUBSET Contents]]
  /\ restarts \in 0..MaxRestarts /\ faults \in 0..MaxFaults

\* A client has at most one task per application in its queue, and as long as
\* no save has failed that task carries the application's newest version
\* (README.md:397), whatever publications, takeovers and pops come between.
QueueIsNewest ==
  \A k \in Clients : \A i, j \in DOMAIN pushes[k] :
    /\ pushes[k][i].app = pushes[k][j].app => i = j
    /\ LET t == pushes[k][i]
       IN faults = 0 => [version |-> t.version, hash |-> t.hash] = apps[t.app]

\* Tasks are queued only for clients that are registered as connected and
\* have downloaded the application: a publication that races with a
\* disconnection leaves no queue behind.
QueueHasReader ==
  \A k \in Clients : pushes[k] # <<>> =>
    /\ active[k] # None
    /\ \A i \in DOMAIN pushes[k] : pushes[k][i].app \in downloads[k]

\* A registration ends only by the cleanup of the connection that holds it or
\* by a newer HELLO: the cleanup of a replaced connection never unregisters
\* its successor, nor drops the tasks queued for it.
OnlyOwnerUnregisters ==
  [][restarts' = restarts => \A k \in Clients :
       active[k] # None /\ active'[k] = None =>
         /\ conn[active[k]].pc = "cleanup" /\ conn[active[k]].client = k
         /\ conn'[active[k]].pc = "free"]_vars

\* A connection that believes to serve a client, with a usable socket, is the
\* registered one, or a newer connection is about to close it.
SupersededIsClosing ==
  \A c \in Conns :
    Registered(c) /\ open[c] /\ active[conn[c].client] # c =>
      \E d \in Conns : conn[d].pc = "closeOld" /\ conn[d].old = c

\* A version number stands for one content only, across publications and
\* restarts, as long as no disk operation has failed: versions alone decide
\* whether a client is up to date (README.md:311).
VersionNamesOneContent ==
  faults = 0 => \A a \in Apps, v \in Versions : \A x, y \in named[a][v] : x = y

\* What has been saved stands, across restarts and failed saves: a version in the
\* manifest keeps its content until a newer one replaces it, or the manifest is
\* damaged, and a registered download stays registered.  As long as no disk
\* operation has failed the memory forgets nothing either.
NothingForgotten ==
  [][/\ \A a \in Apps : \/ manifest'[a] \in {manifest[a], NoRecord}
                        \/ manifest'[a].version > manifest[a].version
     /\ \A k \in Clients : registry[k] \subseteq registry'[k]
     /\ faults' = 0 =>
          /\ \A a \in Apps : apps'[a].version >= apps[a].version
          /\ \A k \in Clients : downloads[k] \subseteq downloads'[k]]_vars

\* A handler does not wait for an ACK for ever, whatever a cooperative client
\* sends instead, frames without request_id included.
AckWaitEnds ==
  \A c \in Conns : Awaiting(c) ~> ~Awaiting(c)

\* A connection that has been replaced ends, whatever its handler is doing when
\* its socket is closed, if its client is cooperative.
SupersededEnds ==
  \A c \in Conns :
    (Registered(c) /\ active[conn[c].client] # c) ~> ~Registered(c)

-----------------------------------------------------------------------------
(* Statements of the repository that the code does not keep.                *)

\* README.md:395: "Only one file transfer can be pending for a client at a
\* time."  With two takeovers in quick succession the last connection starts a
\* transfer before the middle one has closed the first.
OneTransferPerClient ==
  \A c, d \in Conns :
    open[c] /\ open[d] /\ Awaiting(c) /\ Awaiting(d) /\ conn[c].client = conn[d].client
      => c = d

\* config.py:10: "max time to read a complete frame once select() triggers".
\* The timeout starts anew with every recv, so bytes that keep coming keep the
\* handler in recv_message, past ACK_TIMEOUT too.
FrameTimeoutHolds ==
  \A c \in Conns : conn[c].pc \in {"recv", "part"} ~> conn[c].pc \notin {"recv", "part"}
=============================================================================
