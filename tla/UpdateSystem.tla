----------------------------- MODULE UpdateSystem -----------------------------
(***************************************************************************)
(* One client and the server, joined by connections.                       *)
(*                                                                         *)
(* The server is AppServer: every step of it is a step of that module,     *)
(* conjoined with what it reads from and writes to the connection, and the *)
(* two reads AppServer leaves out, of the records a CHECK_UPDATES is       *)
(* compared with and of the record a DOWNLOAD is announced with, are steps *)
(* of their own.  The client is its main thread, which says HELLO, checks  *)
(* for updates, downloads them one by one and then obeys the console, and  *)
(* its listener; of its storage only what is installed is kept, which      *)
(* LocalStore has in detail, and requests find their answers, which        *)
(* Requests has in detail.                                                 *)
(***************************************************************************)
EXTENDS Naturals, Sequences

CONSTANTS Apps, Conns, None,
          Client,         \* the client's name
          MaxVersion, MaxContent, MaxRestarts, MaxFaults

ASSUME NamesAssumption ==
  /\ None \notin Apps \cup {Client} \cup Conns
  /\ None \notin [kind : {"DOWNLOAD", "PUSH_UPDATE"}, app : Apps]
  /\ None \notin {"HELLO", "DOWNLOAD", "CHECK_UPDATES", "DISCONNECT", "PUSH_UPDATE"}
ASSUME SizesAssumption ==
  /\ MaxVersion \in Nat \ {0} /\ MaxContent \in Nat \ {0}
  /\ MaxRestarts \in Nat /\ MaxFaults \in Nat

VARIABLES
  file, apps, manifest, downloads, registry, active, pushes,   \* the server's
  conn, open, pub, named, restarts, faults,
  seen,     \* the copy of apps a handler has made for the request it serves
  up,       \* frames on the way to each handler, the one it serves first
  down,     \* frames on the way to the client's process
  main,     \* the client's process: [pc, conn, waits, todo]
  inst,     \* its applications: version recorded and content
  lost      \* newest version that was not queued, or not delivered (history)

\* This client sends its frames whole or dies: a frame in parts, which only delays
\* the handler, is left to AppServer, and so is a damaged manifest.
Server ==
  INSTANCE AppServer WITH Clients <- {Client}, ManifestBreaks <- FALSE, SlowFrames <- FALSE

serverVars == <<file, apps, manifest, downloads, registry, active, pushes,
                conn, open, pub, named, restarts, faults>>
client == <<main, inst>>
vars == <<serverVars, seen, up, down, client, lost>>

Versions == 0..MaxVersion

\* Requests as the client sends them; AppServer only needs to know which
\* applications a CHECK_UPDATES names.
Asks ==
  [kind : {"HELLO"}, client : {Client}] \cup [kind : {"DOWNLOAD"}, app : Apps]
    \cup [kind : {"CHECK_UPDATES"}, versions : [Apps -> Versions]]
    \cup [kind : {"ACK", "DISCONNECT"}]

Request(f) ==
  IF f.kind = "CHECK_UPDATES"
    THEN [kind |-> f.kind, known |-> {a \in Apps : f.versions[a] # 0}]
    ELSE f

\* Answers carry the kind of request they answer; an ERROR to an ACK reaches
\* nobody and is left out.
Frames ==
  [kind : {"OK", "ERROR"}, to : {"HELLO", "DOWNLOAD", "CHECK_UPDATES", "DISCONNECT"}]
    \cup [kind : {"UPDATES"}, to : {"CHECK_UPDATES"}, updates : SUBSET Apps]
    \cup [kind : {"TRANSFER", "PUSH"}, to : {"DOWNLOAD", "PUSH_UPDATE"}, app : Apps,
          version : Versions, hash : Server!Contents, data : Server!Contents]

Off == [pc |-> "off", conn |-> None, waits |-> None, todo |-> {}]
Nothing == [version |-> 0, content |-> 0]

Init ==
  /\ Server!Init
  /\ seen = [c \in Conns |-> None] /\ up = [c \in Conns |-> <<>>] /\ down = <<>>
  /\ main = Off /\ inst = [a \in Apps |-> Nothing] /\ lost = [a \in Apps |-> 0]

-----------------------------------------------------------------------------
(* The server's handlers.                                                   *)

\* A send that succeeds reaches the client's process if it still runs.
Reply(c, f) ==
  down' = IF conn'[c].pc # "cleanup" /\ main.conn = c THEN Append(down, f) ELSE down

\* Mutant of Served: what was read of apps is kept for later requests.
ServedCaching(c) == up' = [up EXCEPT ![c] = Tail(@)] /\ UNCHANGED seen

\* The request has been served.
Served(c) == up' = [up EXCEPT ![c] = Tail(@)] /\ seen' = [seen EXCEPT ![c] = None]
Now(c) == Head(up[c])

\* select reports a frame, which is read.
Take(c) ==
  /\ up[c] # <<>> /\ Server!Receive(c, Request(Now(c)))
  /\ UNCHANGED <<seen, up, down, client, lost>>

\* select times out: nothing has come.
Idle(c) ==
  /\ up[c] = <<>> /\ Server!Idle(c)
  /\ UNCHANGED <<seen, up, down, client, lost>>

\* A DISCONNECT of a client that has not been welcomed is answered by an error,
\* which reaches nobody.
Refuse(c) ==
  /\ Server!Answer(c) /\ Served(c)
  /\ UNCHANGED <<down, client, lost>>

\* The error may be lost, and what follows it is not read.
Violation(c) ==
  /\ Server!Violation(c)
  /\ \/ UNCHANGED down
     \/ /\ open[c] /\ main.conn = c
        /\ down' = Append(down, [kind |-> "ERROR", to |-> Now(c).kind])
  /\ Served(c)
  /\ UNCHANGED <<client, lost>>

TakeAck(c) ==
  /\ Server!AcceptAck(c) /\ Served(c)
  /\ UNCHANGED <<down, client, lost>>

TakeHello(c) ==
  /\ Server!Hello(c) /\ Served(c)
  /\ UNCHANGED <<down, client, lost>>

CloseOld(c) ==
  /\ Server!CloseOld(c)
  /\ UNCHANGED <<seen, up, down, client, lost>>

Welcome(c) ==
  /\ Server!Welcome(c) /\ Reply(c, [kind |-> "OK", to |-> "HELLO"])
  /\ UNCHANGED <<seen, up, client, lost>>

\* get_app_record, and the snapshot of _build_updates_response.  What a client
\* says it has is now compared with the newest versions.
Look(c) ==
  /\ Server!Serving(c, {"DOWNLOAD", "CHECK_UPDATES"})
  /\ Server!Registered(c) /\ ~Server!Awaiting(c)
  /\ seen[c] = None /\ seen' = [seen EXCEPT ![c] = apps]
  /\ lost' = IF Now(c).kind = "CHECK_UPDATES"
                  /\ main.conn = c
               THEN [a \in Apps |-> IF Now(c).versions[a] # 0 THEN 0 ELSE lost[a]]
               ELSE lost
  /\ UNCHANGED <<serverVars, up, down, client>>

\* Mutant of Newer: a client one version behind is told nothing.
MuchNewer(c, a) == Now(c).versions[a] # 0 /\ seen[c][a].version > Now(c).versions[a] + 1

\* An application of the client that is newer on the server.
Newer(c, a) == Now(c).versions[a] # 0 /\ seen[c][a].version > Now(c).versions[a]

\* resync_client_downloads, then the answer.
Compare(c) ==
  /\ seen[c] # None /\ Server!CheckUpdates(c)
  /\ Reply(c, [kind |-> "UPDATES", to |-> "CHECK_UPDATES",
               updates |-> {a \in Apps : Newer(c, a)}])
  /\ Served(c)
  /\ UNCHANGED <<client, lost>>

\* Mutant of SendFile: the version that comes next is announced.
SendFileAsNext(c) ==
  /\ seen[c] # None /\ Server!Download(c)
  /\ LET a == Now(c).app
     IN Reply(c, [kind |-> "TRANSFER", to |-> "DOWNLOAD", app |-> a,
                  version |-> seen[c][a].version + 1, hash |-> seen[c][a].hash, data |-> file[a]])
  /\ Served(c)
  /\ UNCHANGED <<client, lost>>

\* read_app_binary, then the transfer: the file as it is now, with the version
\* and the hash of the record read before.
SendFile(c) ==
  /\ seen[c] # None /\ Server!Download(c)
  /\ LET a == Now(c).app
     IN Reply(c, [kind |-> "TRANSFER", to |-> "DOWNLOAD", app |-> a,
                  version |-> seen[c][a].version, hash |-> seen[c][a].hash, data |-> file[a]])
  /\ Served(c)
  /\ UNCHANGED <<client, lost>>

TakeDisconnect(c) ==
  /\ Server!Disconnect(c) /\ Served(c)
  /\ UNCHANGED <<down, client, lost>>

\* The task of another connection's client is lost with this connection.
Pop(c) ==
  /\ Server!PopPush(c)
  /\ lost' = IF conn'[c].pc = "push" /\ main.conn # c
               THEN [lost EXCEPT ![conn'[c].task.app] = conn'[c].task.version] ELSE lost
  /\ UNCHANGED <<seen, up, down, client>>

SendPush(c) ==
  /\ Server!SendPush(c)
  /\ LET t == conn[c].task
     IN Reply(c, [kind |-> "PUSH", to |-> "PUSH_UPDATE", app |-> t.app,
                  version |-> t.version, hash |-> t.hash, data |-> t.hash])
  /\ UNCHANGED <<seen, up, client, lost>>

\* What the loop ends with, and its reasons that do not come from a frame.
End(c) ==
  /\ Server!Hangup(c) \/ Server!AckTimeout(c) \/ Server!Cleanup(c)
  /\ up' = [up EXCEPT ![c] = <<>>] /\ seen' = [seen EXCEPT ![c] = None]
  /\ UNCHANGED <<down, client, lost>>

-----------------------------------------------------------------------------
(* The publisher and the server's process.                                  *)

Operate ==
  /\ Server!Operator
  /\ UNCHANGED <<seen, up, down, client, lost>>

\* A publication passes by a client that is not registered as connected, whose
\* download is not registered yet, or if the manifest cannot be saved.
Publish ==
  /\ Server!CommitPublish
  /\ LET a == pub.app
     IN lost' = IF active[Client] # None /\ a \in downloads[Client] /\ faults' = faults
                  THEN lost ELSE [lost EXCEPT ![a] = apps'[a].version]
  /\ UNCHANGED <<seen, up, down, client>>

Restart ==
  /\ Server!Restart
  /\ seen' = [c \in Conns |-> None] /\ up' = [c \in Conns |-> <<>>]
  /\ UNCHANGED <<down, client, lost>>

-----------------------------------------------------------------------------
(* The client.                                                              *)

\* A new process connects.
Connect(c) ==
  /\ main.pc = "off" /\ Server!Accept(c)
  /\ main' = [Off EXCEPT !.pc = "hello", !.conn = c]
  /\ UNCHANGED <<seen, up, down, inst, lost>>

\* A request: main waits for the answer.
Ask(f) ==
  /\ main.waits = None /\ main.pc # "off" /\ open[main.conn]
  /\ up' = [up EXCEPT ![main.conn] = Append(@, f)]
  /\ UNCHANGED <<serverVars, seen, down, inst, lost>>

SayHello ==
  /\ main.pc = "hello" /\ Ask([kind |-> "HELLO", client |-> Client])
  /\ main' = [main EXCEPT !.waits = "HELLO"]

\* check_updates_and_download, called by connect and from the console.
Check ==
  /\ Ask([kind |-> "CHECK_UPDATES", versions |-> [a \in Apps |-> inst[a].version]])
  /\ main' = [main EXCEPT !.waits = "CHECK_UPDATES"]

\* The updates it was told of are downloaded one after the other.
Fetch(a) ==
  /\ main.pc = "ready" /\ a \in main.todo
  /\ Ask([kind |-> "DOWNLOAD", app |-> a])
  /\ main' = [main EXCEPT !.waits = "DOWNLOAD", !.todo = @ \ {a}]

\* The console: download any application, check again, or list.
AtConsole == main.pc = "ready" /\ main.todo = {}

Command ==
  \/ AtConsole /\ Check
  \/ /\ AtConsole /\ main' = [main EXCEPT !.waits = "DOWNLOAD"]
     /\ \E a \in Apps : Ask([kind |-> "DOWNLOAD", app |-> a])

\* Mutant of Intact: the payload is not hashed.
NotHashed(f) == TRUE

Intact(f) == f.data = f.hash

\* What main does with its answer: go on to the next thing.
Resume(f) ==
  main' = IF f.to # main.waits THEN main
          ELSE [main EXCEPT !.waits = None,
                  !.pc = CASE main.pc = "hello" -> "check" [] main.pc = "check" -> "ready"
                           [] OTHER -> main.pc,
                  !.todo = IF f.kind = "UPDATES" THEN f.updates ELSE @]

\* The listener: a file that is what it claims is installed and acknowledged,
\* any other is dropped, and its connection will end.
Listen ==
  /\ main.pc # "off" /\ down # <<>>
  /\ LET f == Head(down)
         files == f.kind \in {"TRANSFER", "PUSH"}
     IN /\ inst' = IF files /\ Intact(f)
                     THEN [inst EXCEPT ![f.app] = [version |-> f.version, content |-> f.data]]
                     ELSE inst
        /\ up' = IF files /\ Intact(f) /\ open[main.conn]
                   THEN [up EXCEPT ![main.conn] = Append(@, [kind |-> "ACK"])] ELSE up
        /\ lost' = IF files /\ ~Intact(f) THEN [lost EXCEPT ![f.app] = apps[f.app].version]
                   ELSE lost
        /\ Resume(f)
  /\ down' = Tail(down)
  /\ UNCHANGED <<serverVars, seen>>

\* The process ends, with a DISCONNECT or without.
Quit ==
  /\ main.pc # "off"
  /\ \/ UNCHANGED up
     \/ /\ open[main.conn]
        /\ up' = [up EXCEPT ![main.conn] = Append(@, [kind |-> "DISCONNECT"])]
  /\ main' = Off /\ down' = <<>>
  /\ UNCHANGED <<serverVars, seen, inst, lost>>
-----------------------------------------------------------------------------
Serve(c) ==
  \/ Refuse(c) \/ Violation(c) \/ TakeAck(c) \/ TakeHello(c) \/ CloseOld(c) \/ Welcome(c)
  \/ Look(c) \/ Compare(c) \/ SendFile(c) \/ TakeDisconnect(c) \/ Pop(c) \/ SendPush(c)

\* What main does by itself, without the console.
Proceed ==
  \/ SayHello \/ (main.pc = "check" /\ Check) \/ \E a \in Apps : Fetch(a)

Next ==
  \/ \E c \in Conns : Take(c) \/ Idle(c) \/ Serve(c) \/ End(c) \/ Connect(c)
  \/ Operate \/ Publish \/ Restart
  \/ Proceed \/ Command \/ Listen \/ Quit

Spec == Init /\ [][Next]_vars

\* The threads of both sides are scheduled, select returns with what has come or
\* by its timeout, and a handler that waits for an ACK and gets nothing gives up.
\* Nothing is assumed of the user, of the operator, of the network and of the
\* life of the processes.
Fairness ==
  /\ WF_vars(Proceed) /\ WF_vars(Listen)
  /\ \A c \in Conns :
       /\ WF_vars(Take(c)) /\ WF_vars(Idle(c)) /\ WF_vars(Serve(c))
       /\ WF_vars(Server!AckTimeout(c) /\ End(c))

FairSpec == Spec /\ Fairness

-----------------------------------------------------------------------------
(* Properties.                                                              *)

TypeOK ==
  /\ seen \in [Conns -> [Apps -> Server!Records] \cup {None}]
  /\ up \in [Conns -> Seq(Asks)] /\ down \in Seq(Frames)
  /\ main \in [pc : {"off", "hello", "check", "ready"}, conn : Conns \cup {None},
               waits : {"HELLO", "DOWNLOAD", "CHECK_UPDATES", None}, todo : SUBSET Apps]
  /\ inst \in [Apps -> [version : Versions, content : 0..MaxContent]]
  /\ lost \in [Apps -> Versions]

\* What the client has installed as a version is a content that version has
\* stood for on the server, although a DOWNLOAD reads record and binary in two
\* steps and the operator may overwrite or publish in between.
ContentMatchesVersion ==
  \A a \in Apps : inst[a].version # 0 => inst[a].content \in named[a][inst[a].version]

\* A client is never ahead of the server, across restarts of both, as long as
\* no disk operation of the server has failed: no version reaches a client
\* before it is on the server's disk.
ClientNotAhead ==
  faults = 0 => \A a \in Apps : inst[a].version <= manifest[a].version

\* What the client installs never goes back to an older version, over any
\* number of connections, as long as no disk operation of the server has
\* failed: LocalStore takes the transfers of an application in this order.
TransfersInOrder ==
  [][faults' = 0 => \A a \in Apps : inst'[a].version >= inst[a].version]_vars

Newest(a, t) == t.app = a /\ t.version = apps[a].version
Files == {"TRANSFER", "PUSH"}

\* On connection c something brings the client application a's newest version,
\* or leads it to ask for it.
OnItsWay(c, a) ==
  \/ \E i \in DOMAIN pushes[Client] : Newest(a, pushes[Client][i])
  \/ conn[c].pc = "push" /\ Newest(a, conn[c].task)
  \/ \E i \in DOMAIN down : down[i].kind \in Files /\ Newest(a, down[i])
  \/ \E i \in DOMAIN down : down[i].kind = "UPDATES" /\ a \in down[i].updates
  \/ a \in main.todo
  \/ \E i \in DOMAIN up[c] :
       /\ i = 1 => seen[c] = None \/ seen[c][a] = apps[a]
       /\ \/ up[c][i].kind = "CHECK_UPDATES"
          \/ up[c][i].kind = "DOWNLOAD" /\ up[c][i].app = a

\* The client's connection, registered and not given up by the server.
Connected(c) ==
  /\ main.pc = "ready" /\ main.conn = c /\ open[c]
  /\ active[Client] = c /\ conn[c].client = Client /\ conn[c].pc # "cleanup"

\* A connected client that has checked for updates and is behind with an
\* application has its newest version on its way, whatever crosses; or that
\* version was published while the client was not connected or its download
\* not registered, its task was taken by the handler of an older connection, or
\* the file sent with it was not the one announced.  Nothing else loses it, as
\* long as no disk operation of the server has failed: after a failed save of
\* the manifest an older task stays in the queue, and is sent after the client
\* has downloaded the version that was not saved.
NewestOnItsWay ==
  faults = 0 => \A c \in Conns, a \in Apps :
    Connected(c) /\ 0 < inst[a].version /\ inst[a].version < apps[a].version =>
      OnItsWay(c, a) \/ lost[a] = apps[a].version

\* Published and on disk are the same, and nothing is being published.
Quiet ==
  pub = None /\ \A a \in Apps : file[a] = apps[a].hash

\* A client that keeps getting answers to CHECK_UPDATES from a server on which
\* nothing is published any more has the newest version of all its applications
\* in the end, whatever was lost before (README.md:403).
Converges ==
  <>[](Quiet /\ main.pc # "off")
    /\ []<>(down # <<>> /\ Head(down).kind = "UPDATES")
  => <>[](\A a \in Apps : inst[a].version = 0 \/ inst[a].version >= apps[a].version)

\* A client that stays connected and asks for nothing gets every newest version
\* by push in the end, one application after the other, each push acknowledged
\* before the next is popped (README.md:379), but for the versions counted as lost.
SilentClientIsServed ==
  \A c \in Conns :
    <>[](Connected(c) /\ main.waits = None /\ pub = None)
      => <>[](\A a \in Apps : \/ inst[a].version = 0
                             \/ inst[a].version >= apps[a].version
                             \/ lost[a] = apps[a].version)
=============================================================================
