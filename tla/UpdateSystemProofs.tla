-------------------------- MODULE UpdateSystemProofs --------------------------
(***************************************************************************)
(* Theorems about UpdateSystem, for every set of applications and          *)
(* connections, and every number of publications, restarts and faults.     *)
(*                                                                         *)
(* The server in UpdateSystem is an instance of AppServer.  S is the same  *)
(* instance of the module of its theorems: once every step of the system   *)
(* is known to be a step of the server, what AppServerProofs proves of the *)
(* server holds in the system.                                             *)
(***************************************************************************)
EXTENDS UpdateSystem, SequenceTheorems, TLAPS

S ==
  INSTANCE AppServerProofs WITH Clients <- {Client}, ManifestBreaks <- FALSE, SlowFrames <- FALSE

-----------------------------------------------------------------------------
(* The two instances are the same server.                                   *)

\* What the instances of AppServer and of its theorems call their sets.
LEMMA SameSets ==
  /\ Server!Records = S!Records /\ Server!Contents = S!Contents
  /\ Server!Versions = S!Versions /\ Server!Tasks = S!Tasks
  /\ Server!Requests = S!Requests
BY DEF Server!Records, S!Records, Server!Contents, S!Contents, Server!Versions, S!Versions,
       Server!Tasks, S!Tasks, Server!Requests, S!Requests

\* Their initial states ...
LEMMA SameInit == Server!Init <=> S!Init
BY DEF Server!Init, S!Init, Server!NoHandler, S!NoHandler, Server!Versions, S!Versions

\* ... and their steps.
LEMMA SameNext == [Server!Next]_(Server!vars) <=> [S!Next]_(S!vars)
<1>1. Server!Next <=> S!Next
  BY DEF Server!disk, S!disk, Server!live, S!live, Server!bounds, S!bounds,
         Server!Versions, S!Versions, Server!Contents, S!Contents, Server!Records, S!Records,
         Server!NoRecord, S!NoRecord, Server!Tasks, S!Tasks, Server!Transfers, S!Transfers,
         Server!Requests, S!Requests, Server!Handlers, S!Handlers,
         Server!NoHandler, S!NoHandler, Server!Bootstrapped, S!Bootstrapped,
         Server!Goto, S!Goto, Server!Sent, S!Sent, Server!Accept, S!Accept,
         Server!Receive, S!Receive, Server!Hangup, S!Hangup, Server!AckTimeout, S!AckTimeout,
         Server!Serving, S!Serving, Server!Registered, S!Registered,
         Server!Awaiting, S!Awaiting, Server!Back, S!Back, Server!Answer, S!Answer,
         Server!Violation, S!Violation, Server!AcceptAck, S!AcceptAck, Server!Hello, S!Hello,
         Server!CloseOld, S!CloseOld, Server!Welcome, S!Welcome, Server!Download, S!Download,
         Server!CheckUpdates, S!CheckUpdates, Server!Disconnect, S!Disconnect,
         Server!Idle, S!Idle, Server!PopPush, S!PopPush, Server!SendPush, S!SendPush,
         Server!Owned, S!Owned, Server!Cleanup, S!Cleanup, Server!Overwrite, S!Overwrite,
         Server!ReadFile, S!ReadFile, Server!Recipients, S!Recipients, Server!Queued, S!Queued,
         Server!Renamed, S!Renamed, Server!CommitPublish, S!CommitPublish,
         Server!Restart, S!Restart, Server!DamageManifest, S!DamageManifest,
         Server!Part, S!Part, Server!ReceiveMore, S!ReceiveMore, Server!Sends, S!Sends,
         Server!Moves, S!Moves, Server!Reads, S!Reads, Server!Selects, S!Selects,
         Server!Handler, S!Handler,
         Server!Operator, S!Operator, Server!Next, S!Next
<1>2. UNCHANGED Server!vars <=> UNCHANGED S!vars
  BY DEF Server!vars, S!vars, Server!disk, S!disk, Server!live, S!live, Server!bounds, S!bounds
<1>3. QED
  BY <1>1, <1>2

\* What AppServerProofs assumes of its constants.
LEMMA ServerAssumptions ==
  /\ None \notin Apps \cup {Client} \cup Conns
  /\ MaxVersion \in Nat \ {0} /\ MaxContent \in Nat \ {0}
  /\ MaxRestarts \in Nat /\ MaxFaults \in Nat /\ FALSE \in BOOLEAN
BY NamesAssumption, SizesAssumption

-----------------------------------------------------------------------------
(* Types, and the requests the handlers serve.                              *)

\* A handler serves the frame at the head of its stream, and has a copy of apps
\* only while it serves a request that needs one.
InService(c) ==
  /\ conn[c].pc = "serve" => up[c] # <<>> /\ conn[c].request = Request(Now(c))
  /\ seen[c] # None =>
       conn[c].pc = "serve" /\ conn[c].request.kind \in {"DOWNLOAD", "CHECK_UPDATES"}

TypeInv ==
  /\ TypeOK /\ S!TypeInv
  /\ \A c \in Conns : InService(c)
  /\ main.pc # "off" => main.conn # None

\* What the types of the server say, in the names of UpdateSystem.
LEMMA ServerTypes ==
  ASSUME S!TypeInv
  PROVE  /\ file \in [Apps -> Server!Contents] /\ apps \in [Apps -> Server!Records]
         /\ pushes[Client] \in Seq(Server!Tasks)
         /\ DOMAIN conn = Conns
         /\ \A c \in Conns :
              /\ conn[c] \in S!Handlers
              /\ conn[c].pc = "push" => conn[c].task \in Server!Tasks
              /\ conn[c].pc = "free" => conn[c].client = None
         /\ \A a \in Apps : apps[a].version \in Versions /\ apps[a].hash \in Server!Contents
         /\ \A t \in Server!Tasks :
              t.app \in Apps /\ t.version \in Versions /\ t.hash \in Server!Contents
<1>1. /\ file \in [Apps -> Server!Contents] /\ apps \in [Apps -> Server!Records]
      /\ pushes[Client] \in Seq(Server!Tasks)
  BY SameSets DEF S!TypeInv, S!TypeOK
<1>2. DOMAIN conn = Conns
  BY DEF S!TypeInv, S!TypeOK
<1>3. \A c \in Conns :
        /\ conn[c] \in S!Handlers
        /\ conn[c].pc = "push" => conn[c].task \in Server!Tasks
        /\ conn[c].pc = "free" => conn[c].client = None
  BY SameSets DEF S!TypeInv, S!Control, S!Placed
<1>4. \A r \in Server!Records : r.version \in Versions /\ r.hash \in Server!Contents
  BY SizesAssumption DEF Server!Records, Server!Versions, Versions
<1>5. \A t \in Server!Tasks : t.app \in Apps /\ t.version \in Versions /\ t.hash \in Server!Contents
  BY SizesAssumption DEF Server!Tasks, Server!Versions, Versions
<1>6. QED
  BY <1>1, <1>2, <1>3, <1>4, <1>5

\* A handler moves alone, and leaves the applications and the publisher alone.
LEMMA HandlerAlone ==
  ASSUME S!TypeInv, NEW c \in Conns, Server!Handler(c)
  PROVE  /\ \A d \in Conns : d # c => conn'[d] = conn[d]
         /\ UNCHANGED <<file, apps, manifest, named, pub, restarts>>
<1>1. DOMAIN conn = Conns
  BY ServerTypes
<1> USE DEF Server!disk, Server!bounds, Server!Goto, Server!Sent
<1>2. CASE Server!Sends(c) \/ Server!Moves(c)
  BY <1>1, <1>2
  DEF Server!Sends, Server!Moves, Server!ReceiveMore, Server!Answer, Server!Violation,
      Server!AcceptAck, Server!Hello,
      Server!CloseOld, Server!Welcome, Server!Download, Server!CheckUpdates, Server!Disconnect,
      Server!PopPush, Server!SendPush, Server!Cleanup
<1>3. CASE Server!Accept(c) \/ Server!Selects(c) \/ Server!AckTimeout(c)
  BY <1>1, <1>3
  DEF Server!Accept, Server!Selects, Server!Reads, Server!Part, Server!Idle, Server!Hangup,
      Server!Receive,
      Server!AckTimeout
<1>4. QED
  BY <1>2, <1>3 DEF Server!Handler

\* Requests are requests to the server, and what a request carries.
LEMMA AskTypes ==
  ASSUME NEW f \in Asks
  PROVE  /\ Request(f) \in Server!Requests /\ Request(f).kind = f.kind
         /\ f.kind = "DOWNLOAD" => f.app \in Apps
         /\ f.kind = "CHECK_UPDATES" => f.versions \in [Apps -> Versions]
BY DEF Asks, Request, Server!Requests

\* What is put into the streams, and what is left of them.
LEMMA Streams ==
  /\ \A s \in Seq(Asks), f \in Asks :
       Append(s, f) \in Seq(Asks) /\ Append(s, f) # <<>> /\ (s # <<>> => Head(Append(s, f)) = Head(s))
  /\ \A s \in Seq(Asks) : s # <<>> => Head(s) \in Asks /\ Tail(s) \in Seq(Asks)
  /\ \A s \in Seq(Frames), f \in Frames : Append(s, f) \in Seq(Frames)
  /\ \A s \in Seq(Frames) : s # <<>> => Head(s) \in Frames /\ Tail(s) \in Seq(Frames)
  /\ <<>> \in Seq(Asks) /\ <<>> \in Seq(Frames)
<1>1. ASSUME NEW T, NEW s \in Seq(T), NEW f \in T
      PROVE  Append(s, f) \in Seq(T) /\ Append(s, f) # <<>>
             /\ (s # <<>> => Head(Append(s, f)) = Head(s))
  <2>1. Append(s, f) \in Seq(T) /\ Len(Append(s, f)) = Len(s) + 1 /\ Len(s) \in Nat
        /\ \A i \in 1..Len(s) : Append(s, f)[i] = s[i]
    OBVIOUS
  <2>2. Append(s, f) # <<>>
    BY <2>1
  <2>3. ASSUME s # <<>> PROVE Append(s, f)[1] = s[1]
    BY <2>1, <2>3
  <2>4. s # <<>> => Head(s) = s[1]
    OBVIOUS
  <2>5. Head(Append(s, f)) = Append(s, f)[1]
    BY <2>1, <2>2
  <2>6. QED
    BY <2>1, <2>2, <2>3, <2>4, <2>5
<1>2. ASSUME NEW T, NEW s \in Seq(T), s # <<>> PROVE Head(s) \in T /\ Tail(s) \in Seq(T)
  BY <1>2
<1>3. QED
  BY <1>1, <1>2

\* The frames the handlers send.
LEMMA FrameTypes ==
  /\ \A to \in {"HELLO", "DOWNLOAD", "CHECK_UPDATES", "DISCONNECT"} :
       [kind |-> "ERROR", to |-> to] \in Frames /\ [kind |-> "OK", to |-> to] \in Frames
  /\ \A u \in SUBSET Apps : [kind |-> "UPDATES", to |-> "CHECK_UPDATES", updates |-> u] \in Frames
  /\ \A to \in {"DOWNLOAD", "PUSH_UPDATE"}, kind \in Files, a \in Apps, v \in Versions,
        h \in Server!Contents, d \in Server!Contents :
       [kind |-> kind, to |-> to, app |-> a, version |-> v, hash |-> h, data |-> d] \in Frames
BY DEF Frames, Files

\* Every step is one of the server's, or none.
LEMMA ServerStep ==
  ASSUME TypeInv, [Next]_vars
  PROVE  [Server!Next]_(Server!vars)
<1>1. ASSUME NEW c \in Conns, Take(c) PROVE Server!Next
  <2>1. up[c] \in Seq(Asks) /\ up[c] # <<>>
    BY <1>1 DEF Take, TypeInv, TypeOK
  <2>2. Request(Now(c)) \in Server!Requests
    BY <2>1, Streams, AskTypes DEF Now
  <2>3. QED
    BY <1>1, <2>2 DEF Take, Server!Next, Server!Handler, Server!Selects, Server!Reads
<1>2. ASSUME NEW c \in Conns, Serve(c) PROVE Server!Next \/ UNCHANGED serverVars
  BY <1>2
  DEF Serve, Refuse, Violation, TakeAck, TakeHello, CloseOld, Welcome, Look, Compare, SendFile,
      TakeDisconnect, Pop, SendPush, Server!Next, Server!Handler, Server!Sends, Server!Moves
<1>3. ASSUME NEW c \in Conns, Idle(c) \/ End(c) \/ Connect(c) PROVE Server!Next
  BY <1>3
  DEF Idle, End, Connect, Server!Next, Server!Handler, Server!Selects, Server!Reads,
      Server!Sends, Server!Moves
<1>4. Operate \/ Publish \/ Restart => Server!Next
  BY DEF Operate, Publish, Restart, Server!Next
<1>5. Proceed \/ Command \/ Listen \/ Quit \/ UNCHANGED vars => UNCHANGED serverVars
  BY DEF Proceed, SayHello, Check, Fetch, Ask, Command, AtConsole, Listen, Quit, vars
<1>6. UNCHANGED serverVars => UNCHANGED Server!vars
  BY DEF serverVars, Server!vars, Server!disk, Server!live, Server!bounds
<1>7. QED
  BY <1>1, <1>2, <1>3, <1>4, <1>5, <1>6 DEF Next

-----------------------------------------------------------------------------
(* Type correctness, and the server as AppServer describes it.              *)

\* What a send leaves behind.
LEMMA SentGoes ==
  ASSUME S!TypeInv, NEW c \in Conns, NEW h
  PROVE  /\ Server!Sent(c, h) => conn'[c] = h \/ conn'[c].pc = "cleanup"
         /\ \A pc : Server!Goto(c, pc) => conn'[c].pc = pc
         /\ Server!Back(c).pc = "select"
<1>1. DOMAIN conn = Conns /\ "pc" \in DOMAIN conn[c]
  BY ServerTypes DEF S!Handlers
<1>2. QED
  BY <1>1 DEF Server!Sent, Server!Goto, Server!Back

\* A handler that has served a request goes on to something else ...
LEMMA HandlerServes ==
  ASSUME S!TypeInv, NEW c \in Conns,
         \/ Server!Answer(c) \/ Server!Violation(c) \/ Server!AcceptAck(c) \/ Server!Hello(c)
         \/ Server!Download(c) \/ Server!CheckUpdates(c) \/ Server!Disconnect(c)
  PROVE  conn[c].pc = "serve" /\ conn'[c].pc \notin {"serve", "push"}
<1>1. DOMAIN conn = Conns /\ "pc" \in DOMAIN conn[c]
  BY ServerTypes DEF S!Handlers
<1>2. CASE Server!Answer(c) \/ Server!Violation(c) \/ Server!Disconnect(c) \/ Server!CheckUpdates(c)
  BY <1>2, SentGoes
  DEF Server!Answer, Server!Violation, Server!Disconnect, Server!CheckUpdates, Server!Serving
<1>3. CASE Server!Download(c)
  <2> DEFINE h == [Server!Back(c) EXCEPT
                     !.transfer = [kind |-> "DOWNLOAD", app |-> conn[c].request.app]]
  <2>1. h.pc = "select" /\ Server!Sent(c, h)
    BY <1>1, <1>3 DEF Server!Download, Server!Back
  <2>2. conn'[c] = h \/ conn'[c].pc = "cleanup"
    BY <2>1, SentGoes
  <2>3. QED
    BY <1>3, <2>1, <2>2 DEF Server!Download, Server!Serving
<1>4. CASE Server!AcceptAck(c)
  <2> DEFINE h == [Server!Back(c) EXCEPT !.transfer = None]
  <2>1. h.pc = "select"
    BY <1>1 DEF Server!Back
  <2>2. Server!Sent(c, h) \/ conn' = [conn EXCEPT ![c] = h]
    BY <1>4 DEF Server!AcceptAck
  <2>3. conn'[c] = h \/ conn'[c].pc = "cleanup"
    BY <1>1, <2>2, SentGoes
  <2>4. QED
    BY <1>4, <2>1, <2>3 DEF Server!AcceptAck, Server!Serving
<1>5. CASE Server!Hello(c)
  BY <1>1, <1>5 DEF Server!Hello, Server!Serving
<1>6. QED
  BY <1>2, <1>3, <1>4, <1>5

\* ... and only a frame makes it serve.
LEMMA HandlerWaits ==
  ASSUME S!TypeInv, NEW c \in Conns,
         \/ Server!CloseOld(c) \/ Server!Welcome(c) \/ Server!PopPush(c) \/ Server!SendPush(c)
         \/ Server!Idle(c) \/ Server!Hangup(c) \/ Server!AckTimeout(c) \/ Server!Cleanup(c)
         \/ Server!Accept(c)
  PROVE  conn[c].pc # "serve" /\ conn'[c].pc # "serve"
<1>1. DOMAIN conn = Conns /\ "pc" \in DOMAIN conn[c]
  BY ServerTypes DEF S!Handlers
<1> USE DEF Server!Goto, Server!Sent
<1>2. CASE Server!CloseOld(c) \/ Server!Welcome(c) \/ Server!SendPush(c)
  BY <1>1, <1>2 DEF Server!CloseOld, Server!Welcome, Server!SendPush
<1>3. CASE Server!PopPush(c)
  BY <1>1, <1>3 DEF Server!PopPush
<1>4. CASE Server!Idle(c) \/ Server!Hangup(c) \/ Server!AckTimeout(c) \/ Server!Accept(c)
  BY <1>1, <1>4 DEF Server!Idle, Server!Hangup, Server!AckTimeout, Server!Accept
<1>5. CASE Server!Cleanup(c)
  BY <1>1, <1>5 DEF Server!Cleanup, Server!NoHandler
<1>6. QED
  BY <1>2, <1>3, <1>4, <1>5

\* The state of the streams, as far as the handlers serve them.
Streaming ==
  /\ seen \in [Conns -> [Apps -> Server!Records] \cup {None}]
  /\ up \in [Conns -> Seq(Asks)]
  /\ \A c \in Conns : InService(c)

\* A request that has been served leaves the stream, and nothing of it is kept.
LEMMA ServedKeeps ==
  ASSUME Streaming, NEW c \in Conns, \A d \in Conns : d # c => conn'[d] = conn[d],
         conn[c].pc = "serve", conn'[c].pc # "serve", Served(c)
  PROVE  Streaming'
<1>1. up[c] # <<>> /\ up[c] \in Seq(Asks)
  BY DEF Streaming, InService
<1>2. up' \in [Conns -> Seq(Asks)]
  BY <1>1, Streams DEF Streaming, Served
<1>3. seen' \in [Conns -> [Apps -> Server!Records] \cup {None}] /\ seen'[c] = None
  BY DEF Streaming, Served
<1>4. ASSUME NEW d \in Conns, d # c PROVE up'[d] = up[d] /\ seen'[d] = seen[d]
  BY <1>4 DEF Streaming, Served
<1>5. ASSUME NEW d \in Conns PROVE InService(d)'
  BY <1>3, <1>4 DEF Streaming, InService, Now
<1>6. QED
  BY <1>2, <1>3, <1>5 DEF Streaming

\* A handler that does not serve leaves its stream alone ...
LEMMA WaitingKeeps ==
  ASSUME Streaming, NEW c \in Conns, \A d \in Conns : d # c => conn'[d] = conn[d],
         conn[c].pc # "serve", conn'[c].pc # "serve", UNCHANGED <<seen, up>>
  PROVE  Streaming'
BY DEF Streaming, InService, Now

\* ... or gives it up.
LEMMA EndedKeeps ==
  ASSUME Streaming, NEW c \in Conns, \A d \in Conns : d # c => conn'[d] = conn[d],
         conn'[c].pc # "serve",
         up' = [up EXCEPT ![c] = <<>>], seen' = [seen EXCEPT ![c] = None]
  PROVE  Streaming'
<1>1. up' \in [Conns -> Seq(Asks)]
  BY Streams DEF Streaming
<1>2. ASSUME NEW d \in Conns PROVE InService(d)'
  BY DEF Streaming, InService, Now
<1>3. QED
  BY <1>1, <1>2 DEF Streaming

\* A frame that comes is served after those that have come before.
LEMMA AskedKeeps ==
  ASSUME Streaming, NEW c \in Conns, NEW f \in Asks, UNCHANGED <<conn, seen>>,
         up' = [up EXCEPT ![c] = Append(@, f)]
  PROVE  Streaming'
<1>1. up[c] \in Seq(Asks)
  BY DEF Streaming
<1>2. Append(up[c], f) \in Seq(Asks) /\ Append(up[c], f) # <<>>
      /\ (up[c] # <<>> => Head(Append(up[c], f)) = Head(up[c]))
  BY <1>1, Streams
<1>3. up' \in [Conns -> Seq(Asks)] /\ up'[c] = Append(up[c], f)
      /\ \A d \in Conns : d # c => up'[d] = up[d]
  BY <1>2 DEF Streaming
<1>4. ASSUME NEW d \in Conns PROVE InService(d)'
  BY <1>2, <1>3 DEF Streaming, InService, Now
<1>5. QED
  BY <1>3, <1>4 DEF Streaming

\* A reply is a frame more on the way to the client, or nothing.
LEMMA ReplyTypes ==
  ASSUME down \in Seq(Frames), NEW c, NEW f \in Frames, Reply(c, f)
  PROVE  down' \in Seq(Frames)
BY Streams DEF Reply

\* What the client is about, apart from the streams.
Typed ==
  /\ down \in Seq(Frames)
  /\ main \in [pc : {"off", "hello", "check", "ready"}, conn : Conns \cup {None},
               waits : {"HELLO", "DOWNLOAD", "CHECK_UPDATES", None}, todo : SUBSET Apps]
  /\ main.pc # "off" => main.conn # None
  /\ inst \in [Apps -> [version : Versions, content : 0..MaxContent]]
  /\ lost \in [Apps -> Versions]

\* The parts of the invariant.
LEMMA TypeParts == TypeInv <=> S!TypeInv /\ Streaming /\ Typed
BY DEF TypeInv, TypeOK, Streaming, Typed

\* A client that is not touched keeps its types.
LEMMA ClientKept ==
  ASSUME Typed, UNCHANGED client, down' \in Seq(Frames), lost' \in [Apps -> Versions]
  PROVE  Typed'
BY DEF Typed, client

\* What the reads of the copy a handler has made give.
LEMMA SeenTypes ==
  ASSUME TypeInv, NEW c \in Conns, seen[c] # None
  PROVE  /\ up[c] # <<>> /\ Now(c) \in Asks /\ conn[c].request = Request(Now(c))
         /\ seen[c] \in [Apps -> Server!Records]
         /\ \A a \in Apps : seen[c][a].version \in Versions /\ seen[c][a].hash \in Server!Contents
<1>1. up[c] # <<>> /\ up[c] \in Seq(Asks) /\ conn[c].request = Request(Now(c))
      /\ seen[c] \in [Apps -> Server!Records]
  BY DEF TypeInv, TypeOK, InService
<1>2. \A r \in Server!Records : r.version \in Versions /\ r.hash \in Server!Contents
  BY SizesAssumption DEF Server!Records, Server!Versions, Versions
<1>3. QED
  BY <1>1, <1>2, Streams DEF Now

\* The steps of the server's handlers.
LEMMA ServeTypes ==
  ASSUME TypeInv, NEW c \in Conns, Serve(c)
  PROVE  Streaming' /\ Typed'
<1>1. S!TypeInv /\ Streaming /\ Typed
  BY TypeParts
<1>2. down \in Seq(Frames) /\ lost \in [Apps -> Versions]
  BY <1>1 DEF Typed
<1> DEFINE Alone == \A d \in Conns : d # c => conn'[d] = conn[d]
<1>3. Server!Handler(c) => Alone
  BY <1>1, HandlerAlone
<1> HIDE DEF Alone
<1> USE DEF Server!Handler, Server!Sends, Server!Moves
<1>4. CASE Refuse(c) \/ TakeAck(c) \/ TakeHello(c) \/ TakeDisconnect(c)
  <2>1. Streaming'
    BY <1>1, <1>3, <1>4, ServedKeeps, HandlerServes
    DEF Refuse, TakeAck, TakeHello, TakeDisconnect, Alone
  <2>2. UNCHANGED <<down, client, lost>>
    BY <1>4 DEF Refuse, TakeAck, TakeHello, TakeDisconnect
  <2>3. QED
    BY <1>1, <1>2, <2>1, <2>2, ClientKept
<1>5. CASE Violation(c)
  <2>1. Streaming'
    BY <1>1, <1>3, <1>5, ServedKeeps, HandlerServes DEF Violation, Alone
  <2>2. conn[c].pc = "serve"
    BY <1>1, <1>5, HandlerServes DEF Violation
  <2>3. Now(c).kind \in {"HELLO", "DOWNLOAD", "CHECK_UPDATES", "DISCONNECT"}
    <3>1. up[c] \in Seq(Asks) /\ up[c] # <<>> /\ conn[c].request = Request(Now(c))
      BY <1>1, <2>2 DEF Streaming, InService
    <3>2. Now(c) \in Asks
      BY <3>1, Streams DEF Now
    <3>3. Now(c).kind # "ACK"
      BY <1>5, <3>1, <3>2, AskTypes DEF Violation, Server!Violation, Server!Serving
    <3>4. QED
      BY <3>2, <3>3 DEF Asks
  <2>4. down' \in Seq(Frames)
    BY <1>2, <1>5, <2>3, FrameTypes, Streams DEF Violation
  <2>5. QED
    BY <1>1, <1>2, <1>5, <2>1, <2>4, ClientKept DEF Violation
<1>6. CASE CloseOld(c)
  BY <1>1, <1>2, <1>3, <1>6, WaitingKeeps, HandlerWaits, ClientKept DEF CloseOld, Alone
<1>7. CASE Welcome(c)
  <2>1. Streaming'
    BY <1>1, <1>3, <1>7, WaitingKeeps, HandlerWaits DEF Welcome, Alone
  <2>2. down' \in Seq(Frames)
    BY <1>2, <1>7, FrameTypes, ReplyTypes DEF Welcome
  <2>3. QED
    BY <1>1, <1>2, <1>7, <2>1, <2>2, ClientKept DEF Welcome
<1>8. CASE Look(c)
  <2>1. conn[c].pc = "serve" /\ conn[c].request.kind \in {"DOWNLOAD", "CHECK_UPDATES"}
    BY <1>8 DEF Look, Server!Serving
  <2>2. apps \in [Apps -> Server!Records]
    BY <1>1, ServerTypes
  <2>3. UNCHANGED <<conn, up>> /\ seen' = [seen EXCEPT ![c] = apps]
    BY <1>8 DEF Look, serverVars
  <2>4. Streaming'
    BY <1>1, <2>1, <2>2, <2>3 DEF Streaming, InService, Now
  <2>5. lost' \in [Apps -> Versions]
    BY <1>2, <1>8, SizesAssumption DEF Look, Versions
  <2>6. QED
    BY <1>1, <1>2, <1>8, <2>4, <2>5, ClientKept DEF Look
<1>9. CASE Compare(c)
  <2>1. Streaming'
    BY <1>1, <1>3, <1>9, ServedKeeps, HandlerServes DEF Compare, Alone
  <2>2. {a \in Apps : Newer(c, a)} \in SUBSET Apps
    OBVIOUS
  <2>3. down' \in Seq(Frames)
    BY <1>2, <1>9, <2>2, FrameTypes, ReplyTypes DEF Compare
  <2>4. QED
    BY <1>1, <1>2, <1>9, <2>1, <2>3, ClientKept DEF Compare
<1>10. CASE SendFile(c)
  <2>1. Streaming'
    BY <1>1, <1>3, <1>10, ServedKeeps, HandlerServes DEF SendFile, Alone
  <2> DEFINE a == Now(c).app
             f == [kind |-> "TRANSFER", to |-> "DOWNLOAD", app |-> a,
                   version |-> seen[c][a].version, hash |-> seen[c][a].hash, data |-> file[a]]
  <2>2. seen[c] # None /\ Server!Serving(c, {"DOWNLOAD"})
    BY <1>10 DEF SendFile, Server!Download
  <2>3. a \in Apps
    BY <2>2, SeenTypes, AskTypes DEF Server!Serving
  <2>4. f \in Frames
    <3>1. /\ seen[c][a].version \in Versions /\ seen[c][a].hash \in Server!Contents
          /\ file[a] \in Server!Contents
      BY <1>1, <2>2, <2>3, SeenTypes, ServerTypes
    <3> HIDE DEF a
    <3>2. QED
      BY <2>3, <3>1, FrameTypes DEF Files
  <2>5. down' \in Seq(Frames)
    <3>1. Reply(c, f)
      BY <1>10 DEF SendFile
    <3> HIDE DEF f
    <3>2. QED
      BY <1>2, <2>4, <3>1, ReplyTypes
  <2>6. QED
    BY <1>1, <1>2, <1>10, <2>1, <2>5, ClientKept DEF SendFile
<1>11. CASE Pop(c)
  <2>1. Streaming'
    BY <1>1, <1>3, <1>11, WaitingKeeps, HandlerWaits DEF Pop, Alone
  <2>2. conn'[c].pc = "push" => conn'[c].task \in Server!Tasks
    <3>1. pushes[Client] \in Seq(Server!Tasks) /\ DOMAIN conn = Conns /\ conn[c] \in S!Handlers
      BY <1>1, ServerTypes
    <3>2. conn[c].pc = "idle" => conn[c].client = Client
      BY <1>1 DEF S!TypeInv, S!Control, S!Placed
    <3>3. pushes[Client] # <<>> => Head(pushes[Client]) \in Server!Tasks
      BY <3>1
    <3>4. QED
      BY <1>11, <3>1, <3>2, <3>3 DEF Pop, Server!PopPush, Server!Goto, S!Handlers
  <2>3. lost' \in [Apps -> Versions]
    BY <1>1, <1>2, <1>11, <2>2, ServerTypes DEF Pop
  <2>4. QED
    BY <1>1, <1>2, <1>11, <2>1, <2>3, ClientKept DEF Pop
<1>12. CASE SendPush(c)
  <2>1. Streaming'
    BY <1>1, <1>3, <1>12, WaitingKeeps, HandlerWaits DEF SendPush, Alone
  <2> DEFINE t == conn[c].task
             f == [kind |-> "PUSH", to |-> "PUSH_UPDATE", app |-> t.app, version |-> t.version,
                   hash |-> t.hash, data |-> t.hash]
  <2>2. t.app \in Apps /\ t.version \in Versions /\ t.hash \in Server!Contents
    BY <1>1, <1>12, ServerTypes DEF SendPush, Server!SendPush
  <2>3. f \in Frames
    <3> HIDE DEF t
    <3> QED
      BY <2>2, FrameTypes DEF Files
  <2>4. down' \in Seq(Frames)
    <3>1. Reply(c, f)
      BY <1>12 DEF SendPush
    <3> HIDE DEF f
    <3>2. QED
      BY <1>2, <2>3, <3>1, ReplyTypes
  <2>5. QED
    BY <1>1, <1>2, <1>12, <2>1, <2>4, ClientKept DEF SendPush
<1>13. QED
  BY <1>4, <1>5, <1>6, <1>7, <1>8, <1>9, <1>10, <1>11, <1>12 DEF Serve

\* What a file frame carries.
LEMMA FileTypes ==
  ASSUME NEW f \in Frames, f.kind \in Files
  PROVE  /\ f.app \in Apps /\ f.version \in Versions
         /\ f.hash \in Server!Contents /\ f.data \in Server!Contents
BY DEF Frames, Files

\* A request of the client goes into the stream of its connection.
LEMMA AskTyped ==
  ASSUME TypeInv, NEW f \in Asks, main.pc # "off", up' = [up EXCEPT ![main.conn] = Append(@, f)],
         UNCHANGED <<conn, seen>>
  PROVE  Streaming'
<1>1. main.conn \in Conns
  BY DEF TypeInv, TypeOK
<1>2. QED
  BY <1>1, TypeParts, AskedKeeps

\* The steps of the client.
LEMMA ClientTypes ==
  ASSUME TypeInv, Proceed \/ Command \/ Listen \/ Quit
  PROVE  Streaming' /\ Typed'
<1>1. S!TypeInv /\ Streaming /\ Typed
  BY TypeParts
<1>2. /\ [kind |-> "HELLO", client |-> Client] \in Asks
      /\ \A a \in Apps : [kind |-> "DOWNLOAD", app |-> a] \in Asks
      /\ \A v \in [Apps -> Versions] : [kind |-> "CHECK_UPDATES", versions |-> v] \in Asks
      /\ [kind |-> "ACK"] \in Asks /\ [kind |-> "DISCONNECT"] \in Asks
  BY DEF Asks
<1>3. [a \in Apps |-> inst[a].version] \in [Apps -> Versions]
  BY <1>1 DEF Typed
<1>4. ASSUME NEW f \in Asks, Ask(f) PROVE Streaming' /\ UNCHANGED <<down, inst, lost>>
  BY <1>4, AskTyped DEF Ask, serverVars
<1>5. CASE SayHello
  <2>1. Streaming' /\ UNCHANGED <<down, inst, lost>>
    BY <1>2, <1>4, <1>5 DEF SayHello
  <2>2. QED
    BY <1>1, <1>5, <2>1 DEF SayHello, Typed
<1>6. ASSUME Check PROVE Streaming' /\ Typed'
  <2>1. Streaming' /\ UNCHANGED <<down, inst, lost>>
    BY <1>2, <1>3, <1>4, <1>6 DEF Check
  <2>2. QED
    BY <1>1, <1>6, <2>1 DEF Check, Typed
<1>7. ASSUME NEW a \in Apps, Fetch(a) PROVE Streaming' /\ Typed'
  <2>1. Streaming' /\ UNCHANGED <<down, inst, lost>>
    BY <1>2, <1>4, <1>7 DEF Fetch
  <2>2. QED
    BY <1>1, <1>7, <2>1 DEF Fetch, Typed
<1>8. CASE Command
  <2>1. ASSUME NEW a \in Apps, Ask([kind |-> "DOWNLOAD", app |-> a]),
               main' = [main EXCEPT !.waits = "DOWNLOAD"]
        PROVE  Streaming' /\ Typed'
    <3>1. Streaming' /\ UNCHANGED <<down, inst, lost>>
      BY <1>2, <1>4, <2>1
    <3>2. QED
      BY <1>1, <2>1, <3>1 DEF Typed
  <2>2. QED
    BY <1>6, <1>8, <2>1 DEF Command
<1>9. CASE Listen
  <2> DEFINE f == Head(down)
  <2>1. main.pc # "off" /\ down # <<>> /\ UNCHANGED <<seen, serverVars>> /\ down' = Tail(down)
    BY <1>9 DEF Listen
  <2>2. f \in Frames /\ down' \in Seq(Frames)
    BY <1>1, <2>1, Streams DEF Typed
  <2>3. f.kind = "UPDATES" => f.updates \in SUBSET Apps
    BY <2>2 DEF Frames
  <2>4. Streaming'
    <3>1. \/ up' = up
          \/ up' = [up EXCEPT ![main.conn] = Append(@, [kind |-> "ACK"])]
      BY <1>9 DEF Listen
    <3>2. CASE up' = up
      BY <1>1, <2>1, <3>2 DEF Streaming, InService, serverVars, Now
    <3>3. CASE up' = [up EXCEPT ![main.conn] = Append(@, [kind |-> "ACK"])]
      BY <1>2, <2>1, <3>3, AskTyped DEF serverVars
    <3>4. QED
      BY <3>1, <3>2, <3>3
  <2>5. inst' \in [Apps -> [version : Versions, content : 0..MaxContent]]
    <3>1. f.kind \in Files => f.app \in Apps /\ f.version \in Versions /\ f.data \in 0..MaxContent
      BY <2>2, FileTypes, SizesAssumption DEF Server!Contents
    <3>2. CASE f.kind \in Files /\ Intact(f)
      <4>1. inst' = [inst EXCEPT ![f.app] = [version |-> f.version, content |-> f.data]]
        BY <1>9, <3>2 DEF Listen, Files
      <4>2. [version |-> f.version, content |-> f.data] \in [version : Versions, content : 0..MaxContent]
        BY <3>1, <3>2
      <4> HIDE DEF f
      <4>3. QED
        BY <1>1, <4>1, <4>2 DEF Typed
    <3>3. CASE ~(f.kind \in Files /\ Intact(f))
      BY <1>1, <1>9, <3>3 DEF Listen, Typed, Files
    <3>4. QED
      BY <3>2, <3>3
  <2>6. lost' \in [Apps -> Versions]
    <3>1. f.kind \in Files => f.app \in Apps /\ apps[f.app].version \in Versions
      BY <1>1, <2>2, FileTypes, ServerTypes
    <3>2. \/ UNCHANGED lost
          \/ f.kind \in Files /\ lost' = [lost EXCEPT ![f.app] = apps[f.app].version]
      BY <1>9 DEF Listen, Files
    <3> HIDE DEF f
    <3>3. QED
      BY <1>1, <3>1, <3>2 DEF Typed
  <2>7. /\ main' \in [pc : {"off", "hello", "check", "ready"}, conn : Conns \cup {None},
                      waits : {"HELLO", "DOWNLOAD", "CHECK_UPDATES", None}, todo : SUBSET Apps]
        /\ main'.pc # "off" => main'.conn # None
    <3>1. Resume(f)
      BY <1>9 DEF Listen
    <3> HIDE DEF f
    <3>2. QED
      BY <1>1, <2>1, <2>3, <3>1 DEF Typed, Resume
  <2>8. QED
    BY <2>2, <2>4, <2>5, <2>6, <2>7 DEF Typed
<1>10. CASE Quit
  <2>1. Streaming'
    <3>1. \/ up' = up
          \/ up' = [up EXCEPT ![main.conn] = Append(@, [kind |-> "DISCONNECT"])]
      BY <1>10 DEF Quit
    <3>2. CASE up' = up
      BY <1>1, <1>10, <3>2 DEF Quit, Streaming, InService, serverVars, Now
    <3>3. CASE up' = [up EXCEPT ![main.conn] = Append(@, [kind |-> "DISCONNECT"])]
      BY <1>2, <1>10, <3>3, AskTyped DEF Quit, serverVars
    <3>4. QED
      BY <3>1, <3>2, <3>3
  <2>2. Off \in [pc : {"off", "hello", "check", "ready"}, conn : Conns \cup {None},
                 waits : {"HELLO", "DOWNLOAD", "CHECK_UPDATES", None}, todo : SUBSET Apps]
    BY DEF Off
  <2>3. QED
    BY <1>1, <1>10, <2>1, <2>2, Streams DEF Quit, Typed, Off
<1>11. QED
  BY <1>5, <1>6, <1>7, <1>8, <1>9, <1>10 DEF Proceed

\* Every step keeps the types.
LEMMA TypeKept ==
  ASSUME TypeInv, [Next]_vars
  PROVE  TypeInv'
<1>1. S!TypeInv /\ Streaming /\ Typed
  BY TypeParts
<1>2. S!TypeInv'
  BY <1>1, ServerStep, SameNext, ServerAssumptions, S!TypeKept
<1>3. down \in Seq(Frames) /\ lost \in [Apps -> Versions] /\ apps' \in [Apps -> Server!Records]
  <2>1. apps' \in [Apps -> S!Records]
    BY <1>2 DEF S!TypeInv, S!TypeOK
  <2>2. QED
    BY <1>1, <2>1, SameSets DEF Typed
<1> SUFFICES Streaming' /\ Typed'
  BY <1>2, TypeParts, PTL
<1>4. ASSUME NEW c \in Conns, Take(c) PROVE Streaming' /\ Typed'
  <2>1. UNCHANGED <<seen, up, down, client, lost>>
    BY <1>4 DEF Take
  <2>2. conn[c].pc \in {"select", "recv"}
        /\ conn' = [conn EXCEPT ![c].pc = "serve", ![c].request = Request(Now(c))]
    BY <1>4 DEF Take, Server!Receive
  <2>3. DOMAIN conn = Conns /\ conn[c] \in S!Handlers
    BY <1>1, ServerTypes
  <2>4. /\ conn'[c].request = Request(Now(c)) /\ \A d \in Conns : d # c => conn'[d] = conn[d]
    BY <2>2, <2>3 DEF S!Handlers
  <2>5. seen[c] = None
    BY <1>1, <2>2 DEF Streaming, InService
  <2>6. Streaming'
    BY <1>1, <1>4, <2>1, <2>4, <2>5 DEF Take, Streaming, InService, Now
  <2>7. QED
    BY <1>1, <1>3, <2>1, <2>6, ClientKept
<1>5. ASSUME NEW c \in Conns, Idle(c) PROVE Streaming' /\ Typed'
  <2>1. UNCHANGED <<seen, up, down, client, lost>> /\ Server!Idle(c)
    BY <1>5 DEF Idle
  <2>2. \A d \in Conns : d # c => conn'[d] = conn[d]
    BY <1>1, <2>1, HandlerAlone DEF Server!Handler, Server!Selects, Server!Reads
  <2>3. QED
    BY <1>1, <1>3, <2>1, <2>2, HandlerWaits, WaitingKeeps, ClientKept
<1>6. ASSUME NEW c \in Conns, End(c) PROVE Streaming' /\ Typed'
  <2>1. UNCHANGED <<down, client, lost>>
        /\ (Server!Hangup(c) \/ Server!AckTimeout(c) \/ Server!Cleanup(c))
    BY <1>6 DEF End
  <2>2. \A d \in Conns : d # c => conn'[d] = conn[d]
    BY <1>1, <2>1, HandlerAlone DEF Server!Handler, Server!Selects, Server!Reads, Server!Sends,
        Server!Moves
  <2>3. Streaming'
    BY <1>1, <1>6, <2>1, <2>2, HandlerWaits, EndedKeeps DEF End
  <2>4. QED
    BY <1>1, <1>3, <2>1, <2>3, ClientKept
<1>7. ASSUME NEW c \in Conns, Connect(c) PROVE Streaming' /\ Typed'
  <2>1. UNCHANGED <<seen, up, down, inst, lost>> /\ Server!Accept(c)
        /\ main' = [Off EXCEPT !.pc = "hello", !.conn = c]
    BY <1>7 DEF Connect
  <2>2. \A d \in Conns : d # c => conn'[d] = conn[d]
    BY <1>1, <2>1, HandlerAlone DEF Server!Handler
  <2>3. Streaming'
    BY <1>1, <2>1, <2>2, HandlerWaits, WaitingKeeps
  <2>4. c # None
    BY NamesAssumption
  <2>5. QED
    BY <1>1, <2>1, <2>3, <2>4 DEF Typed, Off
<1>8. CASE Operate \/ Publish
  <2>1. UNCHANGED <<seen, up, down, client, conn>>
    BY <1>8 DEF Operate, Publish, Server!Operator, Server!Overwrite, Server!ReadFile,
                Server!CommitPublish, Server!live, Server!disk
  <2>2. lost' \in [Apps -> Versions]
    <3>1. Operate => UNCHANGED lost
      BY DEF Operate
    <3>2. ASSUME Publish PROVE pub.app \in Apps
      BY <1>1, <3>2 DEF Publish, Server!CommitPublish, S!TypeInv, S!TypeOK
    <3>3. ASSUME NEW a \in Apps PROVE apps'[a].version \in Versions
      BY <1>3, SizesAssumption DEF Server!Records, Server!Versions, Versions
    <3>4. QED
      BY <1>3, <1>8, <3>1, <3>2, <3>3 DEF Publish
  <2>3. Streaming'
    BY <1>1, <2>1 DEF Streaming, InService, Now
  <2>4. QED
    BY <1>1, <1>3, <2>1, <2>2, <2>3, ClientKept
<1>9. CASE Restart
  <2>1. UNCHANGED <<down, client, lost>> /\ seen' = [c \in Conns |-> None]
        /\ up' = [c \in Conns |-> <<>>] /\ conn' = [c \in Conns |-> Server!NoHandler]
    BY <1>9 DEF Restart, Server!Restart
  <2>2. Streaming'
    BY <1>1, <2>1, Streams DEF Streaming, InService, Server!NoHandler
  <2>3. QED
    BY <1>1, <1>3, <2>1, <2>2, ClientKept
<1>10. CASE UNCHANGED vars
  BY <1>1, <1>3, <1>10, ClientKept DEF vars, serverVars, Streaming, InService, Now, client
<1>11. QED
  BY <1>4, <1>5, <1>6, <1>7, <1>8, <1>9, <1>10, ServeTypes, ClientTypes DEF Next

\* The invariant holds in the initial state ...
LEMMA TypeHoldsInitially == Init => TypeInv
<1> SUFFICES ASSUME Init PROVE TypeInv
  OBVIOUS
<1>1. S!TypeInv
  BY SameInit, ServerAssumptions, S!TypeHoldsInitially DEF Init
<1>2. conn = [c \in Conns |-> Server!NoHandler] /\ seen = [c \in Conns |-> None]
      /\ up = [c \in Conns |-> <<>>]
  BY DEF Init, Server!Init
<1>3. Streaming
  BY <1>2, Streams DEF Streaming, InService, Server!NoHandler
<1>4. Typed
  BY Streams, SizesAssumption DEF Init, Typed, Off, Nothing, Versions
<1>5. QED
  BY <1>1, <1>3, <1>4, TypeParts

\* ... and always.
LEMMA TypeInvariant == Spec => []TypeInv
BY TypeHoldsInitially, TypeKept, PTL DEF Spec

\* The streams, the frames and what the client has keep their types (TypeOK of
\* UpdateSystem): what a frame carries is always something its receiver can
\* take, and the records a handler has copied are records of the server.
THEOREM TypeCorrect == Spec => []TypeOK
<1>1. TypeInv => TypeOK
  BY DEF TypeInv
<1>2. QED
  BY <1>1, TypeInvariant, PTL

\* Every step of the system is a step of the server or leaves it alone, as the
\* module is written: what AppServerProofs proves can be used of the system.
LEMMA ServerRuns == Spec => S!Spec
<1>1. Init => S!Init
  BY SameInit DEF Init
<1>2. TypeInv /\ [Next]_vars => [S!Next]_(S!vars)
  BY ServerStep, SameNext
<1>3. QED
  BY <1>1, <1>2, TypeInvariant, PTL DEF Spec, S!Spec

-----------------------------------------------------------------------------
(* Where what travels comes from.                                           *)

Record(v, h) == [version |-> v, hash |-> h]
Task(a, v, h) == [app |-> a, version |-> v, hash |-> h]

\* Every task that is queued after a step was queued before or carries the
\* newest version.
LEMMA QueueSources ==
  ASSUME TypeInv, [Next]_vars, NEW i \in DOMAIN pushes'[Client]
  PROVE  LET t == pushes'[Client][i]
         IN \/ \E j \in DOMAIN pushes[Client] : t = pushes[Client][j]
            \/ t.app \in Apps /\ t = Task(t.app, apps'[t.app].version, apps'[t.app].hash)
<1> DEFINE q == pushes[Client]
           Old(x) == \E j \in DOMAIN q : x = q[j]
           Current(x) == x.app \in Apps /\ x = Task(x.app, apps'[x.app].version, apps'[x.app].hash)
<1>1. q \in Seq(Server!Tasks) /\ DOMAIN pushes = {Client} /\ apps \in [Apps -> Server!Records]
  BY ServerTypes DEF TypeInv, S!TypeInv, S!TypeOK
<1>2. CASE pushes'[Client] = q
  BY <1>2
<1>3. CASE pushes'[Client] = <<>>
  BY <1>3
<1>4. CASE q # <<>> /\ pushes'[Client] = Tail(q)
  <2>1. DOMAIN Tail(q) = 1..(Len(q) - 1) /\ DOMAIN q = 1..Len(q) /\ Len(q) \in Nat
        /\ \A j \in 1..(Len(q) - 1) : Tail(q)[j] = q[j + 1]
    BY <1>1, <1>4
  <2>2. i \in 1..(Len(q) - 1)
    BY <1>4, <2>1
  <2>3. i + 1 \in DOMAIN q /\ Tail(q)[i] = q[i + 1]
    BY <2>1, <2>2
  <2>4. QED
    BY <1>4, <2>3
<1>5. ASSUME Server!CommitPublish PROVE Old(pushes'[Client][i]) \/ Current(pushes'[Client][i])
  <2> DEFINE a == pub.app
             t == [app |-> a, version |-> apps[a].version + 1, hash |-> pub.hash]
  <2>1. a \in Apps
    BY <1>5 DEF Server!CommitPublish, TypeInv, S!TypeInv, S!TypeOK
  <2>2. apps' = [apps EXCEPT ![a] = [version |-> t.version, hash |-> t.hash]]
        /\ pushes'[Client] \in {q, Server!Queued(q, t)}
    BY <1>1, <1>5 DEF Server!CommitPublish
  <2>3. Current(t)
    BY <1>1, <2>1, <2>2 DEF Task
  <2> HIDE DEF t, Current, Old
  <2>4. CASE pushes'[Client] = Server!Queued(q, t)
    <3>1. CASE \E j \in DOMAIN q : q[j].app = t.app
      BY <2>3, <2>4, <3>1 DEF Server!Queued, Old
    <3>2. CASE ~\E j \in DOMAIN q : q[j].app = t.app
      <4>1. pushes'[Client] = Append(q, t)
        BY <2>4, <3>2 DEF Server!Queued
      <4>2. DOMAIN q = 1..Len(q) /\ DOMAIN Append(q, t) = 1..(Len(q) + 1) /\ Len(q) \in Nat
            /\ Append(q, t)[Len(q) + 1] = t /\ \A j \in 1..Len(q) : Append(q, t)[j] = q[j]
        BY <1>1
      <4>3. i \in 1..Len(q) \/ i = Len(q) + 1
        BY <4>1, <4>2
      <4>4. QED
        BY <2>3, <4>1, <4>2, <4>3 DEF Old
    <3>3. QED
      BY <3>1, <3>2
  <2>5. QED
    BY <1>2, <2>2, <2>4 DEF Old
<1>6. Server!CommitPublish \/ pushes'[Client] \in {q, <<>>}
        \/ (q # <<>> /\ pushes'[Client] = Tail(q))
  <2>1. ASSUME NEW c \in Conns, Server!PopPush(c) PROVE pushes'[Client] = q \/ (q # <<>> /\ pushes'[Client] = Tail(q))
    <3>1. conn[c].client = Client
      <4>1. conn[c].pc = "idle"
        BY <2>1 DEF Server!PopPush
      <4>2. QED
        BY <4>1 DEF TypeInv, S!TypeInv, S!Control, S!Placed
    <3>2. QED
      BY <1>1, <2>1, <3>1 DEF Server!PopPush
  <2>2. ASSUME NEW c \in Conns, Server!Cleanup(c) PROVE pushes'[Client] \in {q, <<>>}
    BY <1>1, <2>2 DEF Server!Cleanup
  <2>3. ASSUME NEW c \in Conns, Server!Handler(c), ~Server!PopPush(c), ~Server!Cleanup(c)
        PROVE  pushes'[Client] = q
    BY <2>3
    DEF Server!Handler, Server!Sends, Server!Moves, Server!ReceiveMore, Server!Answer,
        Server!Violation, Server!AcceptAck,
        Server!Hello, Server!CloseOld, Server!Welcome, Server!Download, Server!CheckUpdates,
        Server!Disconnect, Server!SendPush, Server!Accept, Server!Selects, Server!Reads,
        Server!Part, Server!Idle,
        Server!Hangup, Server!Receive, Server!AckTimeout, Server!live
  <2>4. Server!Restart => pushes'[Client] = <<>>
    BY DEF Server!Restart
  <2>5. Server!Operator \/ Server!DamageManifest \/ UNCHANGED Server!vars => pushes'[Client] = q
    BY DEF Server!Operator, Server!Overwrite, Server!ReadFile, Server!DamageManifest,
           Server!vars, Server!live
  <2>6. QED
    BY <2>1, <2>2, <2>3, <2>4, <2>5, ServerStep DEF Server!Next
<1>7. QED
  BY <1>2, <1>3, <1>4, <1>5, <1>6

\* A handler that has a task to send had it before, or has just taken the
\* oldest one of the queue, with nothing else happening on the way.
LEMMA TaskSources ==
  ASSUME TypeInv, [Next]_vars, NEW c \in Conns, conn'[c].pc = "push"
  PROVE  \/ conn'[c] = conn[c]
         \/ /\ pushes[Client] # <<>> /\ conn'[c].task = Head(pushes[Client])
            /\ UNCHANGED <<apps, named, faults, down, inst, main>>
<1>1. ASSUME NEW d \in Conns, Take(d) \/ Idle(d) \/ End(d) \/ Connect(d) PROVE conn'[c] = conn[c]
  <2>1. CASE c # d
    <3>1. Server!Handler(d)
      <4>1. CASE Take(d)
        <5>1. up[d] \in Seq(Asks) /\ up[d] # <<>>
          BY <4>1 DEF Take, TypeInv, TypeOK
        <5>2. Request(Now(d)) \in Server!Requests
          BY <5>1, Streams, AskTypes DEF Now
        <5>3. QED
          BY <4>1, <5>2 DEF Take, Server!Handler, Server!Selects, Server!Reads
      <4>2. QED
        BY <1>1, <4>1 DEF Idle, End, Connect, Server!Handler, Server!Selects, Server!Reads,
            Server!Sends, Server!Moves
    <3>2. QED
      BY <2>1, <3>1, HandlerAlone DEF TypeInv
  <2>2. CASE c = d
    <3>1. DOMAIN conn = Conns /\ conn[c] \in S!Handlers
      BY ServerTypes DEF TypeInv
    <3>2. conn'[c].pc # "push"
      BY <1>1, <2>2, <3>1
      DEF Take, Idle, End, Connect, Server!Receive, Server!Idle, Server!Hangup,
          Server!AckTimeout, Server!Cleanup, Server!Accept, Server!Goto, Server!NoHandler,
          S!Handlers
    <3>3. QED
      BY <3>2
  <2>3. QED
    BY <2>1, <2>2
<1>2. ASSUME NEW d \in Conns, Serve(d), ~Pop(d) PROVE conn'[c] = conn[c]
  <2>1. CASE c # d
    BY <1>2, <2>1, HandlerAlone
    DEF TypeInv, Serve, Refuse, Violation, TakeAck, TakeHello, CloseOld, Welcome, Look, Compare,
        SendFile, TakeDisconnect, SendPush, Server!Handler, Server!Sends, Server!Moves, serverVars
  <2>2. CASE c = d
    <3>1. DOMAIN conn = Conns /\ conn[c] \in S!Handlers
      BY ServerTypes DEF TypeInv
    <3>2. conn'[c].pc # "push" \/ conn'[c] = conn[c]
      <4>1. CASE \/ Refuse(d) \/ Violation(d) \/ TakeAck(d) \/ TakeHello(d) \/ TakeDisconnect(d)
                 \/ Compare(d) \/ SendFile(d)
        BY <2>2, <4>1, HandlerServes
        DEF TypeInv, Refuse, Violation, TakeAck, TakeHello, TakeDisconnect, Compare, SendFile
      <4>2. CASE CloseOld(d) \/ Welcome(d) \/ Look(d)
        BY <2>2, <3>1, <4>2
        DEF CloseOld, Welcome, Look, Server!CloseOld, Server!Welcome, Server!Sent, Server!Goto,
            S!Handlers, serverVars
      <4>3. CASE SendPush(d)
        <5>1. "pc" \in DOMAIN conn[c]
          BY <3>1 DEF S!Handlers
        <5> DEFINE h == [conn[c] EXCEPT !.pc = "select", !.task = None,
                           !.transfer = [kind |-> "PUSH_UPDATE", app |-> conn[c].task.app]]
        <5>2. h.pc = "select" /\ Server!Sent(c, h)
          BY <2>2, <4>3, <5>1 DEF SendPush, Server!SendPush
        <5> HIDE DEF h
        <5>3. conn'[c] = h \/ conn'[c].pc = "cleanup"
          BY <5>2, SentGoes DEF TypeInv
        <5>4. QED
          BY <5>2, <5>3
      <4>4. QED
        BY <1>2, <4>1, <4>2, <4>3 DEF Serve
    <3>3. QED
      BY <3>2
  <2>3. QED
    BY <2>1, <2>2
<1>3. ASSUME NEW d \in Conns, Pop(d)
      PROVE  \/ conn'[c] = conn[c]
             \/ /\ pushes[Client] # <<>> /\ conn'[c].task = Head(pushes[Client])
                /\ UNCHANGED <<apps, named, faults, down, inst, main>>
  <2>1. UNCHANGED <<apps, named, faults, down, inst, main>>
    BY <1>3 DEF Pop, Server!PopPush, Server!bounds, client
  <2>2. CASE c # d
    BY <1>3, <2>2, HandlerAlone DEF TypeInv, Pop, Server!Handler, Server!Sends, Server!Moves
  <2>3. CASE c = d
    <3>1. DOMAIN conn = Conns /\ conn[c] \in S!Handlers
      BY ServerTypes DEF TypeInv
    <3>2. conn[c].client = Client
      <4>1. conn[c].pc = "idle"
        BY <1>3, <2>3 DEF Pop, Server!PopPush
      <4>2. QED
        BY <4>1 DEF TypeInv, S!TypeInv, S!Control, S!Placed
    <3>3. QED
      BY <1>3, <2>1, <2>3, <3>1, <3>2 DEF Pop, Server!PopPush, Server!Goto, S!Handlers
  <2>4. QED
    BY <2>2, <2>3
<1>4. Operate \/ Publish \/ Proceed \/ Command \/ Listen \/ Quit \/ UNCHANGED vars => conn' = conn
  BY DEF Operate, Publish, Server!Operator, Server!Overwrite, Server!ReadFile,
         Server!CommitPublish, Proceed, SayHello, Check, Fetch, Ask, Command, Listen, Quit,
         serverVars, vars
<1>5. Restart => conn'[c].pc # "push"
  BY DEF Restart, Server!Restart, Server!NoHandler
<1>6. QED
  BY <1>1, <1>2, <1>3, <1>4, <1>5 DEF Next

\* A copy of apps that a handler has after a step it had before, or it has just
\* made it, with nothing else happening on the way.
LEMMA CopySources ==
  ASSUME TypeInv, [Next]_vars, NEW c \in Conns, seen'[c] # None
  PROVE  \/ seen'[c] = seen[c]
         \/ seen'[c] = apps /\ UNCHANGED <<apps, named, faults, down, inst, main>>
<1>1. seen \in [Conns -> [Apps -> Server!Records] \cup {None}]
  BY DEF TypeInv, TypeOK
<1>2. ASSUME NEW d \in Conns, Serve(d)
      PROVE  \/ seen'[c] = seen[c]
             \/ seen'[c] = apps /\ UNCHANGED <<apps, named, faults, down, inst, main>>
  <2>1. CASE Look(d)
    BY <1>1, <2>1 DEF Look, serverVars, client
  <2>2. CASE ~Look(d)
    BY <1>1, <1>2, <2>2
    DEF Serve, Refuse, Violation, TakeAck, TakeHello, CloseOld, Welcome, Compare, SendFile,
        TakeDisconnect, Pop, SendPush, Served
  <2>3. QED
    BY <2>1, <2>2
<1>3. ASSUME NEW d \in Conns, Take(d) \/ Idle(d) \/ End(d) \/ Connect(d) PROVE seen'[c] = seen[c]
  BY <1>1, <1>3 DEF Take, Idle, End, Connect
<1>4. Operate \/ Publish \/ Restart \/ Proceed \/ Command \/ Listen \/ Quit \/ UNCHANGED vars
        => seen'[c] = seen[c]
  BY DEF Operate, Publish, Restart, Proceed, SayHello, Check, Fetch, Ask, Command, Listen, Quit, vars
<1>5. QED
  BY <1>2, <1>3, <1>4 DEF Next

\* What the handler of connection c sends as a file comes from its copy of apps
\* or from its task, which it then has no longer.
Sends(c, f) ==
  /\ main.conn = c /\ seen'[c] = None /\ conn'[c].pc # "push"
  /\ f.app \in Apps /\ f.version \in Versions
  /\ \/ seen[c] # None /\ seen[c][f.app] = Record(f.version, f.hash)
     \/ conn[c].pc = "push" /\ conn[c].task = Task(f.app, f.version, f.hash)

\* What is on the way to the client stays as it is, is dropped, loses its first
\* frame to the listener, or gets one more from a handler.
LEMMA FrameSources ==
  ASSUME TypeInv, [Next]_vars
  PROVE  \/ UNCHANGED <<down, inst>>
         \/ down' = <<>> /\ UNCHANGED inst
         \/ down # <<>> /\ Listen
         \/ /\ UNCHANGED inst
            /\ \E f \in Frames : /\ down' = Append(down, f)
                                 /\ f.kind \in Files => \E c \in Conns : Sends(c, f)
<1> DEFINE Goal == \/ UNCHANGED <<down, inst>>
                   \/ down' = <<>> /\ UNCHANGED inst
                   \/ down # <<>> /\ Listen
                   \/ /\ UNCHANGED inst
                      /\ \E f \in Frames : /\ down' = Append(down, f)
                                           /\ f.kind \in Files => \E c \in Conns : Sends(c, f)
<1> USE DEF client
<1>1. ASSUME NEW c \in Conns,
             \/ Take(c) \/ Idle(c) \/ End(c) \/ Connect(c) \/ Refuse(c) \/ TakeAck(c)
             \/ TakeHello(c) \/ CloseOld(c) \/ Look(c) \/ TakeDisconnect(c) \/ Pop(c)
      PROVE  UNCHANGED <<down, inst>>
  BY <1>1
  DEF Take, Idle, End, Connect, Refuse, TakeAck, TakeHello, CloseOld, Look, TakeDisconnect, Pop
<1>2. ASSUME NEW c \in Conns, Violation(c) PROVE Goal
  <2> DEFINE f == [kind |-> "ERROR", to |-> Now(c).kind]
  <2>1. CASE down' = Append(down, f)
    <3>1. conn[c].pc = "serve"
      BY <1>2, HandlerServes DEF Violation, TypeInv
    <3>2. up[c] \in Seq(Asks) /\ up[c] # <<>> /\ conn[c].request = Request(Now(c))
      BY <3>1 DEF TypeInv, TypeOK, InService
    <3>3. Now(c) \in Asks
      BY <3>2, Streams DEF Now
    <3>4. Now(c).kind # "ACK"
      BY <1>2, <3>2, <3>3, AskTypes DEF Violation, Server!Violation, Server!Serving
    <3>5. Now(c).kind \in {"HELLO", "DOWNLOAD", "CHECK_UPDATES", "DISCONNECT"}
      BY <3>3, <3>4 DEF Asks
    <3>6. f \in Frames /\ f.kind \notin Files
      BY <3>5, FrameTypes DEF Files
    <3> HIDE DEF f
    <3>7. QED
      BY <1>2, <2>1, <3>6 DEF Violation
  <2>2. QED
    BY <1>2, <2>1 DEF Violation
<1>3. ASSUME NEW c, NEW f \in Frames, Reply(c, f), f.kind \notin Files, UNCHANGED inst PROVE Goal
  BY <1>3 DEF Reply
<1>4. ASSUME NEW c \in Conns, Welcome(c) \/ Compare(c) PROVE Goal
  <2>1. {a \in Apps : Newer(c, a)} \in SUBSET Apps
    OBVIOUS
  <2>2. [kind |-> "OK", to |-> "HELLO"] \in Frames
        /\ [kind |-> "UPDATES", to |-> "CHECK_UPDATES", updates |-> {a \in Apps : Newer(c, a)}] \in Frames
    BY <2>1, FrameTypes
  <2>3. \E f \in Frames : Reply(c, f) /\ f.kind \notin Files /\ UNCHANGED inst
    BY <1>4, <2>2 DEF Welcome, Compare, Files
  <2>4. QED
    BY <1>3, <2>3
<1>5. ASSUME NEW c \in Conns, SendFile(c) PROVE Goal
  <2> DEFINE a == Now(c).app
             f == [kind |-> "TRANSFER", to |-> "DOWNLOAD", app |-> a,
                   version |-> seen[c][a].version, hash |-> seen[c][a].hash, data |-> file[a]]
  <2>1. seen[c] # None /\ Server!Serving(c, {"DOWNLOAD"}) /\ Reply(c, f) /\ UNCHANGED inst
        /\ Server!Download(c) /\ Served(c)
    BY <1>5 DEF SendFile, Server!Download
  <2>2. a \in Apps
    BY <2>1, SeenTypes, AskTypes DEF Server!Serving
  <2>3. /\ seen[c][a] \in Server!Records
        /\ seen[c][a].version \in Versions /\ seen[c][a].hash \in Server!Contents
        /\ file[a] \in Server!Contents
    BY <2>1, <2>2, SeenTypes, ServerTypes DEF TypeInv
  <2>4. seen[c][a] = Record(f.version, f.hash)
    BY <2>3 DEF Server!Records, Record
  <2>5. f \in Frames /\ f.app = a /\ f.version \in Versions
    <3> HIDE DEF a
    <3>1. QED
      BY <2>2, <2>3, FrameTypes DEF Files
  <2>6. seen'[c] = None /\ conn'[c].pc # "push"
    BY <2>1, HandlerServes DEF TypeInv, TypeOK, Served
  <2> HIDE DEF f, a
  <2>7. main.conn = c => Sends(c, f)
    BY <2>1, <2>2, <2>4, <2>5, <2>6 DEF Sends
  <2>8. QED
    BY <2>1, <2>5, <2>7 DEF Reply
<1>6. ASSUME NEW c \in Conns, SendPush(c) PROVE Goal
  <2> DEFINE t == conn[c].task
             f == [kind |-> "PUSH", to |-> "PUSH_UPDATE", app |-> t.app, version |-> t.version,
                   hash |-> t.hash, data |-> t.hash]
  <2>1. conn[c].pc = "push" /\ Reply(c, f) /\ UNCHANGED <<inst, seen>>
    BY <1>6 DEF SendPush, Server!SendPush
  <2>2. t \in Server!Tasks /\ t.app \in Apps /\ t.version \in Versions /\ t.hash \in Server!Contents
    BY <2>1, ServerTypes DEF TypeInv
  <2>3. t = Task(f.app, f.version, f.hash)
    BY <2>2 DEF Server!Tasks, Task
  <2>4. f \in Frames /\ f.app = t.app /\ f.version = t.version
    <3> HIDE DEF t
    <3>1. QED
      BY <2>2, FrameTypes DEF Files
  <2>5. seen'[c] = None
    BY <2>1 DEF TypeInv, InService
  <2>6. conn'[c].pc # "push"
    <3>1. "pc" \in DOMAIN conn[c]
      BY ServerTypes DEF TypeInv, S!Handlers
    <3> DEFINE h == [conn[c] EXCEPT !.pc = "select", !.task = None,
                       !.transfer = [kind |-> "PUSH_UPDATE", app |-> conn[c].task.app]]
    <3>2. h.pc = "select" /\ Server!Sent(c, h)
      BY <1>6, <3>1 DEF SendPush, Server!SendPush
    <3> HIDE DEF h
    <3>3. conn'[c] = h \/ conn'[c].pc = "cleanup"
      BY <3>2, SentGoes DEF TypeInv
    <3>4. QED
      BY <3>2, <3>3
  <2> HIDE DEF f
  <2>7. main.conn = c => Sends(c, f)
    BY <2>1, <2>2, <2>3, <2>4, <2>5, <2>6 DEF Sends
  <2>8. QED
    BY <2>1, <2>4, <2>7 DEF Reply
<1>7. Operate \/ Publish \/ Restart \/ Proceed \/ Command \/ UNCHANGED vars => UNCHANGED <<down, inst>>
  BY DEF Operate, Publish, Restart, Proceed, SayHello, Check, Fetch, Ask, Command, vars
<1>8. Quit => Goal
  BY DEF Quit
<1>9. Listen => Goal
  BY DEF Listen
<1>10. QED
  BY <1>1, <1>2, <1>4, <1>5, <1>6, <1>7, <1>8, <1>9 DEF Next, Serve

\* What the listener installs is the file at the head of what comes.
LEMMA Installs ==
  ASSUME TypeInv, Listen, NEW a \in Apps
  PROVE  /\ Head(down) \in Frames
         /\ \/ inst'[a] = inst[a]
            \/ LET f == Head(down)
               IN /\ f.kind \in Files /\ f.app = a
                  /\ inst'[a].version = f.version /\ inst'[a].content = f.hash
<1>1. Head(down) \in Frames
  BY Streams DEF Listen, TypeInv, TypeOK
<1>2. DOMAIN inst = Apps
  BY DEF TypeInv, TypeOK
<1>3. QED
  BY <1>1, <1>2 DEF Listen, Intact, Files

-----------------------------------------------------------------------------
(* Versions and contents.                                                   *)

\* What says, anywhere in the system, that h is the content of version v of
\* application a: a record, a task, a copy, a file on its way, an installation.
FileOf(a, v, h) ==
  \E i \in DOMAIN down :
    down[i].kind \in Files /\ down[i].app = a /\ down[i].version = v /\ down[i].hash = h

Carried(a, v, h) ==
  \/ apps[a] = Record(v, h)
  \/ \E i \in DOMAIN pushes[Client] : pushes[Client][i] = Task(a, v, h)
  \/ \E c \in Conns : conn[c].pc = "push" /\ conn[c].task = Task(a, v, h)
  \/ \E c \in Conns : seen[c] # None /\ seen[c][a] = Record(v, h)
  \/ FileOf(a, v, h)
  \/ v # 0 /\ inst[a].version = v /\ inst[a].content = h

\* The head of a sequence and the elements of its tail are elements of it, and
\* those of an extended one are its own and the new one.
LEMMA Elements ==
  ASSUME NEW T, NEW s \in Seq(T)
  PROVE  /\ s # <<>> => /\ 1 \in DOMAIN s /\ Head(s) = s[1]
                        /\ \A i \in DOMAIN Tail(s) : i \in Nat /\ i + 1 \in DOMAIN s /\ Tail(s)[i] = s[i + 1]
         /\ \A x \in T : /\ DOMAIN Append(s, x) = 1..(Len(s) + 1) /\ DOMAIN s = 1..Len(s)
                         /\ Append(s, x)[Len(s) + 1] = x /\ Len(s) \in Nat
                         /\ \A i \in DOMAIN Append(s, x) :
                              i = Len(s) + 1 \/ (i \in DOMAIN s /\ Append(s, x)[i] = s[i])
<1>1. ASSUME s # <<>>
      PROVE  /\ 1 \in DOMAIN s /\ Head(s) = s[1]
             /\ \A i \in DOMAIN Tail(s) : i \in Nat /\ i + 1 \in DOMAIN s /\ Tail(s)[i] = s[i + 1]
  <2>1. /\ DOMAIN s = 1..Len(s) /\ DOMAIN Tail(s) = 1..(Len(s) - 1) /\ Len(s) \in Nat /\ Len(s) # 0
        /\ \A i \in 1..(Len(s) - 1) : Tail(s)[i] = s[i + 1]
        /\ Head(s) = s[1]
    BY <1>1
  <2>2. QED
    BY <2>1
<1>2. ASSUME NEW x \in T
      PROVE  /\ DOMAIN Append(s, x) = 1..(Len(s) + 1) /\ DOMAIN s = 1..Len(s)
             /\ Append(s, x)[Len(s) + 1] = x /\ Len(s) \in Nat
             /\ \A i \in DOMAIN Append(s, x) :
                  i = Len(s) + 1 \/ (i \in DOMAIN s /\ Append(s, x)[i] = s[i])
  <2>1. /\ DOMAIN Append(s, x) = 1..(Len(s) + 1) /\ DOMAIN s = 1..Len(s) /\ Len(s) \in Nat
        /\ Append(s, x)[Len(s) + 1] = x /\ \A i \in 1..Len(s) : Append(s, x)[i] = s[i]
    OBVIOUS
  <2>2. \A i \in 1..(Len(s) + 1) : i = Len(s) + 1 \/ i \in 1..Len(s)
    BY <2>1
  <2>3. QED
    BY <2>1, <2>2
<1>3. QED
  BY <1>1, <1>2

\* The files on the way after a step were on the way before, or are sent by the
\* handler of the client's connection.
LEMMA FilesComeFrom ==
  ASSUME TypeInv, [Next]_vars, NEW i \in DOMAIN down', down'[i].kind \in Files
  PROVE  \/ \E j \in DOMAIN down : down'[i] = down[j]
         \/ \E c \in Conns : Sends(c, down'[i])
<1>1. down \in Seq(Frames)
  BY DEF TypeInv, TypeOK
<1>2. CASE down # <<>> /\ Listen
  <2>1. down' = Tail(down)
    BY <1>2 DEF Listen
  <2>2. i + 1 \in DOMAIN down /\ down'[i] = down[i + 1]
    BY <1>1, <1>2, <2>1, Elements
  <2>3. QED
    BY <2>2
<1>3. ASSUME NEW f \in Frames, down' = Append(down, f), f.kind \in Files => \E c \in Conns : Sends(c, f)
      PROVE  \/ \E j \in DOMAIN down : down'[i] = down[j]
             \/ \E c \in Conns : Sends(c, down'[i])
  <2>1. down'[i] = f \/ (i \in DOMAIN down /\ down'[i] = down[i])
    BY <1>1, <1>3, Elements
  <2>2. QED
    BY <1>3, <2>1
<1>4. QED
  BY <1>2, <1>3, FrameSources

\* No step invents a version: what is carried after it was carried before, or is
\* the application's record.
LEMMA NothingInvented ==
  ASSUME TypeInv, [Next]_vars, NEW a \in Apps, NEW v \in Versions, NEW h, Carried(a, v, h)'
  PROVE  Carried(a, v, h) \/ apps'[a] = Record(v, h)
<1> USE DEF Task, Record
<1>0. TypeInv'
  BY TypeKept
<1>1. CASE apps'[a] = Record(v, h)
  BY <1>1
<1>2. ASSUME NEW i \in DOMAIN pushes'[Client], pushes'[Client][i] = Task(a, v, h)
      PROVE  Carried(a, v, h) \/ apps'[a] = Record(v, h)
  <2>1. CASE \E j \in DOMAIN pushes[Client] : pushes'[Client][i] = pushes[Client][j]
    BY <1>2, <2>1 DEF Carried
  <2>2. CASE pushes'[Client][i] = Task(a, apps'[a].version, apps'[a].hash)
    <3>1. apps'[a].version = v /\ apps'[a].hash = h
      BY <1>2, <2>2
    <3>2. apps' \in [Apps -> Server!Records]
      <4>1. apps' \in [Apps -> S!Records]
        BY <1>0 DEF TypeInv, S!TypeInv, S!TypeOK
      <4>2. QED
        BY <4>1, SameSets
    <3>3. QED
      BY <3>1, <3>2 DEF Server!Records
  <2>3. QED
    BY <1>2, <2>1, <2>2, QueueSources
<1>3. ASSUME NEW c \in Conns, conn'[c].pc = "push", conn'[c].task = Task(a, v, h)
      PROVE  Carried(a, v, h)
  <2>1. CASE conn'[c] = conn[c]
    BY <1>3, <2>1 DEF Carried
  <2>2. CASE pushes[Client] # <<>> /\ conn'[c].task = Head(pushes[Client])
    <3>1. pushes[Client] \in Seq(Server!Tasks)
      BY ServerTypes DEF TypeInv
    <3>2. 1 \in DOMAIN pushes[Client] /\ Head(pushes[Client]) = pushes[Client][1]
      BY <2>2, <3>1, Elements
    <3>3. QED
      BY <1>3, <2>2, <3>2 DEF Carried
  <2>3. QED
    BY <1>3, <2>1, <2>2, TaskSources
<1>4. ASSUME NEW c \in Conns, seen'[c] # None, seen'[c][a] = Record(v, h)
      PROVE  Carried(a, v, h)
  BY <1>4, CopySources DEF Carried
<1>5. ASSUME NEW i \in DOMAIN down', down'[i].kind \in Files, down'[i].app = a,
             down'[i].version = v, down'[i].hash = h
      PROVE  Carried(a, v, h)
  <2>1. CASE \E j \in DOMAIN down : down'[i] = down[j]
    BY <1>5, <2>1 DEF Carried, FileOf
  <2>2. ASSUME NEW c \in Conns, Sends(c, down'[i]) PROVE Carried(a, v, h)
    BY <1>5, <2>2 DEF Carried, Sends
  <2>3. QED
    BY <1>5, <2>1, <2>2, FilesComeFrom
<1>6. ASSUME v # 0, inst'[a].version = v, inst'[a].content = h PROVE Carried(a, v, h)
  <2>1. CASE inst'[a] = inst[a]
    BY <1>6, <2>1 DEF Carried
  <2>2. CASE down # <<>> /\ Listen /\ inst'[a] # inst[a]
    <3>1. 1 \in DOMAIN down /\ Head(down) = down[1]
      BY <2>2, Elements DEF TypeInv, TypeOK
    <3>2. Head(down).kind \in Files /\ Head(down).app = a
          /\ Head(down).version = v /\ Head(down).hash = h
      BY <1>6, <2>2, Installs
    <3>3. QED
      BY <3>1, <3>2 DEF Carried, FileOf
  <2>3. QED
    BY <2>1, <2>2, FrameSources
<1>7. QED
  BY <1>1, <1>2, <1>3, <1>4, <1>5, <1>6 DEF Carried, FileOf

\* What a version has stood for is not forgotten, and what it stands for now is
\* among it.
LEMMA NamesGrow ==
  ASSUME TypeInv, [Next]_vars
  PROVE  \A a \in Apps :
           /\ \A v \in Server!Versions : named[a][v] \subseteq named'[a][v]
           /\ apps'[a] # apps[a] => apps'[a].hash \in named'[a][apps'[a].version]
<1>1. ASSUME NEW c \in Conns, Server!Handler(c) PROVE UNCHANGED <<apps, named>>
  BY <1>1, HandlerAlone DEF TypeInv
<1>2. ASSUME named' = Server!Renamed(apps')
      PROVE  \A a \in Apps :
               /\ \A v \in Server!Versions : named[a][v] \subseteq named'[a][v]
               /\ apps'[a].hash \in named'[a][apps'[a].version]
  <2>1. TypeInv'
    BY TypeKept
  <2>2. \A a \in Apps : apps'[a].version \in Server!Versions
    BY <2>1 DEF TypeInv, S!TypeInv, S!TypeOK, S!Records, S!Versions, Server!Versions
  <2>3. QED
    BY <1>2, <2>2 DEF Server!Renamed
<1>3. Server!CommitPublish \/ Server!Restart => named' = Server!Renamed(apps')
  BY DEF Server!CommitPublish, Server!Restart
<1>4. Server!Operator \/ Server!DamageManifest \/ UNCHANGED Server!vars => UNCHANGED <<apps, named>>
  BY DEF Server!Operator, Server!Overwrite, Server!ReadFile, Server!DamageManifest, Server!vars
<1>5. QED
  BY <1>1, <1>2, <1>3, <1>4, ServerStep DEF Server!Next

\* What is carried as the content of a version is a content it has stood for.
NamedInv ==
  \A a \in Apps, v \in Versions, h \in 0..MaxContent :
    Carried(a, v, h) => v \in Server!Versions /\ h \in named[a][v]

\* It is so in the initial state, where only the records carry anything ...
LEMMA NamedInitially == Init => NamedInv
<1> SUFFICES ASSUME Init, NEW a \in Apps, NEW v \in Versions, NEW h \in 0..MaxContent,
                    Carried(a, v, h)
             PROVE  v \in Server!Versions /\ h \in named[a][v]
  BY DEF NamedInv
<1>1. apps[a] = Record(v, h)
  BY DEF Init, Server!Init, Carried, FileOf, Server!NoHandler, Nothing
<1>2. apps[a] = [version |-> 1, hash |-> 1] /\ 1 \in Server!Versions
  BY SizesAssumption DEF Init, Server!Init, Server!Versions
<1>3. v = 1 /\ h = 1
  BY <1>1, <1>2 DEF Record
<1>4. QED
  BY <1>2, <1>3 DEF Init, Server!Init

\* ... and after every step.
LEMMA NamedKept ==
  ASSUME TypeInv, NamedInv, [Next]_vars
  PROVE  NamedInv'
<1> SUFFICES ASSUME NEW a \in Apps, NEW v \in Versions, NEW h \in 0..MaxContent, Carried(a, v, h)'
             PROVE  v \in Server!Versions /\ h \in named'[a][v]
  BY DEF NamedInv
<1>1. CASE Carried(a, v, h)
  BY <1>1, NamesGrow DEF NamedInv
<1>2. CASE apps'[a] = Record(v, h)
  <2>1. CASE apps'[a] = apps[a]
    <3>1. Carried(a, v, h)
      BY <1>2, <2>1 DEF Carried
    <3>2. QED
      BY <1>1, <3>1
  <2>2. CASE apps'[a] # apps[a]
    <3>1. h \in named'[a][v]
      BY <1>2, <2>2, NamesGrow DEF Record
    <3>2. TypeInv'
      BY TypeKept
    <3>3. v \in Server!Versions
      BY <1>2, <3>2 DEF TypeInv, S!TypeInv, S!TypeOK, S!Records, S!Versions, Server!Versions, Record
    <3>4. QED
      BY <3>1, <3>3
  <2>3. QED
    BY <2>1, <2>2
<1>3. QED
  BY <1>1, <1>2, NothingInvented

\* So it is always.
LEMMA NamedSafe == Spec => []NamedInv
BY NamedInitially, NamedKept, TypeInvariant, PTL DEF Spec

\* What the client has installed as a version is a content that version has
\* stood for on the server (ContentMatchesVersion), however downloads, files
\* that the operator overwrites, publications and restarts cross: a file whose
\* record and content were read apart is never installed unless they agree.
THEOREM ContentsMatchVersions == Spec => []ContentMatchesVersion
<1>1. TypeInv /\ NamedInv => ContentMatchesVersion
  <2> SUFFICES ASSUME TypeInv, NamedInv, NEW a \in Apps, inst[a].version # 0
               PROVE  inst[a].content \in named[a][inst[a].version]
    BY DEF ContentMatchesVersion
  <2>1. inst[a].version \in Versions /\ inst[a].content \in 0..MaxContent
    BY DEF TypeInv, TypeOK
  <2>2. Carried(a, inst[a].version, inst[a].content)
    BY DEF Carried
  <2>3. QED
    BY <2>1, <2>2 DEF NamedInv
<1>2. QED
  BY <1>1, TypeInvariant, NamedSafe, PTL

-----------------------------------------------------------------------------
(* Versions and their order, while no disk operation has failed.            *)

\* A disk operation that has failed stays failed.
LEMMA FaultsStay ==
  ASSUME TypeInv, [Next]_vars, faults' = 0
  PROVE  faults = 0
<1> USE DEF Server!bounds
<1>1. faults \in Nat
  BY SizesAssumption DEF TypeInv, S!TypeInv, S!TypeOK
<1>2. ASSUME NEW c \in Conns, Server!Handler(c) PROVE faults' \in {faults, faults + 1}
  BY <1>2
  DEF Server!Handler, Server!Sends, Server!Moves, Server!ReceiveMore, Server!Answer,
      Server!Violation, Server!AcceptAck,
      Server!Hello, Server!CloseOld, Server!Welcome, Server!Download, Server!CheckUpdates,
      Server!Disconnect, Server!PopPush, Server!SendPush, Server!Cleanup, Server!Accept,
      Server!Selects, Server!Reads, Server!Part, Server!Idle, Server!Hangup, Server!Receive,
      Server!AckTimeout
<1>3. Server!CommitPublish => faults' \in {faults, faults + 1}
  BY DEF Server!CommitPublish
<1>4. Server!Restart \/ Server!Operator \/ UNCHANGED Server!vars => faults' = faults
  BY DEF Server!Restart, Server!Operator, Server!Overwrite, Server!ReadFile, Server!vars
<1>5. Server!DamageManifest => faults' = faults + 1
  BY DEF Server!DamageManifest
<1>6. faults' \in {faults, faults + 1}
  BY <1>2, <1>3, <1>4, <1>5, ServerStep DEF Server!Next
<1>7. QED
  BY <1>1, <1>6

\* Nothing in the system is newer than the server's record.
BehindInv ==
  faults = 0 =>
    \A a \in Apps, v \in Versions, h \in 0..MaxContent : Carried(a, v, h) => v <= apps[a].version

\* It is so in the initial state ...
LEMMA BehindInitially == Init => BehindInv
<1> SUFFICES ASSUME Init, NEW a \in Apps, NEW v \in Versions, NEW h \in 0..MaxContent,
                    Carried(a, v, h)
             PROVE  v <= apps[a].version
  BY DEF BehindInv
<1>1. apps[a] = Record(v, h)
  BY DEF Init, Server!Init, Carried, FileOf, Server!NoHandler, Nothing
<1>2. apps[a] = [version |-> 1, hash |-> 1]
  BY DEF Init, Server!Init
<1>3. QED
  BY <1>1, <1>2 DEF Record

\* ... and after every step, because records never go back.
LEMMA BehindKept ==
  ASSUME TypeInv, S!HistoryInv, BehindInv, [Next]_vars
  PROVE  BehindInv'
<1> SUFFICES ASSUME faults' = 0, NEW a \in Apps, NEW v \in Versions, NEW h \in 0..MaxContent,
                    Carried(a, v, h)'
             PROVE  v <= apps'[a].version
  BY DEF BehindInv
<1>1. TypeInv'
  BY TypeKept
<1>2. apps[a].version \in Nat /\ apps'[a].version \in Nat /\ v \in Nat
  BY <1>1, SizesAssumption DEF TypeInv, S!TypeInv, S!TypeOK, S!Records, S!Versions, Versions
<1>3. apps'[a].version >= apps[a].version
  <2>1. S!MemoryStands
    BY ServerStep, SameNext, ServerAssumptions, S!StepsForgetNothing DEF TypeInv
  <2>2. QED
    BY <2>1 DEF S!MemoryStands
<1>4. CASE Carried(a, v, h)
  BY <1>2, <1>3, <1>4, FaultsStay DEF BehindInv
<1>5. CASE apps'[a] = Record(v, h)
  BY <1>2, <1>5 DEF Record
<1>6. QED
  BY <1>4, <1>5, NothingInvented

\* So it is always.
LEMMA BehindSafe == Spec => []BehindInv
<1>1. Spec => []S!HistoryInv
  BY ServerRuns, ServerAssumptions, S!HistorySafe, PTL
<1>2. QED
  BY <1>1, BehindInitially, BehindKept, TypeInvariant, PTL DEF Spec

\* A client is never ahead of what is on the server's disk, across restarts of
\* both, as long as no disk operation has failed (ClientNotAhead).
THEOREM ClientsNotAhead == Spec => []ClientNotAhead
<1>1. TypeInv /\ S!HistoryInv /\ BehindInv => ClientNotAhead
  <2> SUFFICES ASSUME TypeInv, S!HistoryInv, BehindInv, faults = 0, NEW a \in Apps
               PROVE  inst[a].version <= manifest[a].version
    BY DEF ClientNotAhead
  <2>1. inst[a].version \in Versions /\ inst[a].content \in 0..MaxContent
        /\ apps[a].version \in Nat /\ manifest = apps
    BY SizesAssumption
    DEF TypeInv, TypeOK, S!TypeInv, S!TypeOK, S!Records, S!Versions, S!HistoryInv
  <2>2. CASE inst[a].version = 0
    BY <2>1, <2>2
  <2>3. CASE inst[a].version # 0
    <3>1. Carried(a, inst[a].version, inst[a].content)
      BY <2>3 DEF Carried
    <3>2. QED
      BY <2>1, <3>1 DEF BehindInv
  <2>4. QED
    BY <2>2, <2>3
<1>2. Spec => []S!HistoryInv
  BY ServerRuns, ServerAssumptions, S!HistorySafe, PTL
<1>3. QED
  BY <1>1, <1>2, TypeInvariant, BehindSafe, PTL

\* What the client has of application a, and what is on its way, is not newer
\* than version v.
AtMost(a, v) ==
  /\ inst[a].version <= v
  /\ \A i \in DOMAIN down : down[i].kind \in Files /\ down[i].app = a => down[i].version <= v

\* The same after a step.
StillAtMost(a, v) ==
  /\ inst'[a].version <= v
  /\ \A i \in DOMAIN down' : down'[i].kind \in Files /\ down'[i].app = a => down'[i].version <= v

\* Files come in the order of their versions, none older than what is installed;
\* and what the handler of the client's connection is about to send is not
\* older than any of them.
OrderInv ==
  faults = 0 =>
    /\ \A i \in DOMAIN down : down[i].kind \in Files =>
         /\ inst[down[i].app].version <= down[i].version
         /\ \A j \in DOMAIN down :
              j < i /\ down[j].kind \in Files /\ down[j].app = down[i].app =>
                down[j].version <= down[i].version
    /\ \A c \in Conns : main.conn = c =>
         /\ seen[c] # None => \A a \in Apps : AtMost(a, seen[c][a].version)
         /\ conn[c].pc = "push" => AtMost(conn[c].task.app, conn[c].task.version)

\* It is so in the initial state, in which nothing travels ...
LEMMA OrderInitially == Init => OrderInv
BY NamesAssumption DEF Init, OrderInv, Off

\* Nothing is newer than the newest version.
LEMMA NewestIsAtMost ==
  ASSUME TypeInv, BehindInv, faults = 0, NEW a \in Apps
  PROVE  AtMost(a, apps[a].version)
<1>1. apps[a].version \in Nat
  BY SizesAssumption DEF TypeInv, S!TypeInv, S!TypeOK, S!Records, S!Versions
<1>2. inst[a].version <= apps[a].version
  <2>1. inst[a].version \in Versions /\ inst[a].content \in 0..MaxContent
    BY DEF TypeInv, TypeOK
  <2>2. inst[a].version # 0 => Carried(a, inst[a].version, inst[a].content)
    BY DEF Carried
  <2>3. QED
    BY <1>1, <2>1, <2>2 DEF BehindInv
<1>3. ASSUME NEW i \in DOMAIN down, down[i].kind \in Files, down[i].app = a
      PROVE  down[i].version <= apps[a].version
  <2>1. down[i] \in Frames
    BY DEF TypeInv, TypeOK
  <2>2. down[i].version \in Versions /\ down[i].hash \in 0..MaxContent
    BY <1>3, <2>1, FileTypes, SizesAssumption DEF Server!Contents
  <2>3. Carried(a, down[i].version, down[i].hash)
    BY <1>3 DEF Carried, FileOf
  <2>4. QED
    BY <2>2, <2>3 DEF BehindInv
<1>4. QED
  BY <1>2, <1>3 DEF AtMost

\* As long as the handler of the client's connection sends nothing, what comes
\* does not get newer: the listener only moves it to what is installed.
LEMMA AtMostKept ==
  ASSUME TypeInv, [Next]_vars, NEW c \in Conns, main.conn = c,
         seen'[c] # None \/ conn'[c].pc = "push"
  PROVE  \A a \in Apps, v \in Versions : AtMost(a, v) => StillAtMost(a, v)
<1> SUFFICES ASSUME NEW a \in Apps, NEW v \in Versions, AtMost(a, v) PROVE StillAtMost(a, v)
  OBVIOUS
<1>1. down \in Seq(Frames)
  BY DEF TypeInv, TypeOK
<1>2. ASSUME NEW i \in DOMAIN down', down'[i].kind \in Files, down'[i].app = a
      PROVE  down'[i].version <= v
  <2>1. ~\E d \in Conns : Sends(d, down'[i])
    BY DEF Sends
  <2>2. QED
    BY <1>2, <2>1, FilesComeFrom DEF AtMost
<1>3. inst'[a].version <= v
  <2>1. CASE inst'[a] = inst[a]
    BY <2>1 DEF AtMost
  <2>2. CASE down # <<>> /\ Listen /\ inst'[a] # inst[a]
    <3>1. 1 \in DOMAIN down /\ Head(down) = down[1]
      BY <1>1, <2>2, Elements
    <3>2. QED
      BY <2>2, <3>1, Installs DEF AtMost
  <2>3. QED
    BY <2>1, <2>2, FrameSources
<1>4. QED
  BY <1>2, <1>3 DEF StillAtMost

\* A client that has a connection after a step had it before, or has just been
\* accepted, and then nothing is about to be sent to it.
LEMMA ConnectionSources ==
  ASSUME TypeInv, [Next]_vars, NEW c \in Conns, main'.conn = c
  PROVE  main.conn = c \/ (seen'[c] = None /\ conn'[c].pc # "push")
<1>1. main \in [pc : {"off", "hello", "check", "ready"}, conn : Conns \cup {None},
                waits : {"HELLO", "DOWNLOAD", "CHECK_UPDATES", None}, todo : SUBSET Apps]
  BY DEF TypeInv, TypeOK
<1>2. ASSUME NEW d \in Conns, Connect(d) PROVE main.conn = c \/ (seen'[c] = None /\ conn'[c].pc # "push")
  <2>1. main'.conn = d
    BY <1>2 DEF Connect, Off
  <2>2. conn[d].pc = "free" /\ conn' = [conn EXCEPT ![d].pc = "select"] /\ UNCHANGED seen
    BY <1>2 DEF Connect, Server!Accept
  <2>3. conn'[d].pc = "select"
    BY <2>2, ServerTypes DEF TypeInv, S!Handlers
  <2>4. seen[d] = None
    BY <2>2 DEF TypeInv, InService
  <2>5. QED
    BY <2>1, <2>2, <2>3, <2>4
<1>3. Quit => main'.conn = None
  BY DEF Quit, Off
<1>4. Listen \/ Proceed \/ Command => main'.conn = main.conn
  BY <1>1 DEF Listen, Resume, Proceed, SayHello, Check, Fetch, Command
<1>5. ASSUME NEW d \in Conns, Take(d) \/ Idle(d) \/ Serve(d) \/ End(d) PROVE UNCHANGED main
  BY <1>5
  DEF Take, Idle, End, Serve, Refuse, Violation, TakeAck, TakeHello, CloseOld, Welcome, Look,
      Compare, SendFile, TakeDisconnect, Pop, SendPush, client
<1>6. Operate \/ Publish \/ Restart \/ UNCHANGED vars => UNCHANGED main
  BY DEF Operate, Publish, Restart, vars, client
<1>7. QED
  BY <1>2, <1>3, <1>4, <1>5, <1>6, NamesAssumption DEF Next

\* ... and after every step: a task is the newest version when it is taken, and
\* so is a record when it is copied.
LEMMA OrderKept ==
  ASSUME TypeInv, S!QueueInv, BehindInv, OrderInv, [Next]_vars
  PROVE  OrderInv'
<1> SUFFICES ASSUME faults' = 0 PROVE OrderInv'
  BY DEF OrderInv
<1>0. TypeInv'
  BY TypeKept
<1>1. faults = 0
  BY FaultsStay
<1>2. down \in Seq(Frames)
  BY DEF TypeInv, TypeOK
<1> DEFINE Older(d, i, j) == d[j].kind \in Files /\ d[j].app = d[i].app => d[j].version <= d[i].version
<1>3. \A i \in DOMAIN down : down[i].kind \in Files =>
         /\ inst[down[i].app].version <= down[i].version
         /\ \A j \in DOMAIN down : j < i => Older(down, i, j)
  BY <1>1 DEF OrderInv
<1>4. ASSUME NEW i \in DOMAIN down', down'[i].kind \in Files
      PROVE  /\ inst'[down'[i].app].version <= down'[i].version
             /\ \A j \in DOMAIN down' : j < i => Older(down', i, j)
  <2>1. CASE UNCHANGED <<down, inst>>
    BY <1>3, <1>4, <2>1
  <2>2. CASE down' = <<>>
    BY <1>4, <2>2
  <2>3. CASE down # <<>> /\ Listen
    <3>1. down' = Tail(down)
      BY <2>3 DEF Listen
    <3>2. /\ 1 \in DOMAIN down /\ Head(down) = down[1]
          /\ \A k \in DOMAIN down' : k \in Nat /\ k >= 1 /\ k + 1 \in DOMAIN down /\ down'[k] = down[k + 1]
      <4>1. DOMAIN down' = 1..(Len(down) - 1) /\ Len(down) \in Nat
        BY <1>2, <2>3, <3>1
      <4>2. QED
        BY <1>2, <2>3, <3>1, <4>1, Elements
    <3>3. Older(down, i + 1, 1) /\ inst[down[i + 1].app].version <= down[i + 1].version
      BY <1>3, <1>4, <3>2
    <3>4. inst'[down'[i].app].version <= down'[i].version
      <4>1. down[i + 1] \in Frames
        BY <1>2, <3>2
      <4>2. down[i + 1].app \in Apps
        BY <1>4, <3>2, <4>1, FileTypes
      <4>3. QED
        BY <2>3, <3>2, <3>3, <4>2, Installs
    <3>5. ASSUME NEW j \in DOMAIN down', j < i PROVE Older(down', i, j)
      <4>1. j + 1 < i + 1
        BY <3>2, <3>5
      <4>2. Older(down, i + 1, j + 1)
        BY <1>3, <1>4, <3>2, <4>1
      <4>3. QED
        BY <3>2, <4>2
    <3>6. QED
      BY <3>4, <3>5
  <2>4. ASSUME NEW f \in Frames, down' = Append(down, f), UNCHANGED inst,
               f.kind \in Files => \E c \in Conns : Sends(c, f)
        PROVE  /\ inst'[down'[i].app].version <= down'[i].version
               /\ \A j \in DOMAIN down' : j < i => Older(down', i, j)
    <3>1. DOMAIN down' = 1..(Len(down) + 1) /\ DOMAIN down = 1..Len(down) /\ Len(down) \in Nat
          /\ down'[Len(down) + 1] = f
          /\ \A k \in DOMAIN down' : k = Len(down) + 1 \/ (k \in DOMAIN down /\ down'[k] = down[k])
      BY <1>2, <2>4, Elements
    <3>2. CASE i = Len(down) + 1
      <4>1. PICK c \in Conns : Sends(c, f)
        BY <1>4, <2>4, <3>1, <3>2
      <4>2. AtMost(f.app, f.version)
        <5>1. CASE seen[c] # None /\ seen[c][f.app] = Record(f.version, f.hash)
          BY <1>1, <4>1, <5>1 DEF OrderInv, Sends, Record
        <5>2. CASE conn[c].pc = "push" /\ conn[c].task = Task(f.app, f.version, f.hash)
          BY <1>1, <4>1, <5>2 DEF OrderInv, Sends, Task
        <5>3. QED
          BY <4>1, <5>1, <5>2 DEF Sends
      <4>3. ASSUME NEW j \in DOMAIN down', j < i PROVE j \in DOMAIN down /\ down'[j] = down[j]
        BY <3>1, <3>2, <4>3
      <4>4. QED
        BY <2>4, <3>1, <3>2, <4>2, <4>3 DEF AtMost
    <3>3. CASE i \in DOMAIN down /\ down'[i] = down[i]
      <4>1. ASSUME NEW j \in DOMAIN down', j < i PROVE j \in DOMAIN down /\ down'[j] = down[j]
        BY <3>1, <3>3, <4>1
      <4>2. QED
        BY <1>3, <1>4, <2>4, <3>3, <4>1
    <3>4. QED
      BY <3>1, <3>2, <3>3
  <2>5. QED
    BY <2>1, <2>2, <2>3, <2>4, FrameSources
<1>5. ASSUME NEW c \in Conns, main'.conn = c, seen'[c] # None, NEW a \in Apps
      PROVE  StillAtMost(a, seen'[c][a].version)
  <2>1. main.conn = c
    BY <1>5, ConnectionSources
  <2>2. CASE seen'[c] = seen[c]
    <3>1. seen[c][a].version \in Versions /\ AtMost(a, seen[c][a].version)
      BY <1>1, <1>5, <2>1, <2>2, SeenTypes DEF OrderInv
    <3>2. QED
      BY <1>5, <2>1, <2>2, <3>1, AtMostKept
  <2>3. CASE seen'[c] = apps /\ UNCHANGED <<down, inst>>
    <3>1. AtMost(a, apps[a].version)
      BY <1>1, NewestIsAtMost
    <3>2. QED
      BY <2>3, <3>1 DEF AtMost, StillAtMost
  <2>4. QED
    BY <1>5, <2>2, <2>3, CopySources
<1>6. ASSUME NEW c \in Conns, main'.conn = c, conn'[c].pc = "push"
      PROVE  StillAtMost(conn'[c].task.app, conn'[c].task.version)
  <2>1. main.conn = c
    BY <1>6, ConnectionSources
  <2>2. CASE conn'[c] = conn[c]
    <3>1. /\ conn[c].task.app \in Apps /\ conn[c].task.version \in Versions
          /\ AtMost(conn[c].task.app, conn[c].task.version)
      BY <1>1, <1>6, <2>1, <2>2, ServerTypes DEF OrderInv, TypeInv
    <3>2. QED
      BY <1>6, <2>1, <2>2, <3>1, AtMostKept
  <2>3. CASE /\ pushes[Client] # <<>> /\ conn'[c].task = Head(pushes[Client])
             /\ UNCHANGED <<down, inst>>
    <3> DEFINE t == Head(pushes[Client])
    <3>1. pushes[Client] \in Seq(Server!Tasks)
      BY ServerTypes DEF TypeInv
    <3>2. 1 \in DOMAIN pushes[Client] /\ t = pushes[Client][1] /\ t.app \in Apps
      BY <2>3, <3>1, Elements, ServerTypes DEF TypeInv
    <3>3. apps[t.app] = [version |-> t.version, hash |-> t.hash]
      BY <1>1, <3>2 DEF S!QueueInv, S!Due
    <3> HIDE DEF t
    <3>4. AtMost(t.app, apps[t.app].version) /\ apps[t.app].version = t.version
      BY <1>1, <3>2, <3>3, NewestIsAtMost
    <3>5. StillAtMost(t.app, t.version)
      BY <2>3, <3>4 DEF AtMost, StillAtMost
    <3>6. QED
      BY <2>3, <3>5 DEF t
  <2>4. QED
    BY <1>6, <2>2, <2>3, TaskSources
<1>7. \A c \in Conns : main'.conn = c =>
        /\ seen'[c] # None => \A a \in Apps : StillAtMost(a, seen'[c][a].version)
        /\ conn'[c].pc = "push" => StillAtMost(conn'[c].task.app, conn'[c].task.version)
  BY <1>5, <1>6
<1>8. QED
  BY <1>4, <1>7 DEF OrderInv, AtMost, StillAtMost

\* So it is always.
LEMMA OrderSafe == Spec => []OrderInv
<1>1. Spec => []S!QueueInv
  BY ServerRuns, ServerAssumptions, S!QueueSafe, PTL
<1>2. QED
  BY <1>1, OrderInitially, OrderKept, BehindSafe, TypeInvariant, PTL DEF Spec

\* What is installed is not replaced by an older version.
LEMMA InstallsForward ==
  ASSUME TypeInv, OrderInv, [Next]_vars, faults' = 0
  PROVE  \A a \in Apps : inst'[a].version >= inst[a].version
<1> SUFFICES ASSUME NEW a \in Apps PROVE inst'[a].version >= inst[a].version
  OBVIOUS
<1>1. inst[a].version \in Nat
  BY SizesAssumption DEF TypeInv, TypeOK, Versions
<1>2. CASE inst'[a] = inst[a]
  BY <1>1, <1>2
<1>3. CASE down # <<>> /\ Listen /\ inst'[a] # inst[a]
  <2>1. 1 \in DOMAIN down /\ Head(down) = down[1]
    BY <1>3, Elements DEF TypeInv, TypeOK
  <2>2. Head(down).version \in Nat /\ Head(down).app = a /\ Head(down).kind \in Files
        /\ inst'[a].version = Head(down).version
    BY <1>3, Installs, FileTypes, SizesAssumption DEF Versions
  <2>3. inst[a].version <= Head(down).version
    BY <2>1, <2>2, FaultsStay DEF OrderInv
  <2>4. QED
    BY <1>1, <2>2, <2>3
<1>4. QED
  BY <1>2, <1>3, FrameSources

\* What the client installs never goes back to an older version, over any
\* number of connections, as long as no disk operation of the server has failed
\* (TransfersInOrder): downloads and pushes do not overtake each other, although
\* the record of a download is read long before its file is sent.
THEOREM TransfersStayInOrder == Spec => TransfersInOrder
<1>1. TypeInv /\ OrderInv /\ [Next]_vars =>
        (faults' = 0 => \A a \in Apps : inst'[a].version >= inst[a].version)
  BY InstallsForward
<1>2. QED
  BY <1>1, OrderSafe, TypeInvariant, PTL DEF Spec, TransfersInOrder
=============================================================================
