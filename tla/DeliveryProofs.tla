---------------------------- MODULE DeliveryProofs ----------------------------
(***************************************************************************)
(* A theorem about UpdateSystem: as long as no disk operation of the       *)
(* server fails, a connected client that has checked for updates has the   *)
(* newest version of its applications, or has it on its way.               *)
(*                                                                         *)
(* The argument follows a version along its way: out of the queue into the *)
(* handler's task, from there to the client, or by way of a CHECK_UPDATES, *)
(* its answer, the list of updates to download, a DOWNLOAD and its         *)
(* transfer.  That no step of this chain drops it depends on how the two   *)
(* sides talk: one request at a time, whose answer main waits for; one     *)
(* transfer at a time, whose ACK belongs to it; and pushes only of what    *)
(* the client has installed.                                               *)
(***************************************************************************)
EXTENDS UpdateSystemProofs

-----------------------------------------------------------------------------
(* What a step does to the streams.                                         *)

\* The requests main waits for an answer to.
Kinds == {"HELLO", "DOWNLOAD", "CHECK_UPDATES"}

\* The handler of c takes a request out of its stream.
ServesOne(c) ==
  \/ Refuse(c) \/ Violation(c) \/ TakeAck(c) \/ TakeHello(c) \/ Compare(c) \/ SendFile(c)
  \/ TakeDisconnect(c)

\* It does something else, and keeps its stream.
KeepsStream(c) ==
  Take(c) \/ Idle(c) \/ CloseOld(c) \/ Welcome(c) \/ Look(c) \/ Pop(c) \/ SendPush(c)

\* A handler's step.
Handles(c) == ServesOne(c) \/ KeepsStream(c) \/ End(c)

\* A handler reaches only its own stream, and the client only on the
\* connection the client uses.
LEMMA HandlerScope ==
  ASSUME TypeInv, NEW c \in Conns, Handles(c)
  PROVE  /\ UNCHANGED <<main, inst>>
         /\ \A d \in Conns : d # c => conn'[d] = conn[d] /\ up'[d] = up[d] /\ seen'[d] = seen[d]
         /\ main.conn # c => UNCHANGED down
         /\ \A d \in Conns : open'[d] => open[d]
<1>1. UNCHANGED <<main, inst>>
  BY DEF Handles, ServesOne, KeepsStream, Take, Idle, End, Refuse, Violation, TakeAck, TakeHello,
         CloseOld, Welcome, Look, Compare, SendFile, TakeDisconnect, Pop, SendPush, client
<1>2. DOMAIN up = Conns /\ DOMAIN seen = Conns /\ DOMAIN open = Conns
  BY DEF TypeInv, TypeOK, S!TypeInv, S!TypeOK
<1>3. \A d \in Conns : d # c => up'[d] = up[d] /\ seen'[d] = seen[d]
  BY <1>2
  DEF Handles, ServesOne, KeepsStream, Take, Idle, End, Refuse, Violation, TakeAck, TakeHello,
      CloseOld, Welcome, Look, Compare, SendFile, TakeDisconnect, Pop, SendPush, Served
<1>4. \A d \in Conns : d # c => conn'[d] = conn[d]
  <2>1. CASE Take(c)
    <3>1. up[c] \in Seq(Asks) /\ up[c] # <<>>
      BY <2>1 DEF Take, TypeInv, TypeOK
    <3>2. Request(Now(c)) \in Server!Requests
      BY <3>1, Streams, AskTypes DEF Now
    <3>3. Server!Handler(c)
      BY <2>1, <3>2 DEF Take, Server!Handler, Server!Selects, Server!Reads
    <3>4. QED
      BY <3>3, HandlerAlone DEF TypeInv
  <2>2. CASE Look(c)
    BY <2>2 DEF Look, serverVars
  <2>3. CASE ~Take(c) /\ ~Look(c)
    <3>1. Server!Handler(c)
      BY <2>3
      DEF Handles, ServesOne, KeepsStream, Idle, End, Refuse, Violation, TakeAck, TakeHello,
          CloseOld, Welcome, Compare, SendFile, TakeDisconnect, Pop, SendPush, Server!Handler,
          Server!Sends, Server!Moves, Server!Selects, Server!Reads
    <3>2. QED
      BY <3>1, HandlerAlone DEF TypeInv
  <2>4. QED
    BY <2>1, <2>2, <2>3
<1>5. main.conn # c => UNCHANGED down
  BY DEF Handles, ServesOne, KeepsStream, Take, Idle, End, Refuse, Violation, TakeAck, TakeHello,
         CloseOld, Welcome, Look, Compare, SendFile, TakeDisconnect, Pop, SendPush, Reply
<1>6. \A d \in Conns : open'[d] => open[d]
  <2>1. CASE CloseOld(c)
    BY <2>1 DEF CloseOld, Server!CloseOld
  <2>2. CASE End(c)
    BY <1>2, <2>2 DEF End, Server!Hangup, Server!AckTimeout, Server!Cleanup
  <2>3. CASE ~CloseOld(c) /\ ~End(c)
    <3>1. CASE ServesOne(c)
      BY <3>1
      DEF ServesOne, Refuse, Violation, TakeAck, TakeHello, Compare, SendFile, TakeDisconnect,
          Server!Answer, Server!Violation, Server!AcceptAck, Server!Hello, Server!CheckUpdates,
          Server!Download, Server!Disconnect
    <3>2. CASE KeepsStream(c)
      BY <2>3, <3>2
      DEF KeepsStream, Take, Idle, Welcome, Look, Pop, SendPush, serverVars, Server!Receive,
          Server!Idle, Server!Welcome, Server!PopPush, Server!SendPush
    <3>3. QED
      BY <2>3, <3>1, <3>2 DEF Handles
  <2>4. QED
    BY <2>1, <2>2, <2>3
<1>7. QED
  BY <1>1, <1>3, <1>4, <1>5, <1>6

\* What is served is the head of the stream, and nothing of it is kept.
LEMMA ServesHead ==
  ASSUME TypeInv, NEW c \in Conns, ServesOne(c)
  PROVE  /\ up[c] # <<>> /\ up[c] \in Seq(Asks) /\ up'[c] = Tail(up[c]) /\ seen'[c] = None
         /\ 1 \in DOMAIN up[c] /\ Now(c) = up[c][1] /\ Now(c) \in Asks
         /\ conn[c].request = Request(Now(c)) /\ conn[c].request.kind = Now(c).kind
         /\ conn[c].pc = "serve" /\ conn'[c].pc \notin {"serve", "push"}
<1>1. conn[c].pc = "serve" /\ conn'[c].pc \notin {"serve", "push"}
  BY HandlerServes
  DEF ServesOne, Refuse, Violation, TakeAck, TakeHello, Compare, SendFile, TakeDisconnect, TypeInv
<1>2. up[c] # <<>> /\ up[c] \in Seq(Asks) /\ conn[c].request = Request(Now(c))
  BY <1>1 DEF TypeInv, TypeOK, InService
<1>3. Served(c)
  BY DEF ServesOne, Refuse, Violation, TakeAck, TakeHello, Compare, SendFile, TakeDisconnect
<1>4. up'[c] = Tail(up[c]) /\ seen'[c] = None
  BY <1>3 DEF Served, TypeInv, TypeOK
<1>5. Now(c) \in Asks /\ 1 \in DOMAIN up[c] /\ Now(c) = up[c][1]
  BY <1>2, Streams, Elements DEF Now
<1>6. QED
  BY <1>1, <1>2, <1>4, <1>5, AskTypes

\* Otherwise the stream is kept, or given up with the connection.
LEMMA ServesNothing ==
  ASSUME TypeInv, NEW c \in Conns
  PROVE  /\ KeepsStream(c) => UNCHANGED up
         /\ End(c) => /\ up'[c] = <<>> /\ seen'[c] = None /\ UNCHANGED down
                      /\ conn'[c].pc \in {"cleanup", "free"}
<1>1. KeepsStream(c) => UNCHANGED up
  BY DEF KeepsStream, Take, Idle, CloseOld, Welcome, Look, Pop, SendPush
<1>2. ASSUME End(c) PROVE up'[c] = <<>> /\ seen'[c] = None /\ UNCHANGED down
  BY <1>2 DEF End, TypeInv, TypeOK
<1>3. ASSUME End(c) PROVE conn'[c].pc \in {"cleanup", "free"}
  <2>1. DOMAIN conn = Conns
    BY ServerTypes DEF TypeInv
  <2>2. QED
    BY <1>3, <2>1, SentGoes
    DEF End, Server!Hangup, Server!AckTimeout, Server!Cleanup, Server!NoHandler, TypeInv
<1>4. QED
  BY <1>1, <1>2, <1>3

\* What the client puts into the stream of its connection.
Puts(f) ==
  /\ main.pc # "off" /\ main.conn \in Conns /\ open[main.conn]
  /\ up' = [up EXCEPT ![main.conn] = Append(@, f)]
  /\ UNCHANGED <<conn, open, seen, apps>>

\* A request of main, with what it is then waiting for.
AsksFor(f) ==
  /\ Puts(f) /\ f \in Asks /\ f.kind \in Kinds
  /\ main.waits = None /\ main'.waits = f.kind /\ main'.conn = main.conn /\ main'.pc = main.pc
  /\ UNCHANGED <<serverVars, down, inst, lost>>
  /\ f.kind = "HELLO" => main.pc = "hello" /\ main'.todo = main.todo
  /\ f.kind = "CHECK_UPDATES" =>
       /\ f.versions = [a \in Apps |-> inst[a].version]
       /\ main.pc = "check" \/ (main.pc = "ready" /\ main.todo = {})
       /\ main'.todo = main.todo
  /\ f.kind = "DOWNLOAD" => main.pc = "ready" /\ main'.todo = main.todo \ {f.app}

\* The steps of main that ask.
LEMMA MainAsks ==
  ASSUME TypeInv, Proceed \/ Command
  PROVE  \E f \in Asks : AsksFor(f)
<1>1. /\ [kind |-> "HELLO", client |-> Client] \in Asks
      /\ \A a \in Apps : [kind |-> "DOWNLOAD", app |-> a] \in Asks
      /\ \A v \in [Apps -> Versions] : [kind |-> "CHECK_UPDATES", versions |-> v] \in Asks
  BY DEF Asks
<1>2. [a \in Apps |-> inst[a].version] \in [Apps -> Versions]
  BY DEF TypeInv, TypeOK
<1>3. main \in [pc : {"off", "hello", "check", "ready"}, conn : Conns \cup {None},
                waits : {"HELLO", "DOWNLOAD", "CHECK_UPDATES", None}, todo : SUBSET Apps]
  BY DEF TypeInv, TypeOK
<1>4. ASSUME NEW f, Ask(f)
      PROVE  Puts(f) /\ main.waits = None /\ UNCHANGED <<serverVars, down, inst, lost>>
  BY <1>4, <1>3 DEF Ask, Puts, TypeInv, serverVars
<1>5. ASSUME SayHello PROVE \E f \in Asks : AsksFor(f)
  BY <1>1, <1>3, <1>4, <1>5 DEF SayHello, AsksFor, Kinds
<1>6. ASSUME Check, main.pc = "check" \/ (main.pc = "ready" /\ main.todo = {})
      PROVE  \E f \in Asks : AsksFor(f)
  <2> DEFINE f == [kind |-> "CHECK_UPDATES", versions |-> [a \in Apps |-> inst[a].version]]
  <2>1. f \in Asks /\ Ask(f) /\ main' = [main EXCEPT !.waits = "CHECK_UPDATES"]
    BY <1>1, <1>2, <1>6 DEF Check
  <2>2. AsksFor(f)
    BY <1>3, <1>4, <1>6, <2>1 DEF AsksFor, Kinds
  <2>3. QED
    BY <2>1, <2>2
<1>7. ASSUME NEW a \in Apps, Fetch(a) PROVE \E f \in Asks : AsksFor(f)
  BY <1>1, <1>3, <1>4, <1>7 DEF Fetch, AsksFor, Kinds
<1>8. ASSUME NEW a \in Apps, AtConsole, main' = [main EXCEPT !.waits = "DOWNLOAD"],
             Ask([kind |-> "DOWNLOAD", app |-> a])
      PROVE  \E f \in Asks : AsksFor(f)
  BY <1>1, <1>3, <1>4, <1>8 DEF AtConsole, AsksFor, Kinds
<1>9. QED
  BY <1>5, <1>6, <1>7, <1>8 DEF Proceed, Command, AtConsole

\* The frame a handler sends to the client.
Answers(c, f) ==
  \/ Welcome(c) /\ f = [kind |-> "OK", to |-> "HELLO"]
  \/ Violation(c) /\ f = [kind |-> "ERROR", to |-> Now(c).kind]
  \/ /\ Compare(c)
     /\ f = [kind |-> "UPDATES", to |-> "CHECK_UPDATES", updates |-> {a \in Apps : Newer(c, a)}]
  \/ /\ SendFile(c)
     /\ LET a == Now(c).app
        IN f = [kind |-> "TRANSFER", to |-> "DOWNLOAD", app |-> a,
                version |-> seen[c][a].version, hash |-> seen[c][a].hash, data |-> file[a]]
  \/ /\ SendPush(c)
     /\ LET t == conn[c].task
        IN f = [kind |-> "PUSH", to |-> "PUSH_UPDATE", app |-> t.app,
                version |-> t.version, hash |-> t.hash, data |-> t.hash]

\* A handler's step sends nothing, or one frame to the client on its connection;
\* and only an error is sent by a handler that gives up.
LEMMA HandlerAnswers ==
  ASSUME TypeInv, [Next]_vars, NEW c \in Conns, Handles(c)
  PROVE  \/ UNCHANGED down
         \/ /\ main.conn = c
            /\ \E f \in Frames : /\ Answers(c, f) /\ down' = Append(down, f)
                                 /\ Violation(c) \/ conn'[c].pc # "cleanup"
<1>1. \/ UNCHANGED down
      \/ \E f : /\ Answers(c, f) /\ down' = Append(down, f) /\ main.conn = c
                /\ Violation(c) \/ conn'[c].pc # "cleanup"
  <2>1. CASE Take(c) \/ Idle(c) \/ End(c) \/ Refuse(c) \/ TakeAck(c) \/ TakeHello(c)
             \/ CloseOld(c) \/ Look(c) \/ TakeDisconnect(c) \/ Pop(c)
    BY <2>1
    DEF Take, Idle, End, Refuse, TakeAck, TakeHello, CloseOld, Look, TakeDisconnect, Pop
  <2>2. CASE Violation(c)
    BY <2>2 DEF Violation, Answers
  <2>3. CASE Welcome(c)
    BY <2>3 DEF Welcome, Answers, Reply
  <2>4. CASE Compare(c)
    BY <2>4 DEF Compare, Answers, Reply
  <2>5. CASE SendFile(c)
    BY <2>5 DEF SendFile, Answers, Reply
  <2>6. CASE SendPush(c)
    BY <2>6 DEF SendPush, Answers, Reply
  <2>7. QED
    BY <2>1, <2>2, <2>3, <2>4, <2>5, <2>6 DEF Handles, ServesOne, KeepsStream
<1>2. ASSUME NEW f, down' = Append(down, f) PROVE f \in Frames
  <2>1. TypeInv'
    BY TypeKept
  <2>2. down' \in Seq(Frames) /\ down \in Seq(Frames)
    BY <2>1 DEF TypeInv, TypeOK
  <2>3. Len(down) + 1 \in DOMAIN down' /\ down'[Len(down) + 1] = f
    BY <1>2, <2>2
  <2>4. QED
    BY <2>2, <2>3
<1>3. QED
  BY <1>1, <1>2

\* What the frames answer.
LEMMA AnswerKinds ==
  ASSUME TypeInv, NEW c \in Conns, NEW f, Answers(c, f)
  PROVE  /\ \/ Welcome(c) /\ f.to = "HELLO"
            \/ ServesOne(c) /\ f.to = Now(c).kind
            \/ SendPush(c) /\ f.to = "PUSH_UPDATE"
         /\ f.kind \in Files => \/ SendPush(c) /\ f.app = conn[c].task.app /\ f.to = "PUSH_UPDATE"
                                \/ SendFile(c) /\ f.app = Now(c).app /\ f.to = "DOWNLOAD"
<1>1. Compare(c) => ServesOne(c) /\ Now(c).kind = "CHECK_UPDATES"
  BY ServesHead DEF ServesOne, Compare, Server!CheckUpdates, Server!Serving
<1>2. SendFile(c) => ServesOne(c) /\ Now(c).kind = "DOWNLOAD"
  BY ServesHead DEF ServesOne, SendFile, Server!Download, Server!Serving
<1>3. Violation(c) => ServesOne(c)
  BY DEF ServesOne
<1>4. QED
  BY <1>1, <1>2, <1>3 DEF Answers, Files

\* What the listener takes from what comes, and may put into the stream.
LEMMA ListenerTakes ==
  ASSUME TypeInv, Listen
  PROVE  /\ main.pc # "off" /\ main.conn \in Conns /\ down # <<>> /\ down \in Seq(Frames)
         /\ 1 \in DOMAIN down /\ Head(down) = down[1] /\ Head(down) \in Frames
         /\ down' = Tail(down) /\ Resume(Head(down)) /\ main'.conn = main.conn
         /\ UNCHANGED <<serverVars, seen>>
         /\ \/ UNCHANGED up
            \/ Puts([kind |-> "ACK"]) /\ Head(down).kind \in Files /\ Intact(Head(down))
<1>1. main \in [pc : {"off", "hello", "check", "ready"}, conn : Conns \cup {None},
                waits : {"HELLO", "DOWNLOAD", "CHECK_UPDATES", None}, todo : SUBSET Apps]
      /\ down \in Seq(Frames)
  BY DEF TypeInv, TypeOK
<1>2. main.pc # "off" /\ down # <<>> /\ main.conn \in Conns
  BY <1>1 DEF Listen, TypeInv
<1>3. 1 \in DOMAIN down /\ Head(down) = down[1] /\ Head(down) \in Frames
  BY <1>1, <1>2, Elements
<1>4. Resume(Head(down)) /\ down' = Tail(down) /\ UNCHANGED <<serverVars, seen>>
  BY DEF Listen
<1>5. main'.conn = main.conn
  BY <1>1, <1>4 DEF Resume
<1>6. \/ UNCHANGED up
      \/ Puts([kind |-> "ACK"]) /\ Head(down).kind \in Files /\ Intact(Head(down))
  BY <1>2 DEF Listen, Puts, Files, serverVars
<1>7. QED
  BY <1>1, <1>2, <1>3, <1>4, <1>5, <1>6

\* Every step, sorted by who takes it.
LEMMA StepsOfNext ==
  ASSUME TypeInv, [Next]_vars
  PROVE  \/ \E c \in Conns : Handles(c) \/ Connect(c)
         \/ \E f \in Asks : AsksFor(f)
         \/ Listen \/ Quit \/ Restart \/ Operate \/ Publish \/ UNCHANGED vars
BY MainAsks DEF Next, Serve, Handles, ServesOne, KeepsStream

\* Steps that touch neither the streams nor who uses them.
LEMMA Elsewhere ==
  ASSUME Operate \/ Publish \/ UNCHANGED vars
  PROVE  UNCHANGED <<conn, open, active, downloads, registry, seen, up, down, main, inst>>
BY DEF Operate, Publish, vars, serverVars, client, Server!Operator, Server!Overwrite,
       Server!ReadFile, Server!CommitPublish, Server!live, Server!disk

\* A restart leaves nothing of the connections.
LEMMA RestartClears ==
  ASSUME Restart, NEW c \in Conns
  PROVE  /\ conn'[c] = Server!NoHandler /\ ~open'[c] /\ up'[c] = <<>> /\ seen'[c] = None
         /\ UNCHANGED <<down, main, inst>>
BY DEF Restart, Server!Restart, client

\* A connection begins with nothing.
LEMMA ConnectBegins ==
  ASSUME TypeInv, NEW c \in Conns, Connect(c)
  PROVE  /\ main.pc = "off" /\ main'.conn = c /\ main'.pc = "hello" /\ main'.waits = None
         /\ main'.todo = {} /\ UNCHANGED <<seen, up, down, inst, lost, apps>>
         /\ conn[c].pc = "free" /\ conn'[c].pc = "select" /\ conn'[c].client = None
         /\ open'[c] /\ \A d \in Conns : d # c => conn'[d] = conn[d] /\ open'[d] = open[d]
<1>1. DOMAIN conn = Conns /\ conn[c] \in S!Handlers /\ DOMAIN open = Conns
  BY ServerTypes DEF TypeInv, S!TypeInv, S!TypeOK
<1>2. conn[c].pc = "free" /\ conn' = [conn EXCEPT ![c].pc = "select"]
      /\ open' = [open EXCEPT ![c] = TRUE]
  BY DEF Connect, Server!Accept
<1>3. conn'[c].pc = "select" /\ conn'[c].client = None
  BY <1>1, <1>2, ServerTypes DEF TypeInv, S!Handlers
<1>4. QED
  BY <1>1, <1>2, <1>3 DEF Connect, Off, Server!Accept

-----------------------------------------------------------------------------
(* One request at a time.                                                   *)

\* What the frames are answers to.
LEMMA FrameKinds ==
  ASSUME NEW f \in Frames
  PROVE  /\ f.to \in Kinds \cup {"DISCONNECT", "PUSH_UPDATE"} /\ f.to # None
         /\ f.kind = "UPDATES" => f.to = "CHECK_UPDATES" /\ f.updates \subseteq Apps
         /\ f.kind \in Files => f.to \in {"DOWNLOAD", "PUSH_UPDATE"}
BY NamesAssumption DEF Frames, Kinds, Files

\* Where main is in its life, and what it may wait for there.
Phases ==
  /\ main.pc = "off" => main = Off /\ down = <<>>
  /\ main.pc = "hello" => main.waits \in {None, "HELLO"} /\ main.todo = {}
  /\ main.pc = "check" => main.waits \in {None, "CHECK_UPDATES"} /\ main.todo = {}
  /\ main.pc = "ready" => main.waits # "HELLO"
  /\ main.waits = "CHECK_UPDATES" => main.todo = {}

\* Nobody has taken over the connection yet, but the HELLO has been read.
Greeting(c) == conn[c].pc \in {"closeOld", "welcome"}

NoRequest(c) == \A i \in DOMAIN up[c] : up[c][i].kind \notin Kinds
NoAnswer == \A i \in DOMAIN down : down[i].to \notin Kinds

\* The request main waits for is in the stream, or with the handler, or its
\* answer is on the way: one of them at a time, and only that request.
Dialogue(c) ==
  main.conn = c =>
    /\ Greeting(c) => main.waits = "HELLO" /\ NoRequest(c) /\ NoAnswer
    /\ \A i \in DOMAIN up[c] : up[c][i].kind \in Kinds =>
         /\ main.waits = up[c][i].kind /\ NoAnswer
         /\ \A j \in DOMAIN up[c] : up[c][j].kind \in Kinds => i = j
    /\ \A i \in DOMAIN down : down[i].to \in Kinds =>
         /\ main.waits = down[i].to
         /\ \A j \in DOMAIN down : down[j].to \in Kinds => i = j

\* A connection that does not exist has no stream and no socket.
Unused(c) == conn[c].pc = "free" => up[c] = <<>> /\ ~open[c]

TalkInv == Phases /\ \A c \in Conns : Dialogue(c) /\ Unused(c)

\* When main waits for nothing, nothing is under way.
LEMMA NothingUnderWay ==
  ASSUME TalkInv, NEW c \in Conns, main.conn = c, main.waits = None
  PROVE  ~Greeting(c) /\ NoRequest(c) /\ NoAnswer
BY NamesAssumption DEF TalkInv, Dialogue, NoRequest, NoAnswer, Kinds

\* It is so in the initial state.
LEMMA TalkInitially == Init => TalkInv
BY NamesAssumption
DEF Init, TalkInv, Phases, Dialogue, Unused, Off, Server!Init, Server!NoHandler

\* The phases of main follow each other.
LEMMA PhasesKept ==
  ASSUME TypeInv, Phases, [Next]_vars
  PROVE  Phases'
<1>1. ASSUME NEW c \in Conns, Handles(c) PROVE Phases'
  BY <1>1, HandlerScope, NamesAssumption DEF Phases, Off
<1>2. ASSUME NEW c \in Conns, Connect(c) PROVE Phases'
  BY <1>2, ConnectBegins, NamesAssumption DEF Phases
<1>3. ASSUME NEW f \in Asks, AsksFor(f) PROVE Phases'
  BY <1>3, NamesAssumption DEF Phases, AsksFor, Puts, Kinds
<1>4. CASE Listen
  <2> DEFINE f == Head(down)
  <2>1. /\ main.pc # "off" /\ Resume(f) /\ f \in Frames
        /\ main \in [pc : {"off", "hello", "check", "ready"}, conn : Conns \cup {None},
                     waits : {"HELLO", "DOWNLOAD", "CHECK_UPDATES", None}, todo : SUBSET Apps]
    BY <1>4, ListenerTakes DEF TypeInv, TypeOK
  <2>2. f.to # None /\ (f.kind = "UPDATES" => f.to = "CHECK_UPDATES")
    BY <2>1, FrameKinds
  <2> HIDE DEF f
  <2>3. CASE f.to # main.waits
    BY <2>1, <2>3 DEF Resume, Phases
  <2>4. CASE f.to = main.waits
    <3>1. main' = [main EXCEPT !.waits = None,
                     !.pc = CASE main.pc = "hello" -> "check" [] main.pc = "check" -> "ready"
                              [] OTHER -> main.pc,
                     !.todo = IF f.kind = "UPDATES" THEN f.updates ELSE @]
      BY <2>1, <2>4 DEF Resume
    <3>2. main'.waits = None /\ main'.pc # "off"
          /\ (main'.pc = "hello" => FALSE) /\ (main'.pc = "check" => main.pc = "hello")
          /\ (f.kind # "UPDATES" => main'.todo = main.todo)
      BY <2>1, <3>1
    <3>3. main.pc = "hello" => f.kind # "UPDATES"
      BY <2>2, <2>4 DEF Phases
    <3>4. QED
      BY <3>2, <3>3, NamesAssumption DEF Phases
  <2>5. QED
    BY <2>3, <2>4
<1>5. CASE Quit
  BY <1>5, NamesAssumption DEF Quit, Phases, Off
<1>6. CASE Restart
  BY <1>6 DEF Restart, Phases, client
<1>7. QED
  BY <1>1, <1>2, <1>3, <1>4, <1>5, <1>6, Elsewhere, StepsOfNext DEF Phases

\* A stream that loses its head has no other frames, in the same order.
LEMMA ServedRest ==
  ASSUME TypeInv, NEW c \in Conns, ServesOne(c)
  PROVE  \A i \in DOMAIN up'[c] : i \in Nat /\ i + 1 \in DOMAIN up[c] /\ up'[c][i] = up[c][i + 1] /\ i # 0
<1>1. up[c] # <<>> /\ up[c] \in Seq(Asks) /\ up'[c] = Tail(up[c])
  BY ServesHead
<1>2. DOMAIN Tail(up[c]) = 1..(Len(up[c]) - 1) /\ Len(up[c]) \in Nat
  BY <1>1
<1>3. QED
  BY <1>1, <1>2, Elements

\* What comes loses its head to the listener.
LEMMA ListenedRest ==
  ASSUME TypeInv, Listen
  PROVE  \A i \in DOMAIN down' : i \in Nat /\ i + 1 \in DOMAIN down /\ down'[i] = down[i + 1] /\ i # 0
<1>1. down # <<>> /\ down \in Seq(Frames) /\ down' = Tail(down)
  BY ListenerTakes
<1>2. DOMAIN Tail(down) = 1..(Len(down) - 1) /\ Len(down) \in Nat
  BY <1>1
<1>3. QED
  BY <1>1, <1>2, Elements

\* A frame that is put into a stream comes after the others.
LEMMA PutLast ==
  ASSUME TypeInv, NEW f \in Asks, Puts(f)
  PROVE  LET c == main.conn
         IN /\ DOMAIN up[c] = 1..Len(up[c]) /\ DOMAIN up'[c] = 1..(Len(up[c]) + 1)
            /\ Len(up[c]) \in Nat /\ up'[c][Len(up[c]) + 1] = f
            /\ \A i \in DOMAIN up'[c] : i = Len(up[c]) + 1 \/ (i \in DOMAIN up[c] /\ up'[c][i] = up[c][i])
            /\ \A d \in Conns : d # c => up'[d] = up[d]
<1> DEFINE c == main.conn
<1>1. c \in Conns /\ up[c] \in Seq(Asks) /\ up' = [up EXCEPT ![c] = Append(@, f)]
      /\ DOMAIN up = Conns
  BY DEF Puts, TypeInv, TypeOK
<1>2. up'[c] = Append(up[c], f) /\ \A d \in Conns : d # c => up'[d] = up[d]
  BY <1>1
<1> HIDE DEF c
<1>3. /\ DOMAIN up[c] = 1..Len(up[c]) /\ DOMAIN up'[c] = 1..(Len(up[c]) + 1)
      /\ Len(up[c]) \in Nat /\ up'[c][Len(up[c]) + 1] = f
      /\ \A i \in DOMAIN up'[c] : i = Len(up[c]) + 1 \/ (i \in DOMAIN up[c] /\ up'[c][i] = up[c][i])
  BY <1>1, <1>2, Elements
<1>4. QED
  BY <1>2, <1>3 DEF c

\* A frame that is sent to the client comes after the others.
LEMMA SentLast ==
  ASSUME TypeInv, NEW f \in Frames, down' = Append(down, f)
  PROVE  /\ DOMAIN down = 1..Len(down) /\ DOMAIN down' = 1..(Len(down) + 1)
         /\ Len(down) \in Nat /\ down'[Len(down) + 1] = f
         /\ \A i \in DOMAIN down' : i = Len(down) + 1 \/ (i \in DOMAIN down /\ down'[i] = down[i])
<1>1. down \in Seq(Frames)
  BY DEF TypeInv, TypeOK
<1>2. QED
  BY <1>1, Elements

\* What a step of a handler keeps of its record.
SameRole(c) == conn'[c].client = conn[c].client
SameTransfer(c) == conn'[c].transfer = conn[c].transfer
GivesUp(c) == conn'[c].pc = "cleanup" /\ SameRole(c) /\ SameTransfer(c)

\* A send goes through, or the handler gives up.
LEMMA SentOrNot ==
  ASSUME S!TypeInv, NEW c \in Conns, NEW h
  PROVE  /\ Server!Sent(c, h) => (open[c] /\ conn'[c] = h) \/ GivesUp(c)
         /\ \A pc : Server!Goto(c, pc) =>
              /\ conn'[c].pc = pc /\ SameRole(c) /\ SameTransfer(c)
              /\ conn'[c].task = conn[c].task /\ conn'[c].hello = conn[c].hello
<1>1. DOMAIN conn = Conns /\ conn[c] \in S!Handlers
  BY ServerTypes
<1>2. ASSUME NEW pc, Server!Goto(c, pc)
      PROVE  /\ conn'[c].pc = pc /\ SameRole(c) /\ SameTransfer(c)
             /\ conn'[c].task = conn[c].task /\ conn'[c].hello = conn[c].hello
  BY <1>1, <1>2 DEF Server!Goto, S!Handlers, SameRole, SameTransfer
<1>3. QED
  BY <1>1, <1>2 DEF Server!Sent, GivesUp

\* Where the handler goes from serving a request ...
LEMMA AfterServing ==
  ASSUME TypeInv, NEW c \in Conns
  PROVE  /\ Refuse(c) \/ Compare(c) => \/ GivesUp(c)
                                       \/ conn'[c].pc = "select" /\ SameRole(c) /\ SameTransfer(c)
         /\ Violation(c) \/ TakeDisconnect(c) => GivesUp(c)
         /\ TakeAck(c) => \/ GivesUp(c)
                          \/ conn'[c].pc = "select" /\ SameRole(c) /\ conn'[c].transfer = None
         /\ TakeHello(c) => conn'[c].pc = "closeOld" /\ SameRole(c) /\ SameTransfer(c)
         /\ SendFile(c) =>
              \/ GivesUp(c)
              \/ /\ conn'[c].pc = "select" /\ SameRole(c) /\ open[c]
                 /\ conn'[c].transfer = [kind |-> "DOWNLOAD", app |-> conn[c].request.app]
<1>1. DOMAIN conn = Conns /\ conn[c] \in S!Handlers
  BY ServerTypes DEF TypeInv
<1> DEFINE back == Server!Back(c)
           acked == [back EXCEPT !.transfer = None]
           sent == [back EXCEPT !.transfer = [kind |-> "DOWNLOAD", app |-> conn[c].request.app]]
<1>2. /\ back.pc = "select" /\ back.client = conn[c].client /\ back.transfer = conn[c].transfer
      /\ acked.pc = "select" /\ acked.client = conn[c].client /\ acked.transfer = None
      /\ sent.pc = "select" /\ sent.client = conn[c].client
      /\ sent.transfer = [kind |-> "DOWNLOAD", app |-> conn[c].request.app]
  BY <1>1 DEF Server!Back, S!Handlers
<1>3. /\ Refuse(c) => Server!Sent(c, back)
      /\ Compare(c) => Server!Sent(c, back) \/ Server!Goto(c, "cleanup")
      /\ Violation(c) \/ TakeDisconnect(c) => Server!Goto(c, "cleanup")
      /\ TakeAck(c) => Server!Sent(c, acked) \/ conn' = [conn EXCEPT ![c] = acked]
      /\ SendFile(c) => Server!Sent(c, sent)
  BY DEF Refuse, Compare, Violation, TakeDisconnect, TakeAck, SendFile, Server!Answer,
         Server!CheckUpdates, Server!Violation, Server!Disconnect, Server!AcceptAck, Server!Download
<1>4. TakeHello(c) => conn'[c].pc = "closeOld" /\ SameRole(c) /\ SameTransfer(c)
  BY <1>1 DEF TakeHello, Server!Hello, S!Handlers, SameRole, SameTransfer
<1> HIDE DEF back, acked, sent
<1>5. conn' = [conn EXCEPT ![c] = acked] => conn'[c] = acked
  BY <1>1
<1>6. QED
  BY <1>2, <1>3, <1>4, <1>5, SentOrNot DEF TypeInv, GivesUp, SameRole, SameTransfer

\* ... and from the other places in its loop.
LEMMA AfterWaiting ==
  ASSUME TypeInv, NEW c \in Conns
  PROVE  /\ Take(c) => conn[c].pc \in {"select", "recv"} /\ conn'[c].pc = "serve"
                       /\ SameRole(c) /\ SameTransfer(c)
         /\ Idle(c) => /\ conn[c].pc = "select" /\ conn'[c].pc = "idle" /\ SameRole(c)
                       /\ SameTransfer(c) /\ ~Server!Awaiting(c)
         /\ CloseOld(c) => /\ conn[c].pc = "closeOld" /\ conn'[c].pc = "welcome"
                           /\ SameRole(c) /\ SameTransfer(c)
         /\ Welcome(c) => /\ conn[c].pc = "welcome"
                          /\ \/ GivesUp(c)
                             \/ /\ conn'[c].pc = "select" /\ SameTransfer(c)
                                /\ conn'[c].client = conn[c].hello
         /\ Look(c) => conn[c].pc = "serve" /\ UNCHANGED conn
         /\ Pop(c) => /\ conn[c].pc = "idle" /\ SameRole(c) /\ SameTransfer(c)
                      /\ \/ conn'[c].pc = "select"
                         \/ /\ conn'[c].pc = "push" /\ pushes[conn[c].client] # <<>>
                            /\ conn'[c].task = Head(pushes[conn[c].client])
         /\ SendPush(c) => /\ conn[c].pc = "push"
                           /\ \/ GivesUp(c)
                              \/ /\ conn'[c].pc = "select" /\ SameRole(c) /\ open[c]
                                 /\ conn'[c].transfer = [kind |-> "PUSH_UPDATE",
                                                         app |-> conn[c].task.app]
         /\ End(c) => GivesUp(c) \/ (Server!Cleanup(c) /\ conn'[c] = Server!NoHandler)
<1>1. DOMAIN conn = Conns /\ conn[c] \in S!Handlers
  BY ServerTypes DEF TypeInv
<1> USE DEF SameRole, SameTransfer
<1>2. Take(c) => conn[c].pc \in {"select", "recv"} /\ conn'[c].pc = "serve"
              /\ SameRole(c) /\ SameTransfer(c)
  BY <1>1 DEF Take, Server!Receive, S!Handlers
<1>3. Idle(c) => /\ conn[c].pc = "select" /\ conn'[c].pc = "idle" /\ SameRole(c)
                 /\ SameTransfer(c) /\ ~Server!Awaiting(c)
  BY <1>1, SentOrNot DEF Idle, Server!Idle, TypeInv
<1>4. CloseOld(c) => /\ conn[c].pc = "closeOld" /\ conn'[c].pc = "welcome"
                     /\ SameRole(c) /\ SameTransfer(c)
  BY <1>1 DEF CloseOld, Server!CloseOld, S!Handlers
<1> DEFINE welcomed == [conn[c] EXCEPT !.pc = "select", !.client = conn[c].hello, !.hello = None]
           pushed == [conn[c] EXCEPT !.pc = "select", !.task = None,
                        !.transfer = [kind |-> "PUSH_UPDATE", app |-> conn[c].task.app]]
<1>5. /\ welcomed.pc = "select" /\ welcomed.client = conn[c].hello
      /\ welcomed.transfer = conn[c].transfer
      /\ pushed.pc = "select" /\ pushed.client = conn[c].client
      /\ pushed.transfer = [kind |-> "PUSH_UPDATE", app |-> conn[c].task.app]
  BY <1>1 DEF S!Handlers
<1>6. /\ Welcome(c) => conn[c].pc = "welcome" /\ Server!Sent(c, welcomed)
      /\ SendPush(c) => conn[c].pc = "push" /\ Server!Sent(c, pushed)
  BY DEF Welcome, SendPush, Server!Welcome, Server!SendPush
<1> HIDE DEF welcomed, pushed
<1>7. /\ Welcome(c) => /\ conn[c].pc = "welcome"
                       /\ \/ GivesUp(c)
                          \/ /\ conn'[c].pc = "select" /\ SameTransfer(c)
                             /\ conn'[c].client = conn[c].hello
      /\ SendPush(c) => /\ conn[c].pc = "push"
                        /\ \/ GivesUp(c)
                           \/ /\ conn'[c].pc = "select" /\ SameRole(c) /\ open[c]
                              /\ conn'[c].transfer = [kind |-> "PUSH_UPDATE",
                                                      app |-> conn[c].task.app]
  BY <1>5, <1>6, SentOrNot DEF TypeInv
<1>8. Look(c) => conn[c].pc = "serve" /\ UNCHANGED conn
  BY DEF Look, serverVars, Server!Serving
<1>9. Pop(c) => /\ conn[c].pc = "idle" /\ SameRole(c) /\ SameTransfer(c)
                /\ \/ conn'[c].pc = "select"
                   \/ /\ conn'[c].pc = "push" /\ pushes[conn[c].client] # <<>>
                      /\ conn'[c].task = Head(pushes[conn[c].client])
  <2>1. CASE pushes[conn[c].client] = <<>>
    BY <2>1, SentOrNot DEF Pop, Server!PopPush, TypeInv
  <2>2. CASE pushes[conn[c].client] # <<>>
    BY <1>1, <2>2 DEF Pop, Server!PopPush, S!Handlers
  <2>3. QED
    BY <2>1, <2>2
<1>10. End(c) => GivesUp(c) \/ (Server!Cleanup(c) /\ conn'[c] = Server!NoHandler)
  BY <1>1, SentOrNot DEF End, Server!Hangup, Server!AckTimeout, Server!Cleanup, GivesUp, TypeInv
<1>11. QED
  BY <1>2, <1>3, <1>4, <1>7, <1>8, <1>9, <1>10

\* No handler starts to greet but by reading a HELLO, and going on; none
\* forgets its connection but by the cleanup.
LEMMA GreetingSources ==
  ASSUME TypeInv, NEW c \in Conns, Handles(c)
  PROVE  /\ Greeting(c)' => TakeHello(c) \/ (Greeting(c) /\ CloseOld(c))
         /\ conn'[c].pc = "free" => Server!Cleanup(c)
         /\ conn'[c].pc # "free" => \/ SameRole(c)
                                    \/ Welcome(c) /\ conn'[c].client = conn[c].hello
<1>1. Greeting(c)' <=> conn'[c].pc \in {"closeOld", "welcome"}
  BY DEF Greeting
<1>2. GivesUp(c) => conn'[c].pc = "cleanup" /\ SameRole(c)
  BY DEF GivesUp
<1>3. CASE ServesOne(c)
  BY <1>1, <1>2, <1>3, AfterServing DEF ServesOne
<1>4. CASE KeepsStream(c)
  <2>1. Look(c) => conn'[c].pc = "serve" /\ SameRole(c)
    BY AfterWaiting DEF SameRole
  <2>2. CloseOld(c) => Greeting(c)
    BY AfterWaiting DEF Greeting
  <2>3. QED
    BY <1>1, <1>2, <1>4, <2>1, <2>2, AfterWaiting DEF KeepsStream
<1>5. CASE End(c)
  <2>1. Server!NoHandler.pc = "free"
    BY DEF Server!NoHandler
  <2>2. GivesUp(c) \/ (Server!Cleanup(c) /\ conn'[c].pc = "free")
    BY <1>5, <2>1, AfterWaiting
  <2>3. QED
    BY <1>1, <1>2, <2>2
<1>6. QED
  BY <1>3, <1>4, <1>5 DEF Handles

\* The dialogue goes on, whatever the step.
LEMMA DialogueKept ==
  ASSUME TypeInv, TalkInv, [Next]_vars, NEW c \in Conns
  PROVE  Dialogue(c)'
<1> USE DEF NoRequest, NoAnswer
<1>0. Phases /\ Dialogue(c) /\ Unused(c)
  BY DEF TalkInv
<1>1. ASSUME NEW d \in Conns, Handles(d), d # c PROVE Dialogue(c)'
  <2>1. UNCHANGED main /\ conn'[c] = conn[c] /\ up'[c] = up[c] /\ (main.conn = c => UNCHANGED down)
    BY <1>1, HandlerScope
  <2>2. QED
    BY <1>0, <2>1 DEF Dialogue, Greeting
<1>2. ASSUME Handles(c) PROVE Dialogue(c)'
  <2>1. UNCHANGED main
    BY <1>2, HandlerScope
  <2> SUFFICES ASSUME main.conn = c PROVE Dialogue(c)'
    BY <2>1 DEF Dialogue
  <2>2. CASE ServesOne(c)
    <3> DEFINE f == Now(c)
    <3>1. f = up[c][1] /\ 1 \in DOMAIN up[c] /\ conn[c].pc = "serve"
      BY <2>2, ServesHead
    <3>2. \A i \in DOMAIN up'[c] : i \in Nat /\ i + 1 \in DOMAIN up[c] /\ up'[c][i] = up[c][i + 1] /\ i # 0
      BY <2>2, ServedRest
    <3>3. \/ UNCHANGED down
          \/ \E g \in Frames : g.to = f.kind /\ down' = Append(down, g)
      <4>1. ~Welcome(c) /\ ~SendPush(c)
        BY <3>1, AfterWaiting
      <4>2. QED
        BY <1>2, <4>1, HandlerAnswers, AnswerKinds
    <3>4. Greeting(c)' => f.kind = "HELLO"
      <4>1. ~CloseOld(c)
        BY <3>1, AfterWaiting
      <4>2. TakeHello(c) => f.kind = "HELLO"
        BY <2>2, ServesHead DEF TakeHello, Server!Hello, Server!Serving
      <4>3. QED
        BY <1>2, <4>1, <4>2, GreetingSources
    <3> HIDE DEF f
    <3>5. CASE f.kind \in Kinds
      <4>1. main.waits = f.kind /\ NoAnswer /\ \A j \in DOMAIN up[c] : up[c][j].kind \in Kinds => j = 1
        BY <1>0, <3>1, <3>5 DEF Dialogue
      <4>2. NoRequest(c)'
        <5>1. \A i \in Nat : i # 0 => i + 1 # 1
          OBVIOUS
        <5>2. QED
          BY <3>2, <4>1, <5>1
      <4>3. CASE UNCHANGED down
        BY <2>1, <3>4, <4>1, <4>2, <4>3 DEF Dialogue
      <4>4. ASSUME NEW g \in Frames, g.to = f.kind, down' = Append(down, g)
            PROVE  Dialogue(c)'
        <5>1. ~Greeting(c)'
          <6>1. CASE TakeHello(c)
            <7>1. UNCHANGED down
              BY <6>1 DEF TakeHello
            <7>2. Len(down) \in Nat /\ 1..(Len(down) + 1) = 1..Len(down)
              BY <4>4, <7>1, SentLast
            <7>3. QED
              BY <7>2
          <6>2. ~CloseOld(c)
            BY <3>1, AfterWaiting
          <6>3. QED
            BY <1>2, <6>1, <6>2, GreetingSources
        <5>2. \A i \in DOMAIN down' : down'[i].to \in Kinds => down'[i].to = f.kind /\ i = Len(down) + 1
          BY <4>1, <4>4, SentLast
        <5>3. QED
          BY <2>1, <4>1, <4>2, <5>1, <5>2 DEF Dialogue
      <4>5. QED
        BY <3>3, <4>3, <4>4
    <3>6. CASE f.kind \notin Kinds
      <4>1. ~Greeting(c)'
        BY <3>4, <3>6 DEF Kinds
      <4>2. \A i \in DOMAIN down' : down'[i].to \in Kinds => i \in DOMAIN down /\ down'[i] = down[i]
        <5>1. CASE UNCHANGED down
          BY <5>1
        <5>2. ASSUME NEW g \in Frames, g.to = f.kind, down' = Append(down, g)
              PROVE  \A i \in DOMAIN down' : down'[i].to \in Kinds => i \in DOMAIN down /\ down'[i] = down[i]
          BY <3>6, <5>2, SentLast
        <5>3. QED
          BY <3>3, <5>1, <5>2
      <4>3. \A i, j \in DOMAIN up'[c] : up'[c][i].kind \in Kinds /\ up'[c][j].kind \in Kinds => i = j
        <5>1. \A i, j \in Nat : i + 1 = j + 1 => i = j
          OBVIOUS
        <5>2. QED
          BY <1>0, <3>2, <5>1 DEF Dialogue
      <4>4. QED
        BY <1>0, <2>1, <3>2, <4>1, <4>2, <4>3 DEF Dialogue
    <3>7. QED
      BY <3>5, <3>6
  <2>3. CASE KeepsStream(c)
    <3>1. UNCHANGED up
      BY <2>3, ServesNothing
    <3>2. \/ UNCHANGED down
          \/ \E g \in Frames :
               /\ down' = Append(down, g)
               /\ g.to = "PUSH_UPDATE" \/ (g.to = "HELLO" /\ Welcome(c))
      <4>1. ~ServesOne(c) \/ Look(c)
        <5>1. conn[c].pc = "serve" => Look(c)
          BY <2>3, AfterWaiting DEF KeepsStream
        <5>2. QED
          BY <5>1, ServesHead
      <4>2. Look(c) => UNCHANGED down
        BY DEF Look
      <4>3. QED
        BY <1>2, <4>1, <4>2, HandlerAnswers, AnswerKinds
    <3>3. Greeting(c)' => Greeting(c) /\ ~Welcome(c)
      <4>1. ~TakeHello(c) \/ Look(c)
        <5>1. conn[c].pc = "serve" => Look(c)
          BY <2>3, AfterWaiting DEF KeepsStream
        <5>2. TakeHello(c) => conn[c].pc = "serve"
          BY ServesHead DEF ServesOne
        <5>3. QED
          BY <5>1, <5>2
      <4>2. Look(c) => Greeting(c)' = Greeting(c)
        BY AfterWaiting DEF Greeting
      <4>3. Greeting(c)' => Greeting(c)
        BY <1>2, <4>1, <4>2, GreetingSources
      <4>4. Welcome(c) => ~Greeting(c)'
        BY AfterWaiting DEF Greeting, GivesUp
      <4>5. QED
        BY <4>3, <4>4
    <3>4. CASE UNCHANGED down
      BY <1>0, <2>1, <3>1, <3>3, <3>4 DEF Dialogue
    <3>5. ASSUME NEW g \in Frames, down' = Append(down, g), g.to = "PUSH_UPDATE"
          PROVE  Dialogue(c)'
      <4>1. \A i \in DOMAIN down' : down'[i].to \in Kinds => i \in DOMAIN down /\ down'[i] = down[i]
        BY <3>5, SentLast DEF Kinds
      <4>2. QED
        BY <1>0, <2>1, <3>1, <3>3, <4>1 DEF Dialogue
    <3>6. ASSUME NEW g \in Frames, down' = Append(down, g), g.to = "HELLO", Welcome(c)
          PROVE  Dialogue(c)'
      <4>1. Greeting(c)
        BY <3>6, AfterWaiting DEF Greeting
      <4>2. main.waits = "HELLO" /\ NoRequest(c) /\ NoAnswer
        BY <1>0, <4>1 DEF Dialogue
      <4>3. \A i \in DOMAIN down' : down'[i].to \in Kinds => down'[i].to = "HELLO" /\ i = Len(down) + 1
        BY <3>6, <4>2, SentLast
      <4>4. QED
        BY <2>1, <3>1, <3>3, <3>6, <4>2, <4>3 DEF Dialogue
    <3>7. QED
      BY <3>2, <3>4, <3>5, <3>6
  <2>4. CASE End(c)
    <3>1. up'[c] = <<>> /\ UNCHANGED down /\ ~Greeting(c)'
      BY <2>4, ServesNothing DEF Greeting
    <3>2. QED
      BY <1>0, <2>1, <3>1 DEF Dialogue
  <2>5. QED
    BY <1>2, <2>2, <2>3, <2>4 DEF Handles
<1>3. ASSUME NEW d \in Conns, Connect(d) PROVE Dialogue(c)'
  <2> SUFFICES ASSUME main'.conn = c PROVE Dialogue(c)'
    BY DEF Dialogue
  <2>1. c = d /\ up'[c] = <<>> /\ down' = <<>> /\ ~Greeting(c)'
    BY <1>0, <1>3, ConnectBegins DEF Unused, Phases, Greeting
  <2>2. QED
    BY <2>1 DEF Dialogue
<1>4. ASSUME NEW f \in Asks, AsksFor(f) PROVE Dialogue(c)'
  <2> SUFFICES ASSUME main.conn = c PROVE Dialogue(c)'
    BY <1>4 DEF AsksFor, Dialogue
  <2>1. ~Greeting(c) /\ NoRequest(c) /\ NoAnswer
    BY <1>4, NothingUnderWay DEF AsksFor
  <2>2. UNCHANGED <<down, conn>> /\ main'.waits = f.kind /\ Puts(f)
    BY <1>4 DEF AsksFor, Puts
  <2>3. \A i \in DOMAIN up'[c] : up'[c][i].kind \in Kinds => i = Len(up[c]) + 1 /\ up'[c][i] = f
    BY <2>1, <2>2, PutLast
  <2>4. QED
    BY <2>1, <2>2, <2>3 DEF Dialogue, Greeting
<1>5. CASE Listen
  <2> DEFINE f == Head(down)
  <2>1. /\ 1 \in DOMAIN down /\ f = down[1] /\ f \in Frames /\ Resume(f) /\ main'.conn = main.conn
        /\ UNCHANGED conn
    BY <1>5, ListenerTakes DEF serverVars
  <2>2. \A i \in DOMAIN down' : i \in Nat /\ i + 1 \in DOMAIN down /\ down'[i] = down[i + 1] /\ i # 0
    BY <1>5, ListenedRest
  <2>3. \A i \in DOMAIN up'[c] : up'[c][i].kind \in Kinds => i \in DOMAIN up[c] /\ up'[c][i] = up[c][i]
    <3>1. CASE UNCHANGED up
      BY <3>1
    <3>2. CASE Puts([kind |-> "ACK"])
      <4>1. [kind |-> "ACK"] \in Asks /\ [kind |-> "ACK"].kind = "ACK"
        BY DEF Asks
      <4>2. QED
        BY <3>2, <4>1, PutLast DEF Kinds, Puts
    <3>3. QED
      BY <1>5, <3>1, <3>2, ListenerTakes
  <2> HIDE DEF f
  <2> SUFFICES ASSUME main.conn = c PROVE Dialogue(c)'
    BY <2>1 DEF Dialogue
  <2>4. CASE f.to \in Kinds
    <3>1. /\ \A j \in DOMAIN down : down[j].to \in Kinds => j = 1
          /\ NoRequest(c) /\ ~Greeting(c)
      BY <1>0, <2>1, <2>4 DEF Dialogue
    <3>2. NoAnswer'
      <4>1. \A i \in Nat : i # 0 => i + 1 # 1
        OBVIOUS
      <4>2. QED
        BY <2>2, <3>1, <4>1
    <3>3. QED
      BY <2>1, <2>3, <3>1, <3>2 DEF Dialogue, Greeting
  <2>5. CASE f.to \notin Kinds
    <3>1. main' = main
      <4>1. main.waits \in Kinds \cup {None}
        BY DEF TypeInv, TypeOK, Kinds
      <4>2. f.to # main.waits
        BY <2>1, <2>5, <4>1, FrameKinds
      <4>3. QED
        BY <2>1, <4>2 DEF Resume
    <3>2. \A i, j \in DOMAIN down' : down'[i].to \in Kinds /\ down'[j].to \in Kinds => i = j
      <4>1. \A i, j \in Nat : i + 1 = j + 1 => i = j
        OBVIOUS
      <4>2. QED
        BY <1>0, <2>2, <4>1 DEF Dialogue
    <3>3. NoAnswer => NoAnswer'
      BY <2>2
    <3>4. QED
      BY <1>0, <2>1, <2>2, <2>3, <3>1, <3>2, <3>3 DEF Dialogue, Greeting
  <2>6. QED
    BY <2>4, <2>5
<1>6. CASE Quit
  <2>1. main'.conn # c
    BY <1>6, NamesAssumption DEF Quit, Off
  <2>2. QED
    BY <2>1 DEF Dialogue
<1>7. CASE Restart
  <2>1. up'[c] = <<>> /\ ~Greeting(c)' /\ UNCHANGED <<down, main>>
    BY <1>7, RestartClears DEF Greeting, Server!NoHandler
  <2>2. QED
    BY <1>0, <2>1 DEF Dialogue
<1>8. CASE Operate \/ Publish \/ UNCHANGED vars
  <2>1. UNCHANGED <<conn, up, down, main>>
    BY <1>8, Elsewhere
  <2>2. QED
    BY <1>0, <2>1 DEF Dialogue, Greeting
<1>9. QED
  BY <1>1, <1>2, <1>3, <1>4, <1>5, <1>6, <1>7, <1>8, StepsOfNext

\* What is not used stays so until it is accepted.
LEMMA UnusedKept ==
  ASSUME TypeInv, TalkInv, [Next]_vars, NEW c \in Conns
  PROVE  Unused(c)'
<1>0. Phases /\ Unused(c)
  BY DEF TalkInv
<1>1. ASSUME NEW d \in Conns, Handles(d), d # c PROVE Unused(c)'
  BY <1>0, <1>1, HandlerScope DEF Unused
<1>2. ASSUME Handles(c) PROVE Unused(c)'
  <2> SUFFICES ASSUME conn'[c].pc = "free" PROVE up'[c] = <<>> /\ ~open'[c]
    BY DEF Unused
  <2>1. Server!Cleanup(c)
    BY <1>2, GreetingSources
  <2>2. ~open'[c]
    BY <2>1 DEF Server!Cleanup, TypeInv, S!TypeInv, S!TypeOK
  <2>3. CASE ServesOne(c)
    <3>1. conn[c].pc = "serve" /\ conn[c].pc = "cleanup"
      BY <2>1, <2>3, ServesHead DEF Server!Cleanup
    <3>2. QED
      BY <3>1
  <2>4. ~KeepsStream(c)
    BY <2>1, AfterWaiting DEF KeepsStream, Server!Cleanup
  <2>5. End(c) => up'[c] = <<>>
    BY ServesNothing
  <2>6. QED
    BY <1>2, <2>2, <2>3, <2>4, <2>5 DEF Handles
<1>3. ASSUME NEW d \in Conns, Connect(d) PROVE Unused(c)'
  BY <1>0, <1>3, ConnectBegins DEF Unused
<1>4. ASSUME NEW f \in Asks, Puts(f) PROVE Unused(c)'
  <2>1. UNCHANGED <<conn, open>> /\ (main.conn # c => up'[c] = up[c]) /\ (main.conn = c => open[c])
    BY <1>4, PutLast DEF Puts
  <2>2. QED
    BY <1>0, <2>1 DEF Unused
<1>5. ASSUME UNCHANGED <<conn, open, up>> PROVE Unused(c)'
  BY <1>0, <1>5 DEF Unused
<1>6. CASE Listen
  BY <1>4, <1>5, <1>6, ListenerTakes DEF Asks, serverVars
<1>7. CASE Quit
  <2>1. [kind |-> "DISCONNECT"] \in Asks
    BY DEF Asks
  <2>2. UNCHANGED <<conn, open, up>> \/ Puts([kind |-> "DISCONNECT"])
    BY <1>7 DEF Quit, Puts, TypeInv, TypeOK, serverVars
  <2>3. QED
    BY <1>4, <1>5, <2>1, <2>2
<1>8. CASE Restart
  BY <1>8, RestartClears DEF Unused
<1>9. QED
  BY <1>1, <1>2, <1>3, <1>4, <1>5, <1>6, <1>7, <1>8, StepsOfNext, Elsewhere DEF AsksFor

\* One request at a time, for good.
LEMMA TalkSafe == Spec => []TalkInv
<1>1. TypeInv /\ TalkInv /\ [Next]_vars => TalkInv'
  BY PhasesKept, DialogueKept, UnusedKept DEF TalkInv
<1>2. QED
  BY <1>1, TalkInitially, TypeInvariant, PTL DEF Spec

-----------------------------------------------------------------------------
(* One transfer at a time.                                                  *)

\* The client has installed application a.
Has(a) == inst[a].version # 0

NoAck(c) == \A i \in DOMAIN up[c] : up[c][i].kind # "ACK"

\* While a file is on its way to the client or its ACK is on its way back, the
\* handler waits for that ACK, and pushes nothing.
Transferring(c) ==
  /\ conn[c].pc \in {"idle", "push"} => ~Server!Awaiting(c)
  /\ \A i \in DOMAIN up[c] : up[c][i].kind = "ACK" =>
       /\ conn[c].pc # "cleanup" => Server!Awaiting(c) /\ Has(conn[c].transfer.app)
       /\ \A j \in DOMAIN up[c] : up[c][j].kind = "ACK" => i = j
  /\ main.conn = c => \A i \in DOMAIN down : down[i].kind \in Files =>
       /\ NoAck(c)
       /\ conn[c].pc \notin {"cleanup", "free"} =>
            Server!Awaiting(c) /\ conn[c].transfer.app = down[i].app
       /\ \A j \in DOMAIN down : down[j].kind \in Files => i = j

TransferInv == \A c \in Conns : Transferring(c)

\* Initially there are no files and no ACKs.
LEMMA TransferInitially == Init => TransferInv
BY DEF Init, TransferInv, Transferring, Server!Init, Server!NoHandler

\* What the listener installs it has then, and has as the version announced.
LEMMA ListenerInstalls ==
  ASSUME TypeInv, NamedInv, Listen, Head(down).kind \in Files
  PROVE  LET f == Head(down)
         IN /\ f.app \in Apps /\ f.version \in Nat /\ f.version # 0
            /\ Intact(f) => inst'[f.app].version = f.version
            /\ ~Intact(f) => UNCHANGED inst
            /\ \A a \in Apps : a # f.app => inst'[a] = inst[a]
<1> DEFINE f == Head(down)
<1>1. f \in Frames /\ 1 \in DOMAIN down /\ f = down[1]
  BY ListenerTakes
<1>2. f.app \in Apps /\ f.version \in Versions /\ f.hash \in Server!Contents
  BY <1>1, FileTypes
<1>3. Carried(f.app, f.version, f.hash)
  BY <1>1 DEF Carried, FileOf
<1>4. f.version \in Server!Versions
  <2>1. f.hash \in 0..MaxContent
    BY <1>2, SizesAssumption DEF Server!Contents
  <2>2. QED
    BY <1>2, <1>3, <2>1 DEF NamedInv
<1>5. f.version \in Nat /\ f.version # 0
  BY <1>4, SizesAssumption DEF Server!Versions
<1>6. DOMAIN inst = Apps
  BY DEF TypeInv, TypeOK
<1>7. /\ Intact(f) => inst'[f.app].version = f.version
      /\ ~Intact(f) => UNCHANGED inst
      /\ \A a \in Apps : a # f.app => inst'[a] = inst[a]
  BY <1>2, <1>6 DEF Listen, Files
<1> HIDE DEF f
<1>8. QED
  BY <1>2, <1>5, <1>7 DEF f

\* What is installed stays installed.
LEMMA HasStays ==
  ASSUME TypeInv, NamedInv, [Next]_vars
  PROVE  \A a \in Apps : Has(a) => Has(a)'
<1>1. CASE UNCHANGED inst
  BY <1>1 DEF Has
<1>2. CASE Listen
  <2>1. CASE Head(down).kind \in Files
    BY <1>2, <2>1, ListenerInstalls DEF Has
  <2>2. CASE Head(down).kind \notin Files
    BY <1>2, <2>2, Installs DEF Has
  <2>3. QED
    BY <2>1, <2>2
<1>3. QED
  BY <1>1, <1>2, FrameSources

\* A file is sent when none is on its way and no ACK is awaited.
LEMMA FileSent ==
  ASSUME TypeInv, TransferInv, NEW c \in Conns, main.conn = c,
         NEW f, Answers(c, f), f.kind \in Files, conn'[c].pc # "cleanup"
  PROVE  /\ \A i \in DOMAIN down : down[i].kind \notin Files
         /\ NoAck(c) /\ conn[c].pc \in {"serve", "push"}
         /\ conn'[c].pc = "select" /\ Server!Awaiting(c)' /\ conn'[c].transfer.app = f.app
<1>1. \/ SendPush(c) /\ f.app = conn[c].task.app
      \/ SendFile(c) /\ f.app = Now(c).app
  BY AnswerKinds
<1>2. conn[c].pc \in {"serve", "push"} /\ ~Server!Awaiting(c)
  <2>1. CASE SendPush(c)
    BY <2>1, AfterWaiting DEF TransferInv, Transferring
  <2>2. CASE SendFile(c)
    BY <2>2 DEF SendFile, Server!Download, Server!Serving
  <2>3. QED
    BY <1>1, <2>1, <2>2
<1>3. (\A i \in DOMAIN down : down[i].kind \notin Files) /\ NoAck(c)
  BY <1>2 DEF TransferInv, Transferring, NoAck
<1>4. conn'[c].pc = "select"
      /\ \E kind \in {"DOWNLOAD", "PUSH_UPDATE"} : conn'[c].transfer = [kind |-> kind, app |-> f.app]
  <2>1. CASE SendPush(c)
    <3>1. ~SendFile(c)
      BY <2>1, AfterWaiting, ServesHead DEF ServesOne
    <3>2. QED
      BY <1>1, <2>1, <3>1, AfterWaiting DEF GivesUp
  <2>2. CASE SendFile(c)
    <3>1. conn[c].request.app = Now(c).app
      <4>1. conn[c].request = Request(Now(c)) /\ Now(c).kind = "DOWNLOAD"
        BY <2>2, ServesHead DEF ServesOne, SendFile, Server!Download, Server!Serving
      <4>2. QED
        BY <4>1 DEF Request
    <3>2. f.app = Now(c).app
      <4>1. ~SendPush(c)
        BY <2>2, AfterWaiting, ServesHead DEF ServesOne
      <4>2. QED
        BY <1>1, <4>1
    <3>3. QED
      BY <2>2, <3>1, <3>2, AfterServing DEF GivesUp
  <2>3. QED
    BY <1>1, <2>1, <2>2
<1>5. f.app \in Apps
  <2>1. SendPush(c) => conn[c].task.app \in Apps
    BY AfterWaiting, ServerTypes DEF TypeInv
  <2>2. SendFile(c) => Now(c).app \in Apps
    BY ServesHead, AskTypes DEF ServesOne, SendFile, Server!Download, Server!Serving
  <2>3. QED
    BY <1>1, <2>1, <2>2
<1>6. QED
  BY <1>2, <1>3, <1>4, <1>5, NamesAssumption DEF Server!Awaiting

\* Whatever else a handler does sends no file.
LEMMA NoFileSent ==
  ASSUME TypeInv, [Next]_vars, NEW c \in Conns, Handles(c)
  PROVE  \/ \A i \in DOMAIN down' : down'[i].kind \in Files => i \in DOMAIN down /\ down'[i] = down[i]
         \/ /\ main.conn = c
            /\ \E f \in Frames : /\ Answers(c, f) /\ f.kind \in Files /\ down' = Append(down, f)
                                 /\ conn'[c].pc # "cleanup"
<1>1. CASE UNCHANGED down
  BY <1>1
<1>2. ASSUME main.conn = c, NEW f \in Frames, Answers(c, f), down' = Append(down, f),
             Violation(c) \/ conn'[c].pc # "cleanup"
      PROVE  \/ \A i \in DOMAIN down' :
                   down'[i].kind \in Files => i \in DOMAIN down /\ down'[i] = down[i]
             \/ Answers(c, f) /\ f.kind \in Files /\ down' = Append(down, f) /\ conn'[c].pc # "cleanup"
  <2>1. CASE f.kind \notin Files
    BY <1>2, <2>1, SentLast
  <2>2. CASE f.kind \in Files
    <3>1. SendPush(c) \/ SendFile(c)
      BY <1>2, <2>2, AnswerKinds
    <3>2. CASE Violation(c)
      <4>1. conn[c].pc = "serve" /\ Server!Awaiting(c)
        BY <3>2, ServesHead DEF ServesOne, Violation, Server!Violation
      <4>2. ~SendPush(c)
        BY <4>1, AfterWaiting
      <4>3. ~SendFile(c)
        BY <4>1 DEF SendFile, Server!Download
      <4>4. QED
        BY <3>1, <4>2, <4>3
    <3>3. QED
      BY <1>2, <2>2, <3>2
  <2>3. QED
    BY <2>1, <2>2
<1>3. QED
  BY <1>1, <1>2, HandlerAnswers

\* One transfer at a time, whatever the step.
LEMMA TransferringKept ==
  ASSUME TypeInv, NamedInv, TalkInv, TransferInv, [Next]_vars, NEW c \in Conns
  PROVE  Transferring(c)'
<1> USE DEF NoAck
<1>0. Transferring(c) /\ Phases /\ Unused(c)
  BY DEF TransferInv, TalkInv
<1>a. /\ conn[c].transfer # None => conn[c].transfer.app \in Apps
      /\ \A a \in Apps : Has(a) => Has(a)'
  <2>1. conn[c] \in S!Handlers
    BY ServerTypes DEF TypeInv
  <2>2. QED
    BY <2>1, HasStays DEF S!Handlers, S!Transfers
<1>1. ASSUME NEW d \in Conns, Handles(d), d # c PROVE Transferring(c)'
  <2>1. UNCHANGED <<main, inst>> /\ conn'[c] = conn[c] /\ up'[c] = up[c]
        /\ (main.conn = c => UNCHANGED down)
    BY <1>1, HandlerScope
  <2>2. QED
    BY <1>0, <2>1 DEF Transferring, Server!Awaiting, Has
<1>2. ASSUME Handles(c) PROVE Transferring(c)'
  <2>1. UNCHANGED <<main, inst>>
    BY <1>2, HandlerScope
  <2> DEFINE NoNew == \A i \in DOMAIN down' :
                        down'[i].kind \in Files => i \in DOMAIN down /\ down'[i] = down[i]
  <2>2. ASSUME main.conn = c, NEW f \in Frames, Answers(c, f), f.kind \in Files,
               down' = Append(down, f), conn'[c].pc # "cleanup"
        PROVE  Transferring(c)'
    <3>1. /\ \A i \in DOMAIN down : down[i].kind \notin Files
          /\ NoAck(c) /\ conn[c].pc \in {"serve", "push"}
          /\ conn'[c].pc = "select" /\ Server!Awaiting(c)' /\ conn'[c].transfer.app = f.app
      BY <2>2, FileSent
    <3>2. NoAck(c)'
      <4>1. CASE ServesOne(c)
        BY <3>1, <4>1, ServedRest
      <4>2. CASE KeepsStream(c)
        BY <3>1, <4>2, ServesNothing
      <4>3. CASE End(c)
        BY <4>3, ServesNothing
      <4>4. QED
        BY <1>2, <4>1, <4>2, <4>3 DEF Handles
    <3>3. \A i \in DOMAIN down' : down'[i].kind \in Files => i = Len(down) + 1 /\ down'[i] = f
      BY <2>2, <3>1, SentLast
    <3>4. QED
      BY <3>1, <3>2, <3>3 DEF Transferring
  <2>3. CASE NoNew
    <3>1. ASSUME NEW i \in DOMAIN up[c], up[c][i].kind = "ACK"
          PROVE  /\ conn[c].pc # "cleanup" => Server!Awaiting(c) /\ Has(conn[c].transfer.app)
                 /\ \A j \in DOMAIN up[c] : up[c][j].kind = "ACK" => i = j
      BY <1>0, <3>1 DEF Transferring
    <3>2. CASE ServesOne(c) /\ ~TakeAck(c) /\ ~SendFile(c)
      <4>1. /\ conn[c].pc = "serve" /\ \A i \in DOMAIN up'[c] : i \in Nat /\ i + 1 \in DOMAIN up[c] /\ up'[c][i] = up[c][i + 1]
            /\ GivesUp(c) \/ (conn'[c].pc \in {"select", "closeOld"} /\ SameTransfer(c))
        BY <3>2, ServesHead, ServedRest, AfterServing DEF ServesOne
      <4>2. \A i, j \in Nat : i + 1 = j + 1 => i = j
        OBVIOUS
      <4>3. QED
        BY <1>0, <2>1, <2>3, <4>1, <4>2
        DEF Transferring, GivesUp, SameTransfer, Server!Awaiting, Has
    <3>3. CASE TakeAck(c)
      <4>1. /\ 1 \in DOMAIN up[c] /\ up[c][1].kind = "ACK" /\ conn[c].pc = "serve"
            /\ \A i \in DOMAIN up'[c] : i \in Nat /\ i # 0 /\ i + 1 \in DOMAIN up[c] /\ up'[c][i] = up[c][i + 1]
        BY <3>3, ServesHead, ServedRest DEF ServesOne, TakeAck, Server!AcceptAck, Server!Serving
      <4>2. NoAck(c)'
        <5>1. \A i \in Nat : i # 0 => i + 1 # 1
          OBVIOUS
        <5>2. QED
          BY <3>1, <4>1, <5>1
      <4>3. main.conn = c => \A i \in DOMAIN down : down[i].kind \notin Files
        BY <1>0, <4>1 DEF Transferring
      <4>4. UNCHANGED down /\ conn'[c].pc \in {"select", "cleanup"}
        BY <3>3, AfterServing DEF GivesUp, TakeAck
      <4>5. QED
        BY <2>1, <4>2, <4>3, <4>4 DEF Transferring
    <3>4. CASE SendFile(c)
      <4>1. /\ conn[c].pc = "serve" /\ ~Server!Awaiting(c)
            /\ \A i \in DOMAIN up'[c] : i \in Nat /\ i + 1 \in DOMAIN up[c] /\ up'[c][i] = up[c][i + 1]
        BY <3>4, ServesHead, ServedRest DEF ServesOne, SendFile, Server!Download
      <4>2. NoAck(c)'
        BY <3>1, <4>1
      <4>3. main.conn = c => \A i \in DOMAIN down' : down'[i].kind \notin Files
        BY <1>0, <2>3, <4>1 DEF Transferring
      <4>4. conn'[c].pc \in {"select", "cleanup"}
        BY <3>4, AfterServing DEF GivesUp
      <4>5. QED
        BY <2>1, <4>2, <4>3, <4>4 DEF Transferring
    <3>5. CASE KeepsStream(c) /\ ~SendPush(c)
      <4>1. /\ UNCHANGED up /\ (SameTransfer(c) \/ GivesUp(c))
            /\ conn'[c].pc \in {"idle", "push"} => ~Server!Awaiting(c)
            /\ conn[c].pc \in {"select", "recv", "serve", "idle", "closeOld", "welcome"}
        <5>1. Pop(c) => ~Server!Awaiting(c)
          BY <1>0, AfterWaiting DEF Transferring
        <5>2. Look(c) => SameTransfer(c) /\ conn'[c].pc = "serve"
          BY AfterWaiting DEF SameTransfer
        <5>3. QED
          BY <3>5, <5>1, <5>2, ServesNothing, AfterWaiting DEF KeepsStream, GivesUp
      <4>2. SameTransfer(c)
        BY <4>1 DEF GivesUp
      <4>3. conn'[c].pc \in {"idle", "push"} => ~Server!Awaiting(c)'
        BY <4>1, <4>2 DEF SameTransfer, Server!Awaiting
      <4>4. conn[c].pc \notin {"cleanup", "free"} /\ up'[c] = up[c]
        BY <4>1
      <4>5. QED
        BY <1>0, <2>1, <2>3, <4>2, <4>3, <4>4
        DEF Transferring, SameTransfer, Server!Awaiting, Has
    <3>6. CASE SendPush(c)
      <4>1. conn[c].pc = "push" /\ UNCHANGED up /\ conn'[c].pc \in {"select", "cleanup"}
        BY <3>6, AfterWaiting, ServesNothing DEF KeepsStream, GivesUp
      <4>2. NoAck(c)' /\ (main.conn = c => \A i \in DOMAIN down' : down'[i].kind \notin Files)
        BY <1>0, <2>3, <3>1, <4>1 DEF Transferring
      <4>3. QED
        BY <2>1, <4>1, <4>2 DEF Transferring
    <3>7. CASE End(c)
      <4>1. up'[c] = <<>> /\ UNCHANGED down /\ conn'[c].pc \in {"cleanup", "free"}
        BY <3>7, ServesNothing
      <4>2. QED
        BY <1>0, <2>1, <4>1 DEF Transferring
    <3>8. QED
      BY <1>2, <3>2, <3>3, <3>4, <3>5, <3>6, <3>7 DEF Handles, ServesOne
  <2>4. QED
    BY <1>2, <2>2, <2>3, NoFileSent
<1>3. ASSUME NEW d \in Conns, Connect(d) PROVE Transferring(c)'
  <2>1. UNCHANGED <<up, inst>> /\ main'.conn = d /\ down' = <<>>
    BY <1>0, <1>3, ConnectBegins DEF Phases
  <2>2. CASE c = d
    <3>1. up'[c] = <<>> /\ conn'[c].pc = "select"
      BY <1>0, <1>3, <2>2, ConnectBegins DEF Unused
    <3>2. QED
      BY <2>1, <3>1 DEF Transferring
  <2>3. CASE c # d
    <3>1. conn'[c] = conn[c]
      BY <1>3, <2>3, ConnectBegins
    <3>2. QED
      BY <1>0, <2>1, <2>3, <3>1 DEF Transferring, Server!Awaiting, Has
  <2>4. QED
    BY <2>2, <2>3
<1>4. ASSUME NEW f \in Asks, Puts(f), f.kind # "ACK", UNCHANGED inst,
             main'.conn \in {main.conn, None},
             main'.conn = main.conn => UNCHANGED down
      PROVE  Transferring(c)'
  <2>1. \A i \in DOMAIN up'[c] : up'[c][i].kind = "ACK" => i \in DOMAIN up[c] /\ up'[c][i] = up[c][i]
    BY <1>4, PutLast
  <2>2. UNCHANGED conn /\ (main'.conn = c => main.conn = c)
    BY <1>4, NamesAssumption DEF Puts
  <2>3. QED
    BY <1>0, <1>4, <2>1, <2>2 DEF Transferring, Server!Awaiting, Has
<1>5. CASE Listen
  <2> DEFINE f == Head(down)
  <2>1. /\ 1 \in DOMAIN down /\ f = down[1] /\ main'.conn = main.conn /\ UNCHANGED <<conn, open>>
        /\ \A i \in DOMAIN down' : i \in Nat /\ i # 0 /\ i + 1 \in DOMAIN down /\ down'[i] = down[i + 1]
    BY <1>5, ListenerTakes, ListenedRest DEF serverVars
  <2>2. \A i, j \in Nat : i + 1 = j + 1 => i = j
    OBVIOUS
  <2>3. CASE up'[c] = up[c]
    BY <1>0, <1>a, <2>1, <2>2, <2>3 DEF Transferring, Server!Awaiting
  <2>4. CASE up'[c] # up[c]
    <3>1. Puts([kind |-> "ACK"]) /\ f.kind \in Files /\ Intact(f)
      BY <1>5, <2>4, ListenerTakes
    <3>2. [kind |-> "ACK"] \in Asks
      BY DEF Asks
    <3>3. main.conn = c /\ open[c]
      BY <2>4, <3>1, <3>2, PutLast DEF Puts
    <3>4. /\ NoAck(c) /\ \A j \in DOMAIN down : down[j].kind \in Files => j = 1
          /\ conn[c].pc \notin {"cleanup", "free"} => Server!Awaiting(c) /\ conn[c].transfer.app = f.app
      BY <1>0, <2>1, <3>1, <3>3 DEF Transferring
    <3>5. conn[c].pc # "free"
      BY <1>0, <3>3 DEF Unused
    <3>6. \A i \in DOMAIN down' : down'[i].kind \notin Files
      <4>1. \A i \in Nat : i # 0 => i + 1 # 1
        OBVIOUS
      <4>2. QED
        BY <2>1, <3>4, <4>1
    <3>7. \A i \in DOMAIN up'[c] : up'[c][i].kind = "ACK" => i = Len(up[c]) + 1
      BY <3>1, <3>2, <3>3, <3>4, PutLast
    <3>8. inst'[f.app].version # 0
      BY <1>5, <3>1, ListenerInstalls
    <3> HIDE DEF f
    <3>9. QED
      BY <1>0, <2>1, <3>4, <3>5, <3>6, <3>7, <3>8 DEF Transferring, Server!Awaiting, Has
  <2>5. QED
    BY <2>3, <2>4
<1>6. CASE Quit
  <2>1. UNCHANGED <<conn, inst>> /\ main'.conn = None
    BY <1>6 DEF Quit, Off, serverVars
  <2>2. [kind |-> "DISCONNECT"] \in Asks
    BY DEF Asks
  <2>3. UNCHANGED up \/ Puts([kind |-> "DISCONNECT"])
    BY <1>6 DEF Quit, Puts, TypeInv, TypeOK, serverVars
  <2>4. CASE UNCHANGED up
    BY <1>0, <2>1, <2>4, NamesAssumption DEF Transferring, Server!Awaiting, Has
  <2>5. CASE Puts([kind |-> "DISCONNECT"])
    BY <1>4, <2>1, <2>2, <2>5, NamesAssumption DEF Puts
  <2>6. QED
    BY <2>3, <2>4, <2>5
<1>7. CASE Restart
  <2>1. up'[c] = <<>> /\ UNCHANGED <<main, down>> /\ conn'[c].pc = "free"
    BY <1>7, RestartClears DEF Server!NoHandler
  <2>2. QED
    BY <1>0, <2>1 DEF Transferring
<1>8. CASE Operate \/ Publish \/ UNCHANGED vars
  <2>1. UNCHANGED <<conn, up, down, main, inst>>
    BY <1>8, Elsewhere
  <2>2. QED
    BY <1>0, <2>1 DEF Transferring, Server!Awaiting, Has
<1>9. ASSUME NEW f \in Asks, AsksFor(f) PROVE Transferring(c)'
  BY <1>4, <1>9 DEF AsksFor, Kinds
<1>10. QED
  BY <1>1, <1>2, <1>3, <1>5, <1>6, <1>7, <1>8, <1>9, StepsOfNext

\* One transfer at a time, for good.
LEMMA TransferSafe == Spec => []TransferInv
<1>1. TypeInv /\ NamedInv /\ TalkInv /\ TransferInv /\ [Next]_vars => TransferInv'
  BY TransferringKept DEF TransferInv
<1>2. QED
  BY <1>1, TransferInitially, TypeInvariant, NamedSafe, TalkSafe, PTL DEF Spec

-----------------------------------------------------------------------------
(* What the server knows the client has.                                    *)

\* Every frame to a handler was in its stream before, or the client has just
\* put it there.
LEMMA StreamSources ==
  ASSUME TypeInv, [Next]_vars, NEW c \in Conns, NEW i \in DOMAIN up'[c]
  PROVE  \/ \E j \in DOMAIN up[c] : up'[c][i] = up[c][j]
         \/ main.conn = c /\ AsksFor(up'[c][i])
         \/ up'[c][i].kind \in {"ACK", "DISCONNECT"}
<1>1. CASE up'[c] = up[c]
  BY <1>1
<1>2. ASSUME NEW f \in Asks, Puts(f)
      PROVE  \/ \E j \in DOMAIN up[c] : up'[c][i] = up[c][j]
             \/ main.conn = c /\ up'[c][i] = f
  BY <1>1, <1>2, PutLast
<1>3. ASSUME NEW f \in Asks, AsksFor(f)
      PROVE  (\E j \in DOMAIN up[c] : up'[c][i] = up[c][j]) \/ (main.conn = c /\ AsksFor(up'[c][i]))
  <2>1. Puts(f)
    BY <1>3 DEF AsksFor
  <2>2. QED
    BY <1>2, <1>3, <2>1
<1>4. CASE Listen
  <2>1. [kind |-> "ACK"] \in Asks /\ [kind |-> "ACK"].kind = "ACK"
    BY DEF Asks
  <2>2. QED
    BY <1>1, <1>2, <1>4, <2>1, ListenerTakes
<1>5. CASE Quit
  <2>1. [kind |-> "DISCONNECT"] \in Asks /\ [kind |-> "DISCONNECT"].kind = "DISCONNECT"
    BY DEF Asks
  <2>2. UNCHANGED up \/ Puts([kind |-> "DISCONNECT"])
    BY <1>5 DEF Quit, Puts, TypeInv, TypeOK, serverVars
  <2>3. QED
    BY <1>1, <1>2, <2>1, <2>2
<1>6. ASSUME NEW d \in Conns, Handles(d) PROVE \E j \in DOMAIN up[c] : up'[c][i] = up[c][j]
  <2>1. CASE d # c
    BY <1>1, <1>6, <2>1, HandlerScope
  <2>2. CASE d = c
    <3>1. CASE ServesOne(c)
      BY <3>1, ServedRest
    <3>2. CASE KeepsStream(c)
      BY <1>1, <3>2, ServesNothing
    <3>3. CASE End(c)
      <4>1. up'[c] = <<>>
        BY <3>3, ServesNothing
      <4>2. QED
        BY <4>1
    <3>4. QED
      BY <1>6, <2>2, <3>1, <3>2, <3>3 DEF Handles
  <2>3. QED
    BY <2>1, <2>2
<1>7. CASE Restart
  <2>1. up'[c] = <<>>
    BY <1>7, RestartClears
  <2>2. QED
    BY <2>1
<1>8. QED
  BY <1>1, <1>3, <1>4, <1>5, <1>6, <1>7, StepsOfNext, ConnectBegins, Elsewhere

\* Every frame to the client was on its way before, or has just been sent by
\* the handler of its connection.
LEMMA DownSources ==
  ASSUME TypeInv, [Next]_vars, NEW i \in DOMAIN down'
  PROVE  \/ \E j \in DOMAIN down : down'[i] = down[j]
         \/ \E c \in Conns : /\ Handles(c) /\ main.conn = c /\ UNCHANGED <<main, inst>>
                             /\ Answers(c, down'[i]) /\ down'[i] \in Frames
<1>1. CASE UNCHANGED down
  BY <1>1
<1>2. ASSUME NEW c \in Conns, Handles(c)
      PROVE  \/ \E j \in DOMAIN down : down'[i] = down[j]
             \/ /\ main.conn = c /\ UNCHANGED <<main, inst>>
                /\ Answers(c, down'[i]) /\ down'[i] \in Frames
  BY <1>1, <1>2, HandlerAnswers, SentLast, HandlerScope
<1>3. CASE Listen
  BY <1>3, ListenedRest
<1>4. CASE Quit
  <2>1. down' = <<>>
    BY <1>4 DEF Quit
  <2>2. QED
    BY <2>1
<1>5. QED
  BY <1>1, <1>2, <1>3, <1>4, StepsOfNext, ConnectBegins, Elsewhere DEF AsksFor, Restart

\* What is registered as downloaded was so before, or has just been
\* acknowledged, or is in what a client says it has.
LEMMA DownloadSources ==
  ASSUME TypeInv, [Next]_vars, NEW a \in downloads'[Client] \cup registry'[Client]
  PROVE  \/ a \in downloads[Client] \cup registry[Client]
         \/ \E c \in Conns : TakeAck(c) /\ Server!Awaiting(c) /\ a = conn[c].transfer.app
         \/ \E c \in Conns : Compare(c) /\ a \in conn[c].request.known
<1>1. DOMAIN downloads = {Client} /\ DOMAIN registry = {Client}
  BY DEF TypeInv, S!TypeInv, S!TypeOK
<1>2. CASE UNCHANGED <<downloads, registry>>
  BY <1>2
<1>3. ASSUME NEW c \in Conns, TakeAck(c)
      PROVE  \/ a \in downloads[Client] \cup registry[Client]
             \/ Server!Awaiting(c) /\ a = conn[c].transfer.app
  BY <1>1, <1>3 DEF TakeAck, Server!AcceptAck
<1>4. ASSUME NEW c \in Conns, Compare(c)
      PROVE  a \in downloads[Client] \cup registry[Client] \/ a \in conn[c].request.known
  BY <1>1, <1>4 DEF Compare, Server!CheckUpdates
<1>5. ASSUME NEW c \in Conns, Handles(c), ~TakeAck(c), ~Compare(c)
      PROVE  UNCHANGED <<downloads, registry>>
  <2>1. CASE ServesOne(c)
    BY <1>5, <2>1
    DEF ServesOne, Refuse, Violation, TakeHello, SendFile, TakeDisconnect, Server!Answer,
        Server!Violation, Server!Hello, Server!Download, Server!Disconnect, Server!disk
  <2>2. CASE KeepsStream(c)
    BY <2>2
    DEF KeepsStream, Take, Idle, CloseOld, Welcome, Look, Pop, SendPush, serverVars, Server!disk,
        Server!Receive, Server!Idle, Server!CloseOld, Server!Welcome, Server!PopPush, Server!SendPush
  <2>3. CASE End(c)
    BY <2>3 DEF End, Server!Hangup, Server!AckTimeout, Server!Cleanup, Server!disk
  <2>4. QED
    BY <1>5, <2>1, <2>2, <2>3 DEF Handles
<1>6. ASSUME NEW c \in Conns, Connect(c) PROVE UNCHANGED <<downloads, registry>>
  BY <1>6 DEF Connect, Server!Accept, Server!disk
<1>7. CASE Restart
  BY <1>7 DEF Restart, Server!Restart
<1>8. CASE (\E f \in Asks : AsksFor(f)) \/ Listen \/ Quit
  BY <1>8 DEF AsksFor, Listen, Quit, serverVars
<1>9. CASE Operate \/ Publish \/ UNCHANGED vars
  BY <1>9, Elsewhere
<1>10. QED
  BY <1>2, <1>3, <1>4, <1>5, <1>6, <1>7, <1>8, <1>9, StepsOfNext

\* Only what the client has is registered as downloaded, and pushed; and it has
\* what it says it has.
InstalledInv ==
  /\ \A a \in downloads[Client] \cup registry[Client] : Has(a)
  /\ \A c \in Conns : conn[c].pc = "push" => Has(conn[c].task.app)
  /\ \A i \in DOMAIN down :
       down[i].kind \in Files /\ down[i].to = "PUSH_UPDATE" => Has(down[i].app)
  /\ \A c \in Conns : \A i \in DOMAIN up[c] : up[c][i].kind = "CHECK_UPDATES" =>
       \A a \in Apps : up[c][i].versions[a] # 0 => Has(a)

\* Initially nothing is registered, pushed or said.
LEMMA InstalledInitially == Init => InstalledInv
BY DEF Init, InstalledInv, Server!Init, Server!NoHandler

\* It stays so: an ACK is only sent of what has been installed.
LEMMA InstalledKept ==
  ASSUME TypeInv, NamedInv, S!QueueInv, TransferInv, InstalledInv, [Next]_vars
  PROVE  InstalledInv'
<1>0. \A a \in Apps : Has(a) => Has(a)'
  BY HasStays
<1>1. ASSUME NEW a \in downloads'[Client] \cup registry'[Client] PROVE Has(a)'
  <2>0. TypeInv'
    BY TypeKept
  <2>1. a \in Apps
    BY <2>0 DEF TypeInv, S!TypeInv, S!TypeOK
  <2>2. CASE a \in downloads[Client] \cup registry[Client]
    BY <1>0, <2>1, <2>2 DEF InstalledInv
  <2>3. ASSUME NEW c \in Conns, TakeAck(c), Server!Awaiting(c), a = conn[c].transfer.app
        PROVE  Has(a)
    <3>1. 1 \in DOMAIN up[c] /\ up[c][1].kind = "ACK" /\ conn[c].pc = "serve"
      BY <2>3, ServesHead DEF ServesOne, TakeAck, Server!AcceptAck, Server!Serving
    <3>2. QED
      BY <2>3, <3>1 DEF TransferInv, Transferring
  <2>4. ASSUME NEW c \in Conns, Compare(c), a \in conn[c].request.known PROVE Has(a)
    <3>1. /\ 1 \in DOMAIN up[c] /\ Now(c) = up[c][1] /\ Now(c).kind = "CHECK_UPDATES"
          /\ conn[c].request = Request(Now(c))
      BY <2>4, ServesHead DEF ServesOne, Compare, Server!CheckUpdates, Server!Serving
    <3>2. Now(c).versions[a] # 0
      BY <2>4, <3>1 DEF Request
    <3>3. QED
      BY <2>1, <3>1, <3>2 DEF InstalledInv
  <2>5. QED
    BY <1>0, <2>1, <2>2, <2>3, <2>4, DownloadSources
<1>2. ASSUME NEW c \in Conns, conn'[c].pc = "push" PROVE Has(conn[c].task.app)'
  <2>0. TypeInv'
    BY TypeKept
  <2>1. conn'[c].task.app \in Apps
    <3>1. S!TypeInv' /\ S!Tasks = Server!Tasks
      BY <2>0, SameSets DEF TypeInv
    <3>2. conn'[c].task \in S!Tasks
      BY <1>2, <3>1 DEF S!TypeInv, S!Control, S!Placed
    <3>3. QED
      BY <3>2 DEF S!Tasks
  <2>2. CASE conn'[c] = conn[c]
    <3>1. Has(conn[c].task.app)
      BY <1>2, <2>2 DEF InstalledInv
    <3>2. QED
      BY <1>0, <2>1, <2>2, <3>1 DEF Has
  <2>3. CASE pushes[Client] # <<>> /\ conn'[c].task = Head(pushes[Client])
    <3>1. pushes[Client] \in Seq(Server!Tasks)
      BY ServerTypes DEF TypeInv
    <3>2. 1 \in DOMAIN pushes[Client] /\ conn'[c].task = pushes[Client][1]
      BY <2>3, <3>1, Elements
    <3>3. conn'[c].task.app \in downloads[Client]
      BY <3>2 DEF S!QueueInv, S!Due
    <3>4. QED
      BY <1>0, <2>1, <3>3 DEF InstalledInv, Has
  <2>4. QED
    BY <1>2, <2>2, <2>3, TaskSources
<1>3. ASSUME NEW i \in DOMAIN down', down'[i].kind \in Files, down'[i].to = "PUSH_UPDATE"
      PROVE  Has(down[i].app)'
  <2> DEFINE a == down'[i].app
  <2>1. a \in Apps
    <3>1. TypeInv'
      BY TypeKept
    <3>2. down'[i] \in Frames
      BY <3>1 DEF TypeInv, TypeOK
    <3>3. QED
      BY <1>3, <3>2, FileTypes
  <2>2. Has(a)
    <3>1. CASE \E j \in DOMAIN down : down'[i] = down[j]
      BY <1>3, <3>1 DEF InstalledInv
    <3>2. ASSUME NEW c \in Conns, Answers(c, down'[i]) PROVE Has(a)
      BY <1>3, <3>2, AnswerKinds, AfterWaiting DEF InstalledInv
    <3>3. QED
      BY <3>1, <3>2, DownSources
  <2> HIDE DEF a
  <2>3. inst'[a].version # 0
    BY <1>0, <2>1, <2>2 DEF Has
  <2>4. QED
    BY <2>3 DEF Has, a
<1>4. ASSUME NEW c \in Conns, NEW i \in DOMAIN up'[c], up'[c][i].kind = "CHECK_UPDATES",
             NEW a \in Apps, up'[c][i].versions[a] # 0
      PROVE  Has(a)'
  <2>1. CASE \E j \in DOMAIN up[c] : up'[c][i] = up[c][j]
    BY <1>0, <1>4, <2>1 DEF InstalledInv
  <2>2. CASE AsksFor(up'[c][i])
    <3>1. Has(a)
      BY <1>4, <2>2 DEF AsksFor, Has
    <3>2. QED
      BY <1>0, <3>1
  <2>3. QED
    BY <1>4, <2>1, <2>2, StreamSources
<1>5. QED
  BY <1>1, <1>2, <1>3, <1>4 DEF InstalledInv

\* The server knows only of what the client has.
LEMMA InstalledSafe == Spec => []InstalledInv
<1>1. Spec => []S!QueueInv
  BY ServerRuns, ServerAssumptions, S!QueueSafe, PTL
<1>2. QED
  BY <1>1, InstalledInitially, InstalledKept, TypeInvariant, NamedSafe, TransferSafe, PTL DEF Spec

\* A CHECK_UPDATES on its way says what the client has: as the newest version it
\* has had, and all of it.
Fresh(c) ==
  main.conn = c => \A i \in DOMAIN up[c] : up[c][i].kind = "CHECK_UPDATES" =>
    \A a \in Apps : /\ faults = 0 => up[c][i].versions[a] <= inst[a].version
                    /\ Has(a) => up[c][i].versions[a] # 0

FreshInv == \A c \in Conns : Fresh(c)

\* Initially there is none.
LEMMA FreshInitially == Init => FreshInv
<1>1. Init => main.conn = None
  BY DEF Init, Off
<1>2. QED
  BY <1>1, NamesAssumption DEF FreshInv, Fresh

\* It stays fresh: only a pushed version is installed while it is on its way,
\* and that of an application that is installed already.
LEMMA FreshKept ==
  ASSUME TypeInv, NamedInv, OrderInv, TalkInv, InstalledInv, FreshInv, [Next]_vars,
         NEW c \in Conns
  PROVE  Fresh(c)'
<1> SUFFICES ASSUME main'.conn = c, NEW i \in DOMAIN up'[c], up'[c][i].kind = "CHECK_UPDATES",
                    NEW a \in Apps
             PROVE  /\ faults' = 0 => up'[c][i].versions[a] <= inst'[a].version
                    /\ Has(a)' => up'[c][i].versions[a] # 0
  BY DEF Fresh
<1>0. /\ inst[a].version \in Nat /\ inst'[a].version \in Nat
      /\ faults' = 0 => inst'[a].version >= inst[a].version
  <2>1. TypeOK /\ TypeOK'
    BY TypeKept DEF TypeInv
  <2>2. inst[a].version \in Nat /\ inst'[a].version \in Nat
    BY <2>1, SizesAssumption DEF TypeOK, Versions
  <2>3. faults' = 0 => inst'[a].version >= inst[a].version
    BY InstallsForward
  <2>4. QED
    BY <2>2, <2>3
<1>1. CASE AsksFor(up'[c][i])
  BY <1>0, <1>1 DEF AsksFor, Has
<1>2. CASE \E j \in DOMAIN up[c] : up'[c][i] = up[c][j]
  <2>1. PICK j \in DOMAIN up[c] : up'[c][i] = up[c][j]
    BY <1>2
  <2>2. main.conn = c
    <3>1. CASE \E d \in Conns : Connect(d)
      <4>1. PICK d \in Conns : Connect(d)
        BY <3>1
      <4>2. d = c /\ up[c] = <<>>
        BY <4>1, ConnectBegins DEF TalkInv, Unused
      <4>3. QED
        BY <2>1, <4>2
    <3>2. CASE Quit
      BY <3>2, NamesAssumption DEF Quit, Off
    <3>3. QED
      BY <3>1, <3>2, StepsOfNext, HandlerScope, ListenerTakes, Elsewhere, RestartClears DEF AsksFor
  <2>3. /\ faults = 0 => up[c][j].versions[a] <= inst[a].version
        /\ Has(a) => up[c][j].versions[a] # 0
    BY <2>1, <2>2 DEF FreshInv, Fresh
  <2>4. up[c][j].versions[a] \in Nat
    <3>1. up[c][j] \in Asks
      BY DEF TypeInv, TypeOK
    <3>2. QED
      BY <2>1, <3>1, AskTypes, SizesAssumption DEF Versions
  <2>5. Has(a)' => Has(a)
    <3>1. CASE UNCHANGED inst
      BY <3>1 DEF Has
    <3>2. CASE Listen
      <4> DEFINE f == Head(down)
      <4>1. NoAnswer
        BY <2>1, <2>2 DEF TalkInv, Dialogue, Kinds
      <4>2. 1 \in DOMAIN down /\ f = down[1] /\ f \in Frames
        BY <3>2, ListenerTakes
      <4>3. f.kind \in Files => f.to = "PUSH_UPDATE" /\ Has(f.app)
        BY <4>1, <4>2, FrameKinds DEF NoAnswer, Kinds, InstalledInv
      <4>4. inst'[a] # inst[a] => f.kind \in Files /\ f.app = a
        BY <3>2, Installs
      <4> HIDE DEF f
      <4>5. QED
        BY <4>3, <4>4 DEF Has
    <3>3. QED
      BY <3>1, <3>2, FrameSources
  <2>6. QED
    BY <1>0, <2>1, <2>3, <2>4, <2>5, FaultsStay
<1>3. QED
  BY <1>1, <1>2, StreamSources

\* A CHECK_UPDATES says what the client has, at all times.
LEMMA FreshSafe == Spec => []FreshInv
<1>1. TypeInv /\ NamedInv /\ OrderInv /\ TalkInv /\ InstalledInv /\ FreshInv /\ [Next]_vars => FreshInv'
  BY FreshKept DEF FreshInv
<1>2. QED
  BY <1>1, FreshInitially, TypeInvariant, NamedSafe, OrderSafe, TalkSafe, InstalledSafe, PTL DEF Spec

-----------------------------------------------------------------------------
(* The way of a version.                                                    *)

\* The places where application a's newest version, or what leads to it, can be.
InQueue(a) == \E i \in DOMAIN pushes[Client] : Newest(a, pushes[Client][i])
InTask(c, a) == conn[c].pc = "push" /\ Newest(a, conn[c].task)
InFile(a) == \E i \in DOMAIN down : down[i].kind \in Files /\ Newest(a, down[i])
InUpdates(a) == \E i \in DOMAIN down : down[i].kind = "UPDATES" /\ a \in down[i].updates
InRequest(c, a) ==
  \E i \in DOMAIN up[c] :
    /\ i = 1 => seen[c] = None \/ seen[c][a] = apps[a]
    /\ \/ up[c][i].kind = "CHECK_UPDATES"
       \/ up[c][i].kind = "DOWNLOAD" /\ up[c][i].app = a

Coming(c, a) ==
  InQueue(a) \/ InTask(c, a) \/ InFile(a) \/ InUpdates(a) \/ a \in main.todo \/ InRequest(c, a)

\* The client is behind with application a; or will be, because an older file
\* is on its way or about to be sent.
HasOld(a) == 0 < inst[a].version /\ inst[a].version < apps[a].version
OldFile(a) ==
  \E i \in DOMAIN down :
    down[i].kind \in Files /\ down[i].app = a /\ down[i].version < apps[a].version
OldCopy(c, a) ==
  /\ up[c] # <<>> /\ Now(c).kind = "DOWNLOAD" /\ Now(c).app = a
  /\ seen[c] # None /\ seen[c][a].version < apps[a].version
IsBehind(c, a) == HasOld(a) \/ OldFile(a) \/ OldCopy(c, a)

\* The client's connection, registered and not given up by the server.
Live(c) ==
  /\ main.conn = c /\ open[c]
  /\ active[Client] = c /\ conn[c].client = Client /\ conn[c].pc # "cleanup"

\* The client has asked for updates since it connected.
Knows == main.pc = "ready" \/ (main.pc = "check" /\ main.waits = "CHECK_UPDATES")

\* What the client is behind with is coming, or was lost as lost records it.
Held(c, a) == IsBehind(c, a) => Coming(c, a) \/ lost[a] = apps[a].version

WayInv == faults = 0 => \A c \in Conns, a \in Apps : Live(c) /\ Knows => Held(c, a)

\* Everything the argument rests on.
Grounds ==
  TypeInv /\ S!QueueInv /\ BehindInv /\ OrderInv /\ TalkInv /\ InstalledInv /\ FreshInv

\* Initially there is no connection.
LEMMA WayInitially == Init => WayInv
<1>1. Init => main.conn = None
  BY DEF Init, Off
<1>2. QED
  BY <1>1, NamesAssumption DEF WayInv, Live

\* The numbers compared are numbers.
LEMMA WayNumbers ==
  ASSUME TypeInv, NEW a \in Apps
  PROVE  /\ apps[a].version \in Nat /\ inst[a].version \in Nat
         /\ \A c \in Conns : seen[c] # None => seen[c][a].version \in Nat
         /\ \A i \in DOMAIN down : down[i].kind \in Files => down[i].version \in Nat
<1>1. apps[a].version \in Nat /\ inst[a].version \in Nat
  BY SizesAssumption DEF TypeInv, TypeOK, S!TypeInv, S!TypeOK, S!Records, S!Versions, Versions
<1>2. \A c \in Conns : seen[c] # None => seen[c][a].version \in Nat
  BY SeenTypes, SizesAssumption DEF Versions
<1>3. \A i \in DOMAIN down : down[i].kind \in Files => down[i].version \in Nat
  BY FileTypes, SizesAssumption DEF TypeInv, TypeOK, Versions
<1>4. QED
  BY <1>1, <1>2, <1>3

\* What a handler's step does to what is published, queued and registered.
LEMMA HandlerKeeps ==
  ASSUME TypeInv, NEW c \in Conns, Handles(c)
  PROVE  /\ UNCHANGED apps
         /\ \/ pushes'[Client] = pushes[Client]
            \/ /\ Pop(c) /\ conn[c].client = Client /\ pushes[Client] # <<>>
               /\ pushes'[Client] = Tail(pushes[Client])
            \/ End(c) /\ active[Client] = c
         /\ active'[Client] \in {active[Client], None} \/ (TakeHello(c) /\ active'[Client] = c)
         /\ UNCHANGED lost \/ Look(c) \/ Pop(c)
<1> USE DEF Server!disk, Server!live, Server!bounds
<1>1. /\ DOMAIN pushes = {Client} /\ DOMAIN active = {Client}
      /\ conn[c].pc \in {"idle", "push"} => conn[c].client = Client
  BY DEF TypeInv, S!TypeInv, S!TypeOK, S!Control, S!Placed
<1>2. CASE ServesOne(c) /\ ~TakeHello(c)
  BY <1>2
  DEF ServesOne, Refuse, Violation, TakeAck, Compare, SendFile, TakeDisconnect,
      Server!Answer, Server!Violation, Server!AcceptAck, Server!CheckUpdates, Server!Download,
      Server!Disconnect
<1>3. CASE TakeHello(c)
  BY <1>1, <1>3 DEF TakeHello, Server!Hello
<1>4. CASE KeepsStream(c) /\ ~Pop(c)
  BY <1>4
  DEF KeepsStream, Take, Idle, CloseOld, Welcome, Look, SendPush, serverVars, Server!Receive,
      Server!Idle, Server!CloseOld, Server!Welcome, Server!SendPush
<1>5. CASE Pop(c)
  <2>1. conn[c].client = Client
    BY <1>1, <1>5 DEF Pop, Server!PopPush
  <2>2. QED
    BY <1>1, <1>5, <2>1 DEF Pop, Server!PopPush
<1>6. CASE End(c)
  <2>1. CASE Server!Hangup(c) \/ Server!AckTimeout(c)
    BY <1>6, <2>1 DEF End, Server!Hangup, Server!AckTimeout
  <2>2. CASE Server!Cleanup(c)
    BY <1>1, <1>6, <2>2 DEF End, Server!Cleanup, Server!Owned
  <2>3. QED
    BY <1>6, <2>1, <2>2 DEF End
<1>7. QED
  BY <1>2, <1>3, <1>4, <1>5, <1>6 DEF Handles

\* The client is connected and knows, and was and did before; or it asks for
\* updates now.
LEMMA LiveSources ==
  ASSUME TypeInv, TalkInv, [Next]_vars, NEW c \in Conns, Live(c)', Knows'
  PROVE  \/ Live(c) /\ Knows
         \/ main.conn = c /\ \E f \in Asks : AsksFor(f) /\ f.kind = "CHECK_UPDATES"
<1>0. TypeInv' /\ Dialogue(c)' /\ Phases' /\ Dialogue(c) /\ Phases
  BY TypeKept, DialogueKept, PhasesKept DEF TalkInv
<1>a. conn'[c].pc # "free"
  <2>1. conn'[c].client = Client
    BY DEF Live
  <2>2. S!TypeInv'
    BY <1>0 DEF TypeInv
  <2>3. conn'[c].pc = "free" => conn'[c].client = None
    BY <2>2 DEF S!TypeInv, S!Control, S!Placed
  <2>4. QED
    BY <2>1, <2>3, NamesAssumption
<1>1. ASSUME NEW d \in Conns, Handles(d) PROVE Live(c) /\ Knows
  <2>1. Knows /\ main.conn = c /\ open[c] /\ UNCHANGED main
    BY <1>1, HandlerScope DEF Live, Knows
  <2>2. main.waits # "HELLO"
    BY <1>0, <2>1 DEF Knows, Phases
  <2>3. active[Client] = c
    <3>1. CASE TakeHello(c)
      <4>1. Greeting(c)'
        BY <3>1, AfterServing DEF Greeting
      <4>2. main'.waits = "HELLO"
        BY <1>0, <2>1, <4>1 DEF Dialogue
      <4>3. QED
        BY <2>1, <2>2, <4>2
    <3>2. QED
      BY <1>1, <3>1, HandlerKeeps, NamesAssumption DEF Live
  <2>4. CASE d # c
    BY <1>1, <2>1, <2>3, <2>4, HandlerScope DEF Live
  <2>5. CASE d = c
    <3>1. ~Welcome(c)
      <4>1. Welcome(c) => Greeting(c)
        BY AfterWaiting DEF Greeting
      <4>2. QED
        BY <1>0, <2>1, <2>2, <4>1 DEF Dialogue
    <3>2. conn[c].client = Client
      BY <1>1, <1>a, <2>5, <3>1, GreetingSources DEF Live, SameRole
    <3>3. conn[c].pc # "cleanup"
      <4>1. ServesOne(c) => conn[c].pc = "serve"
        BY ServesHead
      <4>2. KeepsStream(c) => conn[c].pc # "cleanup"
        BY AfterWaiting DEF KeepsStream
      <4>3. End(c) => FALSE
        <5>1. conn'[c].pc # "cleanup"
          BY DEF Live
        <5>2. QED
          BY <1>a, <5>1, ServesNothing
      <4>4. QED
        BY <1>1, <2>5, <4>1, <4>2, <4>3 DEF Handles
    <3>4. QED
      BY <2>1, <2>3, <3>2, <3>3 DEF Live
  <2>6. QED
    BY <2>1, <2>4, <2>5
<1>2. ASSUME NEW d \in Conns, Connect(d) PROVE FALSE
  <2>1. main'.pc = "hello"
    BY <1>2, ConnectBegins
  <2>2. QED
    BY <2>1 DEF Knows
<1>3. ASSUME NEW f \in Asks, AsksFor(f)
      PROVE  (Live(c) /\ Knows) \/ (main.conn = c /\ f.kind = "CHECK_UPDATES")
  <2>1. Live(c) /\ main.conn = c
    BY <1>3 DEF AsksFor, Live, serverVars
  <2>2. Knows \/ f.kind = "CHECK_UPDATES"
    BY <1>3 DEF AsksFor, Knows
  <2>3. QED
    BY <2>1, <2>2
<1>4. CASE Listen
  <2> DEFINE f == Head(down)
  <2>1. Resume(f) /\ f \in Frames /\ main'.conn = main.conn /\ UNCHANGED serverVars
    BY <1>4, ListenerTakes
  <2>2. Live(c)
    BY <2>1 DEF Live, serverVars
  <2>3. main \in [pc : {"off", "hello", "check", "ready"}, conn : Conns \cup {None},
                  waits : {"HELLO", "DOWNLOAD", "CHECK_UPDATES", None}, todo : SUBSET Apps]
    BY DEF TypeInv, TypeOK
  <2>4. f.to # None
    BY <2>1, FrameKinds
  <2> HIDE DEF f
  <2>5. CASE f.to # main.waits
    BY <2>1, <2>2, <2>5 DEF Resume, Knows
  <2>6. CASE f.to = main.waits
    <3>1. main' = [main EXCEPT !.waits = None,
                     !.pc = CASE main.pc = "hello" -> "check" [] main.pc = "check" -> "ready"
                              [] OTHER -> main.pc,
                     !.todo = IF f.kind = "UPDATES" THEN f.updates ELSE @]
      BY <2>1, <2>6 DEF Resume
    <3>2. main'.waits = None /\ (main'.pc = "ready" => main.pc \in {"check", "ready"})
      BY <2>3, <3>1
    <3>3. main.pc = "check" => main.waits = "CHECK_UPDATES"
      BY <1>0, <2>4, <2>6 DEF Phases
    <3>4. QED
      BY <2>2, <3>2, <3>3, NamesAssumption DEF Knows
  <2>7. QED
    BY <2>5, <2>6
<1>5. CASE Quit
  <2>1. main'.pc = "off"
    BY <1>5 DEF Quit, Off
  <2>2. QED
    BY <2>1 DEF Knows
<1>6. CASE Restart
  <2>1. conn'[c].pc = "free"
    BY <1>6, RestartClears DEF Server!NoHandler
  <2>2. QED
    BY <1>a, <2>1
<1>7. CASE Operate \/ Publish \/ UNCHANGED vars
  BY <1>7, Elsewhere DEF Live, Knows
<1>8. QED
  BY <1>1, <1>2, <1>3, <1>4, <1>5, <1>6, <1>7, StepsOfNext

\* What is in the stream of c stays there as it was, and so does the copy its
\* handler has.
SameStream(c) == up'[c] = up[c] /\ seen'[c] = seen[c]

\* A handler that takes a task out of the queue of the client takes the newest
\* version of its application.
LEMMA TakesNewest ==
  ASSUME TypeInv, S!QueueInv, faults = 0, pushes[Client] # <<>>
  PROVE  LET t == Head(pushes[Client])
         IN /\ t.app \in Apps /\ t.version = apps[t.app].version
            /\ \A b \in Apps : InQueue(b) =>
                 \/ Newest(b, t)
                 \/ \E i \in DOMAIN Tail(pushes[Client]) : Newest(b, Tail(pushes[Client])[i])
<1> DEFINE q == pushes[Client]
           t == Head(q)
<1>1. q \in Seq(Server!Tasks) /\ q # <<>>
  BY ServerTypes DEF TypeInv
<1>2. 1 \in DOMAIN q /\ t = q[1] /\ t \in Server!Tasks
  BY <1>1, Elements
<1>3. t.app \in Apps /\ t.version = apps[t.app].version
  <2>1. [version |-> t.version, hash |-> t.hash] = apps[t.app]
    BY <1>2 DEF S!QueueInv, S!Due
  <2>2. t.app \in Apps
    BY <1>2, ServerTypes DEF TypeInv
  <2>3. QED
    BY <2>1, <2>2
<1>4. ASSUME NEW b \in Apps, InQueue(b)
      PROVE  Newest(b, t) \/ \E i \in DOMAIN Tail(q) : Newest(b, Tail(q)[i])
  <2>1. PICK j \in DOMAIN q : Newest(b, q[j])
    BY <1>4 DEF InQueue
  <2>2. CASE j = 1
    BY <1>2, <2>1, <2>2
  <2>3. CASE j # 1
    <3>1. DOMAIN q = 1..Len(q) /\ DOMAIN Tail(q) = 1..(Len(q) - 1) /\ Len(q) \in Nat
      BY <1>1
    <3>2. j - 1 \in DOMAIN Tail(q)
      BY <2>3, <3>1
    <3>3. Tail(q)[j - 1] = q[(j - 1) + 1]
      BY <1>1, <3>2, Elements
    <3>4. (j - 1) + 1 = j
      BY <3>1
    <3>5. QED
      BY <2>1, <3>2, <3>3, <3>4
  <2>4. QED
    BY <2>2, <2>3
<1> HIDE DEF t
<1>5. QED
  BY <1>3, <1>4 DEF t

\* The handler of another connection can only take a task away, which lost then
\* records.
LEMMA HeldByOthers ==
  ASSUME Grounds, faults = 0, NEW c \in Conns, NEW d \in Conns, d # c, Handles(d), NEW a \in Apps,
         Live(c), Live(c)', Held(c, a)
  PROVE  Held(c, a)'
<1>0. TypeInv /\ S!QueueInv
  BY DEF Grounds
<1>1. /\ UNCHANGED <<apps, main, inst, down>> /\ SameStream(c) /\ conn'[c] = conn[c]
      /\ main.conn # d
  BY <1>0, HandlerKeeps, HandlerScope DEF Live, SameStream
<1>2. IsBehind(c, a)' => IsBehind(c, a)
  BY <1>1 DEF IsBehind, HasOld, OldFile, OldCopy, Now, SameStream
<1>3. Coming(c, a) => InQueue(a) \/ Coming(c, a)'
  BY <1>1 DEF Coming, InTask, InFile, InUpdates, InRequest, Newest, SameStream
<1>4. CASE pushes'[Client] = pushes[Client] /\ ~Pop(d)
  <2>1. InQueue(a) => InQueue(a)'
    BY <1>1, <1>4 DEF InQueue, Newest
  <2>2. UNCHANGED lost
    <3>1. Look(d) => UNCHANGED lost
      BY <1>1 DEF Look
    <3>2. QED
      BY <1>0, <1>4, <3>1, HandlerKeeps
  <2>3. QED
    BY <1>1, <1>2, <1>3, <2>1, <2>2 DEF Held, Coming
<1>5. CASE Pop(d)
  <2>1. conn[d].client = Client /\ DOMAIN lost = Apps /\ DOMAIN pushes = {Client}
    BY <1>0, <1>5 DEF TypeInv, TypeOK, S!TypeInv, S!TypeOK, S!Control, S!Placed, Pop, Server!PopPush
  <2>2. CASE pushes[Client] = <<>>
    <3>1. conn'[d].pc # "push" /\ pushes'[Client] = pushes[Client]
      BY <1>0, <1>5, <2>1, <2>2, AfterWaiting DEF Pop, Server!PopPush
    <3>2. UNCHANGED lost
      BY <1>5, <3>1 DEF Pop
    <3>3. QED
      BY <1>1, <1>2, <1>3, <3>1, <3>2 DEF Held, Coming, InQueue, Newest
  <2>3. CASE pushes[Client] # <<>>
    <3> DEFINE t == Head(pushes[Client])
    <3>1. /\ t.app \in Apps /\ t.version = apps[t.app].version
          /\ InQueue(a) => \/ Newest(a, t)
                           \/ \E i \in DOMAIN Tail(pushes[Client]) : Newest(a, Tail(pushes[Client])[i])
      BY <1>0, <2>3, TakesNewest
    <3>2. /\ pushes'[Client] = Tail(pushes[Client]) /\ conn'[d].pc = "push" /\ conn'[d].task = t
      <4>1. DOMAIN conn = Conns /\ conn[d] \in S!Handlers
        BY <1>0, ServerTypes DEF TypeInv
      <4>2. QED
        BY <1>5, <2>1, <2>3, <4>1 DEF Pop, Server!PopPush, S!Handlers
    <3> HIDE DEF t
    <3>3. lost' = [lost EXCEPT ![t.app] = t.version]
      BY <1>1, <1>5, <3>2 DEF Pop
    <3>4. lost[a] = apps[a].version => lost'[a] = apps'[a].version
      BY <1>1, <2>1, <3>1, <3>3
    <3>5. InQueue(a) => InQueue(a)' \/ lost'[a] = apps'[a].version
      <4>1. Newest(a, t) => lost'[a] = apps'[a].version
        BY <1>1, <2>1, <3>1, <3>3 DEF Newest
      <4>2. QED
        BY <1>1, <3>1, <3>2, <4>1 DEF InQueue, Newest
    <3>6. QED
      BY <1>2, <1>3, <3>4, <3>5 DEF Held, Coming
  <2>4. QED
    BY <2>2, <2>3
<1>6. CASE End(d) /\ active[Client] = d
  BY <1>6 DEF Live
<1>7. QED
  BY <1>0, <1>4, <1>5, <1>6, HandlerKeeps

\* A frame that is not at the head of the stream stays in it when the head has
\* been served.
LEMMA RequestsStay ==
  ASSUME TypeInv, NEW c \in Conns, NEW a \in Apps, ServesOne(c), UNCHANGED apps
  PROVE  InRequest(c, a) => \/ InRequest(c, a)'
                            \/ /\ seen[c] = None \/ seen[c][a] = apps[a]
                               /\ \/ Now(c).kind = "CHECK_UPDATES"
                                  \/ Now(c).kind = "DOWNLOAD" /\ Now(c).app = a
<1>1. /\ up[c] \in Seq(Asks) /\ up[c] # <<>> /\ up'[c] = Tail(up[c]) /\ seen'[c] = None
      /\ Now(c) = up[c][1]
  BY ServesHead
<1>2. SUFFICES ASSUME NEW i \in DOMAIN up[c], i # 1,
                      \/ up[c][i].kind = "CHECK_UPDATES"
                      \/ up[c][i].kind = "DOWNLOAD" /\ up[c][i].app = a
               PROVE  InRequest(c, a)'
  BY <1>1 DEF InRequest
<1>3. DOMAIN up[c] = 1..Len(up[c]) /\ DOMAIN Tail(up[c]) = 1..(Len(up[c]) - 1) /\ Len(up[c]) \in Nat
  BY <1>1
<1>4. i - 1 \in DOMAIN Tail(up[c]) /\ (i - 1) + 1 = i
  BY <1>2, <1>3
<1>5. up'[c][i - 1] = up[c][i]
  BY <1>1, <1>4, Elements
<1>6. QED
  BY <1>1, <1>2, <1>4, <1>5 DEF InRequest

\* What is on its way to the client stays on its way when a frame is added, and
\* an older file is one that was there or is that frame.
LEMMA FilesStay ==
  ASSUME TypeInv, NEW f \in Frames, down' = Append(down, f), NEW a \in Apps, UNCHANGED apps
  PROVE  /\ InFile(a) => InFile(a)'
         /\ InUpdates(a) => InUpdates(a)'
         /\ f.kind \in Files /\ Newest(a, f) => InFile(a)'
         /\ f.kind = "UPDATES" /\ a \in f.updates => InUpdates(a)'
         /\ OldFile(a)' =>
              OldFile(a) \/ (f.kind \in Files /\ f.app = a /\ f.version < apps[a].version)
<1>1. down \in Seq(Frames)
  BY DEF TypeInv, TypeOK
<1>2. /\ \A i \in DOMAIN down : i \in DOMAIN down' /\ down'[i] = down[i]
      /\ Len(down) + 1 \in DOMAIN down' /\ down'[Len(down) + 1] = f
      /\ \A i \in DOMAIN down' : i = Len(down) + 1 \/ (i \in DOMAIN down /\ down'[i] = down[i])
  BY <1>1
<1>3. QED
  BY <1>2 DEF InFile, InUpdates, OldFile, Newest

\* A request is served: its answer tells the client of the newest version, or
\* brings it.
LEMMA HeldServed ==
  ASSUME Grounds, faults = 0, NEW c \in Conns, ServesOne(c), NEW a \in Apps,
         Live(c), Live(c)', Held(c, a)
  PROVE  Held(c, a)'
<1>0. TypeInv /\ BehindInv /\ OrderInv /\ InstalledInv /\ Fresh(c) /\ Dialogue(c)
  BY DEF Grounds, FreshInv, TalkInv
<1>1. /\ UNCHANGED <<apps, main, inst>> /\ conn[c].pc = "serve" /\ seen'[c] = None
      /\ up[c] # <<>> /\ Now(c) \in Asks /\ Now(c) = up[c][1] /\ 1 \in DOMAIN up[c]
  BY <1>0, HandlerKeeps, HandlerScope, ServesHead DEF Handles
<1>2. pushes'[Client] = pushes[Client] /\ UNCHANGED lost /\ conn'[c].pc # "cleanup"
  <2>1. ~Pop(c) /\ ~Look(c)
    <3>1. ~Pop(c)
      BY <1>0, <1>1, AfterWaiting
    <3>2. Look(c) => FALSE
      BY <1>0, <1>1, ServesHead, AfterWaiting
    <3>3. QED
      BY <3>1, <3>2
  <2>2. ~End(c)
    BY <1>0, <1>1, AfterWaiting DEF Server!Cleanup, GivesUp, Live
  <2>3. QED
    BY <1>0, <2>1, <2>2, HandlerKeeps DEF Handles, Live
<1>3. /\ IsBehind(c, a)' => HasOld(a) \/ OldFile(a)'
      /\ Coming(c, a) => \/ InQueue(a)' \/ a \in main'.todo
                         \/ InFile(a) \/ InUpdates(a) \/ InRequest(c, a)
      /\ InQueue(a)' \/ InFile(a)' \/ InUpdates(a)' \/ a \in main'.todo \/ InRequest(c, a)'
           => Coming(c, a)'
      /\ lost[a] = apps[a].version => lost'[a] = apps'[a].version
  BY <1>1, <1>2 DEF IsBehind, HasOld, OldCopy, Coming, InQueue, InTask, Newest
<1>4. CASE Compare(c)
  <2> DEFINE f == [kind |-> "UPDATES", to |-> "CHECK_UPDATES", updates |-> {b \in Apps : Newer(c, b)}]
  <2>1. /\ down' = Append(down, f) /\ f \in Frames /\ f.kind = "UPDATES" /\ f.kind \notin Files
        /\ (Newer(c, a) => a \in f.updates)
    BY <1>1, <1>2, <1>4, FrameTypes DEF Compare, Reply, Live, Files
  <2>2. Now(c).kind = "CHECK_UPDATES" /\ seen[c] # None
    BY <1>0, <1>4, ServesHead DEF Compare, Server!CheckUpdates, Server!Serving
  <2> HIDE DEF f
  <2>3. /\ InFile(a) => InFile(a)'
        /\ InUpdates(a) => InUpdates(a)'
        /\ Newer(c, a) => InUpdates(a)'
        /\ OldFile(a)' => OldFile(a)
    BY <1>0, <1>1, <2>1, FilesStay
  <2>4. OldFile(a) => HasOld(a)
    <3>1. SUFFICES ASSUME NEW i \in DOMAIN down, down[i].kind \in Files, down[i].app = a,
                          down[i].version < apps[a].version
                   PROVE  HasOld(a)
      BY DEF OldFile
    <3>2. NoAnswer
      BY <1>0, <1>1, <2>2 DEF Live, Dialogue, Kinds
    <3>3. down[i].to = "PUSH_UPDATE"
      BY <1>0, <3>1, <3>2, FrameKinds DEF NoAnswer, Kinds, TypeInv, TypeOK
    <3>4. Has(a) /\ inst[a].version <= down[i].version
      BY <1>0, <3>1, <3>3 DEF InstalledInv, OrderInv
    <3>5. QED
      BY <1>0, <3>1, <3>4, WayNumbers DEF Has, HasOld
  <2>5. HasOld(a) /\ seen[c][a] = apps[a] => Newer(c, a)
    <3>1. HasOld(a) => Has(a)
      BY <1>0, WayNumbers DEF HasOld, Has
    <3>2. Now(c).versions[a] <= inst[a].version /\ (Has(a) => Now(c).versions[a] # 0)
      BY <1>0, <1>1, <2>2 DEF Live, Fresh
    <3>3. Now(c).versions[a] \in Nat
      BY <1>1, <2>2, AskTypes, SizesAssumption DEF Versions
    <3>4. QED
      BY <1>0, <3>1, <3>2, <3>3, WayNumbers DEF HasOld, Newer
  <2>6. InRequest(c, a) => InRequest(c, a)' \/ seen[c][a] = apps[a]
    BY <1>0, <1>1, <2>2, RequestsStay
  <2>7. SUFFICES ASSUME HasOld(a) PROVE Coming(c, a)' \/ lost'[a] = apps'[a].version
    BY <1>3, <2>3, <2>4 DEF Held
  <2>8. Coming(c, a) \/ lost[a] = apps[a].version
    BY <2>7 DEF Held, IsBehind
  <2>9. QED
    BY <1>3, <2>3, <2>5, <2>6, <2>7, <2>8
<1>5. CASE SendFile(c)
  <2> DEFINE b == Now(c).app
             f == [kind |-> "TRANSFER", to |-> "DOWNLOAD", app |-> b,
                   version |-> seen[c][b].version, hash |-> seen[c][b].hash, data |-> file[b]]
  <2>1. Now(c).kind = "DOWNLOAD" /\ seen[c] # None
    BY <1>0, <1>5, ServesHead DEF SendFile, Server!Download, Server!Serving
  <2>2. b \in Apps
    BY <1>1, <2>1, AskTypes
  <2>3. f \in Frames
    BY <1>0, <2>1, <2>2, SeenTypes, ServerTypes, FrameTypes DEF TypeInv, Files
  <2>4. /\ down' = Append(down, f) /\ f.kind \in Files /\ f.kind # "UPDATES"
        /\ f.app = b /\ f.version = seen[c][b].version
    BY <1>1, <1>2, <1>5 DEF SendFile, Reply, Live, Files
  <2> HIDE DEF f, b
  <2>5. /\ InFile(a) => InFile(a)'
        /\ InUpdates(a) => InUpdates(a)'
        /\ Newest(a, f) => InFile(a)'
        /\ OldFile(a)' => OldFile(a) \/ (f.app = a /\ f.version < apps[a].version)
    BY <1>0, <1>1, <2>3, <2>4, FilesStay
  <2>6. f.app = a /\ f.version < apps[a].version => OldCopy(c, a)
    BY <1>1, <2>1, <2>4 DEF OldCopy, b
  <2>7. InRequest(c, a) => InRequest(c, a)' \/ (b = a /\ seen[c][a] = apps[a])
    BY <1>0, <1>1, <2>1, RequestsStay DEF b
  <2>8. b = a /\ seen[c][a] = apps[a] => Newest(a, f)
    BY <2>4 DEF Newest
  <2>9. IsBehind(c, a)' => IsBehind(c, a)
    BY <1>3, <2>5, <2>6 DEF IsBehind
  <2>10. QED
    BY <1>3, <2>5, <2>7, <2>8, <2>9 DEF Held
<1>6. CASE Refuse(c) \/ TakeAck(c) \/ TakeHello(c)
  <2>1. UNCHANGED down
    BY <1>6 DEF Refuse, TakeAck, TakeHello
  <2>2. Now(c).kind \notin {"CHECK_UPDATES", "DOWNLOAD"}
    <3>1. Server!Registered(c)
      BY NamesAssumption DEF Live, Server!Registered
    <3>2. conn[c].request.kind = Now(c).kind
      BY <1>0, ServesHead
    <3>3. QED
      BY <1>6, <3>1, <3>2
      DEF Refuse, TakeAck, TakeHello, Server!Answer, Server!AcceptAck, Server!Hello, Server!Serving
  <2>3. InRequest(c, a) => InRequest(c, a)'
    BY <1>0, <1>1, <2>2, RequestsStay
  <2>4. /\ InFile(a) => InFile(a)'
        /\ InUpdates(a) => InUpdates(a)'
        /\ OldFile(a)' => OldFile(a)
    BY <1>1, <2>1 DEF InFile, InUpdates, OldFile, Newest
  <2>5. QED
    BY <1>3, <2>3, <2>4 DEF Held, IsBehind
<1>7. ~Violation(c) /\ ~TakeDisconnect(c)
  BY <1>0, <1>2, AfterServing DEF GivesUp
<1>8. QED
  BY <1>4, <1>5, <1>6, <1>7 DEF ServesOne

\* The handler waits, looks, takes a task or sends it.
LEMMA HeldWaiting ==
  ASSUME Grounds, faults = 0, NEW c \in Conns, KeepsStream(c), NEW a \in Apps,
         Live(c), Live(c)', Knows, Held(c, a)
  PROVE  Held(c, a)'
<1>0. TypeInv /\ S!QueueInv /\ OrderInv /\ InstalledInv /\ Dialogue(c) /\ Phases
  BY DEF Grounds, TalkInv
<1>1. UNCHANGED <<apps, main, inst, up>> /\ conn'[c].pc # "cleanup" /\ ~End(c) /\ ~TakeHello(c)
  <2>1. End(c) => FALSE
    <3>1. End(c) => conn'[c].pc \in {"cleanup", "free"}
      BY <1>0, ServesNothing
    <3>2. TypeInv' => (conn'[c].pc = "free" => conn'[c].client = None)
      BY DEF TypeInv, S!TypeInv, S!Control, S!Placed
    <3>3. ~Server!Cleanup(c)
      BY <1>0, AfterWaiting DEF KeepsStream, Server!Cleanup
    <3>4. QED
      BY <1>0, <3>3, AfterWaiting DEF Live, GivesUp
  <2>2. conn[c].pc = "serve" => Look(c)
    BY <1>0, AfterWaiting DEF KeepsStream
  <2>3. ServesOne(c) => FALSE
    BY <1>0, <2>2, ServesHead, AfterWaiting
  <2>4. QED
    BY <1>0, <2>1, <2>3, HandlerKeeps, HandlerScope, ServesNothing DEF Handles, Live, ServesOne
<1>2. CASE Look(c)
  <2>1. /\ UNCHANGED <<down, pushes, conn>> /\ seen[c] = None /\ seen'[c] = apps /\ main.conn = c
        /\ lost' = IF Now(c).kind = "CHECK_UPDATES"
                     THEN [b \in Apps |-> IF Now(c).versions[b] # 0 THEN 0 ELSE lost[b]]
                     ELSE lost
    BY <1>0, <1>2 DEF Look, serverVars, Live, TypeInv, TypeOK
  <2>2. IsBehind(c, a)' => IsBehind(c, a)
    <3>1. ~OldCopy(c, a)'
      BY <1>0, <1>1, <2>1, WayNumbers DEF OldCopy
    <3>2. QED
      BY <1>1, <2>1, <3>1 DEF IsBehind, HasOld, OldFile
  <2>3. Coming(c, a) => Coming(c, a)'
    <3>1. InRequest(c, a) => InRequest(c, a)'
      BY <1>1, <2>1 DEF InRequest
    <3>2. QED
      BY <1>1, <2>1, <3>1 DEF Coming, InQueue, InTask, InFile, InUpdates, Newest
  <2>4. CASE Now(c).kind = "CHECK_UPDATES"
    <3>1. conn[c].pc = "serve"
      BY <1>2 DEF Look, Server!Serving
    <3>2. up[c] # <<>> /\ up[c] \in Seq(Asks)
      BY <1>0, <3>1 DEF TypeInv, TypeOK, InService
    <3>3. 1 \in DOMAIN up[c] /\ up[c][1].kind = "CHECK_UPDATES"
      BY <2>4, <3>2, Elements DEF Now
    <3>4. InRequest(c, a)'
      BY <1>1, <2>1, <3>3 DEF InRequest
    <3>5. QED
      BY <3>4 DEF Held, Coming
  <2>5. CASE Now(c).kind # "CHECK_UPDATES"
    BY <1>1, <2>1, <2>2, <2>3, <2>5 DEF Held
  <2>6. QED
    BY <2>4, <2>5
<1>3. CASE Take(c) \/ Idle(c)
  <2>1. UNCHANGED <<down, seen, lost, pushes>> /\ conn[c].pc # "push"
    BY <1>0, <1>3, AfterWaiting DEF Take, Idle, Server!Receive, Server!Idle, Server!live
  <2>2. QED
    BY <1>1, <2>1
    DEF Held, Coming, IsBehind, InQueue, InTask, InFile, InUpdates, InRequest, HasOld, OldFile,
        OldCopy, Newest, Now
<1>4. CASE CloseOld(c) \/ Welcome(c)
  <2>1. Greeting(c)
    BY <1>0, <1>4, AfterWaiting DEF Greeting
  <2>2. main.waits = "HELLO"
    BY <1>0, <2>1 DEF Dialogue, Live
  <2>3. QED
    BY <1>0, <2>2 DEF Knows, Phases
<1>5. CASE Pop(c)
  <2>1. /\ UNCHANGED <<down, seen, lost>> /\ conn[c].pc = "idle" /\ conn[c].client = Client
        /\ DOMAIN pushes = {Client}
    BY <1>0, <1>5, AfterWaiting DEF Pop, Live, TypeInv, S!TypeInv, S!TypeOK
  <2>2. IsBehind(c, a)' => IsBehind(c, a)
    BY <1>1, <2>1 DEF IsBehind, HasOld, OldFile, OldCopy, Now
  <2>3. Coming(c, a) => \/ InQueue(a) \/ InFile(a)' \/ InUpdates(a)'
                        \/ a \in main'.todo \/ InRequest(c, a)'
    BY <1>1, <2>1 DEF Coming, InTask, InFile, InUpdates, InRequest, Newest
  <2>4. InQueue(a) => InQueue(a)' \/ InTask(c, a)'
    <3>1. CASE pushes[Client] = <<>>
      BY <3>1 DEF InQueue
    <3>2. CASE pushes[Client] # <<>>
      <4>1. /\ pushes'[Client] = Tail(pushes[Client]) /\ conn'[c].pc = "push"
            /\ conn'[c].task = Head(pushes[Client])
        <5>1. DOMAIN conn = Conns /\ conn[c] \in S!Handlers
          BY <1>0, ServerTypes DEF TypeInv
        <5>2. QED
          BY <1>5, <2>1, <3>2, <5>1 DEF Pop, Server!PopPush, S!Handlers
      <4> DEFINE t == Head(pushes[Client])
      <4>2. InQueue(a) => \/ Newest(a, t)
                          \/ \E i \in DOMAIN Tail(pushes[Client]) : Newest(a, Tail(pushes[Client])[i])
        BY <1>0, <3>2, TakesNewest
      <4> HIDE DEF t
      <4>3. Newest(a, t) => InTask(c, a)'
        BY <1>1, <4>1 DEF Newest, InTask, t
      <4>4. (\E i \in DOMAIN Tail(pushes[Client]) : Newest(a, Tail(pushes[Client])[i])) => InQueue(a)'
        BY <1>1, <4>1 DEF Newest, InQueue
      <4>5. QED
        BY <4>2, <4>3, <4>4
    <3>3. QED
      BY <3>1, <3>2
  <2>5. QED
    BY <1>1, <2>1, <2>2, <2>3, <2>4 DEF Held, Coming
<1>6. CASE SendPush(c)
  <2> DEFINE t == conn[c].task
             f == [kind |-> "PUSH", to |-> "PUSH_UPDATE", app |-> t.app,
                   version |-> t.version, hash |-> t.hash, data |-> t.hash]
  <2>1. conn[c].pc = "push" /\ UNCHANGED <<seen, lost, pushes>>
    BY <1>0, <1>6, AfterWaiting DEF SendPush, Server!SendPush, Server!live
  <2>2. t.app \in Apps /\ t.version \in Versions /\ t.hash \in Server!Contents
    BY <1>0, <2>1, ServerTypes DEF TypeInv
  <2>3. f \in Frames
    BY <2>2, FrameTypes DEF Files
  <2>4. /\ down' = Append(down, f) /\ f.kind \in Files /\ f.kind # "UPDATES"
        /\ f.app = t.app /\ f.version = t.version
    BY <1>1, <1>6 DEF SendPush, Reply, Live, Files
  <2> HIDE DEF f
  <2>5. /\ InFile(a) => InFile(a)'
        /\ InUpdates(a) => InUpdates(a)'
        /\ Newest(a, f) => InFile(a)'
        /\ OldFile(a)' => OldFile(a) \/ (f.app = a /\ f.version < apps[a].version)
    BY <1>0, <1>1, <2>3, <2>4, FilesStay
  <2>6. f.app = a /\ f.version < apps[a].version => HasOld(a)
    <3>1. Has(t.app) /\ inst[t.app].version <= t.version
      BY <1>0, <2>1 DEF InstalledInv, OrderInv, Live, AtMost
    <3>2. t.version \in Nat
      BY <2>2, SizesAssumption DEF Versions
    <3> HIDE DEF t
    <3>3. QED
      BY <1>0, <2>4, <3>1, <3>2, WayNumbers DEF Has, HasOld
  <2>7. InTask(c, a) => InFile(a)'
    BY <2>4, <2>5 DEF InTask, Newest
  <2>8. InQueue(a) => InQueue(a)'
    BY <1>1, <2>1 DEF InQueue, Newest
  <2>9. InRequest(c, a) => InRequest(c, a)'
    BY <1>1, <2>1 DEF InRequest
  <2>10. IsBehind(c, a)' => IsBehind(c, a)
    <3>1. HasOld(a)' => HasOld(a)
      BY <1>1 DEF HasOld
    <3>2. OldCopy(c, a)' => OldCopy(c, a)
      BY <1>1, <2>1 DEF OldCopy, Now
    <3>3. QED
      BY <2>5, <2>6, <3>1, <3>2 DEF IsBehind
  <2>11. QED
    BY <1>1, <2>1, <2>5, <2>7, <2>8, <2>9, <2>10 DEF Held, Coming
<1>7. QED
  BY <1>2, <1>3, <1>4, <1>5, <1>6 DEF KeepsStream

\* The client asks: for updates, which leads to everything, or for the newest
\* version of an application it was told of.
LEMMA HeldAsking ==
  ASSUME Grounds, NEW c \in Conns, main.conn = c, NEW f \in Asks, AsksFor(f), NEW a \in Apps
  PROVE  /\ f.kind = "CHECK_UPDATES" => Held(c, a)'
         /\ Knows /\ Held(c, a) => Held(c, a)'
<1>0. TypeInv /\ Phases
  BY DEF Grounds, TalkInv
<1>1. /\ Puts(f) /\ UNCHANGED <<serverVars, seen, down, inst, lost, apps, pushes, conn>>
      /\ f.kind = "DOWNLOAD" => main'.todo = main.todo \ {f.app}
      /\ f.kind # "DOWNLOAD" => main'.todo = main.todo
  BY DEF AsksFor, Puts, Kinds, serverVars
<1>2. /\ Len(up[c]) + 1 \in DOMAIN up'[c] /\ up'[c][Len(up[c]) + 1] = f
      /\ up[c] \in Seq(Asks) /\ up'[c] = Append(up[c], f)
      /\ DOMAIN up'[c] = 1..(Len(up[c]) + 1) /\ DOMAIN up[c] = 1..Len(up[c]) /\ Len(up[c]) \in Nat
  BY <1>0, <1>1, PutLast DEF Puts, TypeInv, TypeOK
<1>3. \A i \in DOMAIN up[c] : i \in DOMAIN up'[c] /\ up'[c][i] = up[c][i]
  BY <1>2
<1>4. Len(up[c]) + 1 = 1 => up[c] = <<>> /\ seen[c] = None
  BY <1>0, <1>2 DEF TypeInv, InService
<1>5. f.kind = "CHECK_UPDATES" \/ (f.kind = "DOWNLOAD" /\ f.app = a) => InRequest(c, a)'
  BY <1>1, <1>2, <1>4 DEF InRequest
<1>6. ASSUME f.kind = "CHECK_UPDATES" PROVE Held(c, a)'
  BY <1>5, <1>6 DEF Held, Coming
<1>7. ASSUME Knows, Held(c, a) PROVE Held(c, a)'
  <2>1. Coming(c, a) => Coming(c, a)'
    <3>1. InRequest(c, a) => InRequest(c, a)'
      BY <1>1, <1>3 DEF InRequest
    <3>2. a \in main.todo => a \in main'.todo \/ InRequest(c, a)'
      BY <1>1, <1>5
    <3>3. QED
      BY <1>1, <3>1, <3>2 DEF Coming, InQueue, InTask, InFile, InUpdates, Newest
  <2>2. IsBehind(c, a)' => IsBehind(c, a)
    <3>1. OldCopy(c, a)' => OldCopy(c, a)
      <4>1. seen[c] # None => up[c] # <<>>
        BY <1>0 DEF TypeInv, InService
      <4>2. up[c] # <<>> => Head(up'[c]) = Head(up[c])
        BY <1>2, Streams
      <4>3. QED
        BY <1>1, <4>1, <4>2 DEF OldCopy, Now
    <3>2. QED
      BY <1>1, <3>1 DEF IsBehind, HasOld, OldFile
  <2>3. QED
    BY <1>1, <1>7, <2>1, <2>2 DEF Held
<1>8. QED
  BY <1>6, <1>7

\* The listener installs what comes, or makes the list of updates to download.
LEMMA HeldListening ==
  ASSUME Grounds, [Next]_vars, faults = 0, NEW c \in Conns, Listen, NEW a \in Apps, Live(c), Held(c, a)
  PROVE  Held(c, a)'
<1> DEFINE f == Head(down)
<1>0. TypeInv /\ BehindInv /\ OrderInv /\ InstalledInv /\ Dialogue(c) /\ Phases /\ main.conn = c
  BY DEF Grounds, TalkInv, Live
<1>1. /\ UNCHANGED <<serverVars, seen, apps, pushes, conn>> /\ Resume(f) /\ f \in Frames
      /\ 1 \in DOMAIN down /\ f = down[1] /\ down \in Seq(Frames) /\ down # <<>> /\ down' = Tail(down)
  BY <1>0, ListenerTakes DEF serverVars
<1>2. \A i \in DOMAIN down' : i \in Nat /\ i # 0 /\ i + 1 \in DOMAIN down /\ down'[i] = down[i + 1]
  BY <1>0, ListenedRest
<1>3. \A i \in DOMAIN down : i # 1 => i - 1 \in DOMAIN down' /\ down'[i - 1] = down[i]
  <2>1. DOMAIN down = 1..Len(down) /\ DOMAIN Tail(down) = 1..(Len(down) - 1) /\ Len(down) \in Nat
    BY <1>1
  <2>2. \A i \in DOMAIN down : i # 1 => i - 1 \in DOMAIN down' /\ (i - 1) + 1 = i
    BY <1>1, <2>1
  <2>3. QED
    BY <1>2, <2>2
<1>4. /\ \A i \in DOMAIN up[c] : i \in DOMAIN up'[c] /\ up'[c][i] = up[c][i]
      /\ up[c] # <<>> => Head(up'[c]) = Head(up[c])
  <2>1. CASE UNCHANGED up
    BY <2>1
  <2>2. CASE Puts([kind |-> "ACK"])
    <3>1. up[c] \in Seq(Asks) /\ [kind |-> "ACK"] \in Asks /\ DOMAIN up = Conns
      BY <1>0 DEF TypeInv, TypeOK, Asks
    <3>2. up'[c] = Append(up[c], [kind |-> "ACK"])
      BY <1>0, <2>2, <3>1 DEF Puts
    <3>3. up[c] # <<>> => Head(up'[c]) = Head(up[c])
      BY <3>1, <3>2, Streams
    <3>4. \A i \in DOMAIN up[c] : i \in DOMAIN up'[c] /\ up'[c][i] = up[c][i]
      BY <3>1, <3>2
    <3>5. QED
      BY <3>3, <3>4
  <2>3. QED
    BY <1>0, <2>1, <2>2, ListenerTakes
<1>5. lost' = IF f.kind \in Files /\ ~Intact(f) THEN [lost EXCEPT ![f.app] = apps[f.app].version]
              ELSE lost
  BY DEF Listen, Files
<1>6. f.kind \in Files => f.app \in Apps /\ f.version \in Nat
  BY <1>0, <1>1, FileTypes, WayNumbers
<1>7. DOMAIN lost = Apps /\ DOMAIN inst = Apps
  BY <1>0 DEF TypeInv, TypeOK
<1> HIDE DEF f
<1>8. lost[a] = apps[a].version => lost'[a] = apps'[a].version
  BY <1>1, <1>5, <1>6, <1>7
<1>9. /\ InQueue(a) => InQueue(a)'
      /\ InTask(c, a) => InTask(c, a)'
      /\ InRequest(c, a) => InRequest(c, a)'
      /\ OldCopy(c, a)' => OldCopy(c, a)
      /\ OldFile(a)' => OldFile(a)
  <2>1. InRequest(c, a) => InRequest(c, a)'
    BY <1>1, <1>4 DEF InRequest
  <2>2. OldCopy(c, a)' => OldCopy(c, a)
    <3>1. seen[c] # None => up[c] # <<>>
      BY <1>0 DEF TypeInv, InService
    <3>2. QED
      BY <1>1, <1>4, <3>1 DEF OldCopy, Now
  <2>3. OldFile(a)' => OldFile(a)
    BY <1>1, <1>2 DEF OldFile
  <2>4. QED
    BY <1>1, <2>1, <2>2, <2>3 DEF InQueue, InTask, Newest
<1>10. InUpdates(a) => InUpdates(a)' \/ a \in main'.todo
  <2>1. SUFFICES ASSUME NEW i \in DOMAIN down, down[i].kind = "UPDATES", a \in down[i].updates
                 PROVE  InUpdates(a)' \/ a \in main'.todo
    BY DEF InUpdates
  <2>2. CASE i = 1
    <3>1. f.kind = "UPDATES" /\ a \in f.updates /\ f.to = "CHECK_UPDATES"
      BY <1>1, <2>1, <2>2, FrameKinds
    <3>2. main.waits = f.to
      BY <1>0, <1>1, <3>1 DEF Dialogue, Kinds
    <3>3. main \in [pc : {"off", "hello", "check", "ready"}, conn : Conns \cup {None},
                    waits : {"HELLO", "DOWNLOAD", "CHECK_UPDATES", None}, todo : SUBSET Apps]
      BY <1>0 DEF TypeInv, TypeOK
    <3>4. main'.todo = f.updates
      BY <1>1, <3>1, <3>2, <3>3 DEF Resume
    <3>5. QED
      BY <3>1, <3>4
  <2>3. CASE i # 1
    BY <1>3, <2>1, <2>3 DEF InUpdates
  <2>4. QED
    BY <2>2, <2>3
<1>11. a \in main.todo => a \in main'.todo
  <2>1. CASE f.to = main.waits /\ f.kind = "UPDATES"
    <3>1. main.waits = "CHECK_UPDATES"
      BY <1>1, <2>1, FrameKinds
    <3>2. QED
      BY <1>0, <3>1 DEF Phases
  <2>2. CASE ~(f.to = main.waits /\ f.kind = "UPDATES")
    <3>1. main \in [pc : {"off", "hello", "check", "ready"}, conn : Conns \cup {None},
                    waits : {"HELLO", "DOWNLOAD", "CHECK_UPDATES", None}, todo : SUBSET Apps]
      BY <1>0 DEF TypeInv, TypeOK
    <3>2. main'.todo = main.todo
      BY <1>1, <2>2, <3>1 DEF Resume
    <3>3. QED
      BY <3>2
  <2>3. QED
    BY <2>1, <2>2
<1>12. CASE f.kind \in Files /\ f.app = a /\ Intact(f)
  <2>1. inst'[a].version = f.version
    BY <1>7, <1>12 DEF Listen, Files, f
  <2>2. CASE f.version < apps[a].version
    <3>1. OldFile(a)
      BY <1>1, <1>12, <2>2 DEF OldFile
    <3>2. InFile(a) => InFile(a)'
      <4>1. SUFFICES ASSUME NEW i \in DOMAIN down, down[i].kind \in Files, Newest(a, down[i])
                     PROVE  InFile(a)'
        BY DEF InFile
      <4>2. i # 1
        BY <1>0, <1>1, <1>6, <1>12, <2>2, <4>1, WayNumbers DEF Newest
      <4>3. QED
        BY <1>1, <1>3, <4>1, <4>2 DEF InFile, Newest
    <3>3. QED
      BY <1>8, <1>9, <1>10, <1>11, <3>1, <3>2 DEF Held, Coming, IsBehind
  <2>3. CASE ~(f.version < apps[a].version)
    <3>1. ~HasOld(a)'
      BY <1>1, <2>1, <2>3 DEF HasOld
    <3>2. ~OldFile(a)'
      <4>1. SUFFICES ASSUME NEW i \in DOMAIN down', down'[i].kind \in Files, down'[i].app = a,
                            down'[i].version < apps[a].version
                     PROVE  FALSE
        BY <1>1 DEF OldFile
      <4>2. i + 1 \in DOMAIN down /\ down'[i] = down[i + 1] /\ 1 < i + 1
        BY <1>2, <4>1
      <4>3. f.version <= down[i + 1].version /\ down[i + 1].version \in Nat
        BY <1>0, <1>1, <1>12, <4>1, <4>2, WayNumbers DEF OrderInv
      <4>4. QED
        BY <1>0, <1>6, <1>12, <2>3, <4>1, <4>2, <4>3, WayNumbers
    <3>3. ~OldCopy(c, a)'
      <4>1. seen[c] # None => f.version <= seen[c][a].version
        BY <1>0, <1>1, <1>12 DEF OrderInv, AtMost
      <4>2. QED
        BY <1>0, <1>1, <1>6, <1>12, <2>3, <4>1, WayNumbers DEF OldCopy
    <3>4. QED
      BY <3>1, <3>2, <3>3 DEF Held, IsBehind
  <2>4. QED
    BY <2>2, <2>3
<1>13. CASE f.kind \in Files /\ f.app = a /\ ~Intact(f)
  BY <1>1, <1>5, <1>7, <1>13 DEF Held
<1>14. CASE ~(f.kind \in Files /\ f.app = a)
  <2>1. inst'[a] = inst[a]
    BY <1>0, <1>14, Installs DEF f
  <2>2. InFile(a) => InFile(a)'
    <3>1. SUFFICES ASSUME NEW i \in DOMAIN down, down[i].kind \in Files, Newest(a, down[i])
                   PROVE  InFile(a)'
      BY DEF InFile
    <3>2. i # 1
      BY <1>1, <1>14, <3>1 DEF Newest
    <3>3. QED
      BY <1>1, <1>3, <3>1, <3>2 DEF InFile, Newest
  <2>3. HasOld(a)' => HasOld(a)
    BY <1>1, <2>1 DEF HasOld
  <2>4. QED
    BY <1>8, <1>9, <1>10, <1>11, <2>2, <2>3 DEF Held, Coming, IsBehind
<1>15. QED
  BY <1>12, <1>13, <1>14

\* A publication is queued for the client, or recorded in lost.
LEMMA HeldPublishing ==
  ASSUME Grounds, faults = 0, faults' = 0, NEW c \in Conns, Publish, NEW a \in Apps, Live(c), Held(c, a)
  PROVE  Held(c, a)'
<1>0. TypeInv
  BY DEF Grounds
<1> DEFINE b == pub.app
           t == [app |-> b, version |-> apps[b].version + 1, hash |-> pub.hash]
           q == pushes[Client]
<1>1. /\ UNCHANGED <<conn, active, downloads, seen, up, down, main, inst>>
      /\ DOMAIN pushes = {Client} /\ DOMAIN apps = Apps /\ DOMAIN lost = Apps
      /\ active[Client] # None /\ q \in Seq(Server!Tasks)
  BY <1>0, Elsewhere, ServerTypes, NamesAssumption DEF Live, TypeInv, TypeOK, S!TypeInv, S!TypeOK
<1>2. /\ apps' = [apps EXCEPT ![b] = [version |-> t.version, hash |-> t.hash]]
      /\ pushes' = [k \in {Client} |-> IF k \in Server!Recipients(b) THEN Server!Queued(pushes[k], t) ELSE pushes[k]]
      /\ lost' = IF b \in downloads[Client] THEN lost ELSE [lost EXCEPT ![b] = apps'[b].version]
  <2>1. faults' # faults + 1
    OBVIOUS
  <2>2. QED
    BY <1>1, <2>1 DEF Publish, Server!CommitPublish
<1>3. pushes'[Client] = IF b \in downloads[Client] THEN Server!Queued(q, t) ELSE q
  BY <1>1, <1>2 DEF Server!Recipients
<1>4. t.app = b /\ t.version = apps[b].version + 1
  OBVIOUS
<1> HIDE DEF t
<1>5. CASE a # b
  <2>1. apps'[a] = apps[a]
    BY <1>1, <1>2, <1>5
  <2>2. InQueue(a) => InQueue(a)'
    <3>1. ASSUME NEW i \in DOMAIN q, q[i].app = a
          PROVE  i \in DOMAIN Server!Queued(q, t) /\ Server!Queued(q, t)[i] = q[i]
      BY <1>1, <1>4, <1>5, <3>1 DEF Server!Queued
    <3>2. QED
      BY <1>3, <2>1, <3>1 DEF InQueue, Newest
  <2>3. Coming(c, a) => Coming(c, a)'
    <3>1. InRequest(c, a) => InRequest(c, a)'
      BY <1>1, <2>1 DEF InRequest
    <3>2. QED
      BY <1>1, <2>1, <2>2, <3>1 DEF Coming, InTask, InFile, InUpdates, Newest
  <2>4. IsBehind(c, a)' => IsBehind(c, a)
    BY <1>1, <2>1 DEF IsBehind, HasOld, OldFile, OldCopy, Now
  <2>5. lost'[a] = lost[a]
    BY <1>1, <1>2, <1>5
  <2>6. QED
    BY <2>1, <2>3, <2>4, <2>5 DEF Held
<1>6. CASE a = b
  <2>1. apps'[a].version = t.version
    BY <1>1, <1>2, <1>6
  <2>2. CASE b \in downloads[Client]
    <3>1. \E i \in DOMAIN Server!Queued(q, t) : Server!Queued(q, t)[i] = t
      <4>1. CASE \E i \in DOMAIN q : q[i].app = t.app
        BY <4>1 DEF Server!Queued
      <4>2. CASE ~\E i \in DOMAIN q : q[i].app = t.app
        <5>1. Server!Queued(q, t) = Append(q, t)
          BY <4>2 DEF Server!Queued
        <5>2. Len(q) + 1 \in DOMAIN Append(q, t) /\ Append(q, t)[Len(q) + 1] = t
          BY <1>1
        <5>3. QED
          BY <5>1, <5>2
      <4>3. QED
        BY <4>1, <4>2
    <3>2. InQueue(a)'
      BY <1>3, <1>4, <1>6, <2>1, <2>2, <3>1 DEF InQueue, Newest
    <3>3. QED
      BY <3>2 DEF Held, Coming
  <2>3. CASE b \notin downloads[Client]
    BY <1>1, <1>2, <1>6, <2>3 DEF Held
  <2>4. QED
    BY <2>2, <2>3
<1>7. QED
  BY <1>5, <1>6

\* Nothing is lost but what lost records, whatever the step.
LEMMA WayKept ==
  ASSUME Grounds, WayInv, [Next]_vars
  PROVE  WayInv'
<1> SUFFICES ASSUME faults' = 0, NEW c \in Conns, NEW a \in Apps, Live(c)', Knows'
             PROVE  Held(c, a)'
  BY DEF WayInv
<1>0. TypeInv /\ TalkInv /\ faults = 0
  BY FaultsStay DEF Grounds
<1>1. CASE \E f \in Asks : AsksFor(f) /\ f.kind = "CHECK_UPDATES" /\ main.conn = c
  BY <1>1, HeldAsking
<1>2. CASE Live(c) /\ Knows
  <2>1. Held(c, a) /\ main.conn = c
    BY <1>0, <1>2 DEF WayInv, Live
  <2>2. ASSUME NEW d \in Conns, Handles(d) PROVE Held(c, a)'
    <3>1. CASE d # c
      BY <1>0, <1>2, <2>1, <2>2, <3>1, HeldByOthers
    <3>2. CASE d = c
      <4>1. ~End(c)
        <5>1. End(c) => conn'[c].pc \in {"cleanup", "free"}
          BY <1>0, ServesNothing
        <5>2. TypeInv'
          BY <1>0, TypeKept
        <5>3. conn'[c].pc # "free"
          BY <5>2, NamesAssumption DEF Live, TypeInv, S!TypeInv, S!Control, S!Placed
        <5>4. QED
          BY <5>1, <5>3 DEF Live
      <4>2. QED
        BY <1>0, <1>2, <2>1, <2>2, <3>2, <4>1, HeldServed, HeldWaiting DEF Handles
    <3>3. QED
      BY <3>1, <3>2
  <2>3. ASSUME NEW d \in Conns, Connect(d) PROVE Held(c, a)'
    <3>1. main.pc = "off"
      BY <1>0, <2>3, ConnectBegins
    <3>2. QED
      BY <1>2, <3>1 DEF Knows
  <2>4. ASSUME NEW f \in Asks, AsksFor(f) PROVE Held(c, a)'
    BY <1>2, <2>1, <2>4, HeldAsking
  <2>5. CASE Listen
    BY <1>0, <1>2, <2>1, <2>5, HeldListening
  <2>6. CASE Quit
    <3>1. main'.pc = "off"
      BY <2>6 DEF Quit, Off
    <3>2. QED
      BY <3>1 DEF Knows
  <2>7. CASE Restart
    <3>1. conn'[c].client = None
      BY <2>7, RestartClears DEF Server!NoHandler
    <3>2. QED
      BY <3>1, NamesAssumption DEF Live
  <2>8. CASE Publish
    BY <1>0, <1>2, <2>1, <2>8, HeldPublishing
  <2>9. CASE Operate \/ UNCHANGED vars
    <3>1. UNCHANGED <<apps, pushes, conn, seen, up, down, main, inst, lost>>
      BY <2>9 DEF Operate, vars, serverVars, client, Server!Operator, Server!Overwrite,
                  Server!ReadFile, Server!live, Server!disk
    <3>2. QED
      BY <2>1, <3>1
      DEF Held, Coming, IsBehind, InQueue, InTask, InFile, InUpdates, InRequest, HasOld, OldFile,
          OldCopy, Newest, Now
  <2>10. QED
    BY <1>0, <2>2, <2>3, <2>4, <2>5, <2>6, <2>7, <2>8, <2>9, StepsOfNext
<1>3. QED
  BY <1>0, <1>1, <1>2, LiveSources

\* Nothing is ever lost but what lost records.
LEMMA WaySafe == Spec => []WayInv
<1>1. Spec => []S!QueueInv
  BY ServerRuns, ServerAssumptions, S!QueueSafe, PTL
<1>2. Spec => []Grounds
  BY <1>1, TypeInvariant, BehindSafe, OrderSafe, TalkSafe, InstalledSafe, FreshSafe, PTL DEF Grounds
<1>3. QED
  BY <1>2, WayInitially, WayKept, PTL DEF Spec

\* A connected client that has checked for updates and is behind with an
\* application has its newest version on its way (NewestOnItsWay): in the queue,
\* with the handler, in a file, in a list of updates or in a request that leads
\* to it, whatever publications, takeovers, pushes and downloads cross.  The
\* exceptions are those that lost records, and faults of the disk.
THEOREM NewestIsOnItsWay == Spec => []NewestOnItsWay
<1>1. WayInv => NewestOnItsWay
  <2> SUFFICES ASSUME WayInv, faults = 0, NEW c \in Conns, NEW a \in Apps, Connected(c),
                      0 < inst[a].version, inst[a].version < apps[a].version
               PROVE  OnItsWay(c, a) \/ lost[a] = apps[a].version
    BY DEF NewestOnItsWay
  <2>1. Live(c) /\ Knows /\ IsBehind(c, a)
    BY DEF Connected, Live, Knows, IsBehind, HasOld
  <2>2. Coming(c, a) \/ lost[a] = apps[a].version
    BY <2>1 DEF WayInv, Held
  <2>3. Coming(c, a) => OnItsWay(c, a)
    BY DEF Coming, OnItsWay, InQueue, InTask, InFile, InUpdates, InRequest
  <2>4. QED
    BY <2>2, <2>3
<1>2. QED
  BY <1>1, WaySafe, PTL
=============================================================================
