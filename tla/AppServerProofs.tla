---------------------------- MODULE AppServerProofs ----------------------------
(***************************************************************************)
(* Theorems about AppServer, for every set of applications, clients and    *)
(* connections, and every number of publications, restarts and faults.     *)
(***************************************************************************)
EXTENDS AppServer, TLAPS

-----------------------------------------------------------------------------
(* Type correctness.                                                        *)

\* Field access on frames and tasks, and the values the constants rule out.
LEMMA Types ==
  /\ None \notin Apps /\ None \notin Clients /\ None \notin Conns
  /\ 1 \in Versions /\ 1 \in Contents
  /\ NoRecord \notin Records
  /\ <<>> \in Seq(Tasks)
  /\ NoHandler \in Handlers
  /\ \A r \in Requests :
       /\ r.kind = "HELLO" => r.client \in Clients
       /\ r.kind = "DOWNLOAD" => r.app \in Apps
       /\ r.kind = "CHECK_UPDATES" => r.known \subseteq Apps
<1>1. /\ None \notin Apps /\ None \notin Clients /\ None \notin Conns
      /\ 1 \in Versions /\ 1 \in Contents
      /\ NoRecord \notin Records
      /\ <<>> \in Seq(Tasks)
  BY NoneAssumption, BoundsAssumption DEF Versions, Contents, NoRecord, Records
<1>2. NoHandler \in Handlers
  BY DEF NoHandler, Handlers
<1>3. ASSUME NEW r \in Requests
      PROVE /\ r.kind = "HELLO" => r.client \in Clients
            /\ r.kind = "DOWNLOAD" => r.app \in Apps
            /\ r.kind = "CHECK_UPDATES" => r.known \subseteq Apps
  BY <1>3 DEF Requests
<1>4. QED
  BY <1>1, <1>2, <1>3

\* What a handler's control point says of its other fields.
Placed(h) ==
  /\ h.pc = "free" => h.client = None /\ h.hello = None
  /\ h.pc = "serve" => h.request \in Requests
  /\ h.pc \in {"closeOld", "welcome"} => h.hello \in Clients
  /\ h.pc \in {"idle", "push"} => h.client \in Clients
  /\ h.pc = "push" => h.task \in Tasks
  /\ h.transfer # None => h.client \in Clients

Control == conn \in [Conns -> Handlers] /\ \A c \in Conns : Placed(conn[c])

\* There is a number left for the publication that is under way.
RoomToPublish == pub # None => apps[pub.app].version < MaxVersion

TypeInv == TypeOK /\ Control /\ RoomToPublish

\* A queue of tasks stays one when a task is added or taken.
LEMMA QueueTypes ==
  ASSUME NEW q \in Seq(Tasks), NEW t \in Tasks
  PROVE  /\ Queued(q, t) \in Seq(Tasks)
         /\ q # <<>> => Head(q) \in Tasks /\ Tail(q) \in Seq(Tasks)
<1>1. [i \in DOMAIN q |-> IF q[i].app = t.app THEN t ELSE q[i]] \in Seq(Tasks)
  <2>1. DOMAIN q = 1..Len(q) /\ Len(q) \in Nat
    OBVIOUS
  <2>2. \A i \in 1..Len(q) : q[i] \in Tasks
    OBVIOUS
  <2> DEFINE r == [i \in 1..Len(q) |-> IF q[i].app = t.app THEN t ELSE q[i]]
  <2>3. r \in [1..Len(q) -> Tasks]
    BY <2>2
  <2>4. r \in Seq(Tasks)
    BY <2>1, <2>3
  <2>5. QED
    BY <2>1, <2>4
<1>2. Append(q, t) \in Seq(Tasks)
  OBVIOUS
<1>3. q # <<>> => Head(q) \in Tasks /\ Tail(q) \in Seq(Tasks)
  OBVIOUS
<1>4. QED
  BY <1>1, <1>2, <1>3 DEF Queued

\* A handler that moves to a fitting record keeps all handlers in order ...
LEMMA HandlerMoves ==
  ASSUME Control, NEW c \in Conns, NEW h \in Handlers, Placed(h),
         conn' = [conn EXCEPT ![c] = h]
  PROVE  Control'
BY DEF Control

\* ... so does one that leaves its loop, goes back to its top or reads on ...
LEMMA HandlerLeaves ==
  ASSUME Control, NEW c \in Conns, NEW pc \in {"select", "recv", "part", "cleanup"}, Goto(c, pc)
  PROVE  Control'
<1> DEFINE h == [conn[c] EXCEPT !.pc = pc]
<1>1. conn[c] \in Handlers /\ Placed(conn[c])
  BY DEF Control
<1>2. h \in Handlers /\ Placed(h)
  BY <1>1 DEF Handlers, Placed
<1>3. conn' = [conn EXCEPT ![c] = h]
  BY DEF Goto
<1>4. QED
  BY <1>2, <1>3, HandlerMoves

\* ... and one that sends.
LEMMA HandlerSends ==
  ASSUME Control, NEW c \in Conns, NEW h \in Handlers, Placed(h), Sent(c, h)
  PROVE  Control'
BY HandlerMoves, HandlerLeaves DEF Sent

\* Every step keeps the types, and the facts about control they depend on.
LEMMA TypeKept ==
  ASSUME TypeInv, [Next]_vars
  PROVE  TypeInv'
<1> USE DEF disk, live, bounds
<1>1. ASSUME NEW c \in Conns, Accept(c) PROVE TypeInv'
  <2> DEFINE h == [conn[c] EXCEPT !.pc = "select"]
  <2>1. conn[c] \in Handlers /\ Placed(conn[c])
    BY DEF TypeInv, Control
  <2>2. h \in Handlers /\ Placed(h)
    BY <1>1, <2>1, Types DEF Accept, Handlers, Placed
  <2>3. Control'
    BY <1>1, <2>2, HandlerMoves DEF Accept, TypeInv
  <2>4. QED
    BY <1>1, <2>3 DEF Accept, TypeInv, TypeOK, Control, RoomToPublish
<1>2. ASSUME NEW c \in Conns, NEW r \in Requests, Receive(c, r) PROVE TypeInv'
  <2> DEFINE h == [conn[c] EXCEPT !.pc = "serve", !.request = r]
  <2>1. conn[c] \in Handlers /\ Placed(conn[c])
    BY DEF TypeInv, Control
  <2>2. h \in Handlers /\ Placed(h)
    BY <1>2, <2>1, Types DEF Receive, Handlers, Placed
  <2>3. Control'
    BY <1>2, <2>2, HandlerMoves DEF Receive, TypeInv
  <2>4. QED
    BY <1>2, <2>3 DEF Receive, TypeInv, TypeOK, Control, RoomToPublish
<1>3. ASSUME NEW c \in Conns, Hangup(c) PROVE TypeInv'
  <2>1. Control'
    BY <1>3, HandlerLeaves DEF Hangup, TypeInv
  <2>2. QED
    BY <1>3, <2>1 DEF Hangup, TypeInv, TypeOK, Control, RoomToPublish
<1>4. ASSUME NEW c \in Conns, AckTimeout(c) PROVE TypeInv'
  <2>1. Control'
    BY <1>4, HandlerLeaves DEF AckTimeout, TypeInv
  <2>2. QED
    BY <1>4, <2>1 DEF AckTimeout, TypeInv, TypeOK, Control, RoomToPublish
<1>5. ASSUME NEW c \in Conns, Answer(c) PROVE TypeInv'
  <2> DEFINE h == Back(c)
  <2>1. conn[c] \in Handlers /\ Placed(conn[c])
    BY DEF TypeInv, Control
  <2>2. h \in Handlers /\ Placed(h)
    BY <2>1 DEF Handlers, Placed, Back
  <2>3. Control'
    BY <1>5, <2>2, HandlerSends DEF Answer, TypeInv, Back
  <2>4. QED
    BY <1>5, <2>3 DEF Answer, TypeInv, TypeOK, Control, RoomToPublish
<1>6. ASSUME NEW c \in Conns, Violation(c) PROVE TypeInv'
  <2>1. Control'
    BY <1>6, HandlerLeaves DEF Violation, TypeInv
  <2>2. QED
    BY <1>6, <2>1 DEF Violation, TypeInv, TypeOK, Control, RoomToPublish
<1>7. ASSUME NEW c \in Conns, AcceptAck(c) PROVE TypeInv'
  <2> DEFINE h == [Back(c) EXCEPT !.transfer = None]
  <2>1. conn[c] \in Handlers /\ Placed(conn[c])
    BY DEF TypeInv, Control
  <2>2. h \in Handlers /\ Placed(h)
    BY <2>1 DEF Handlers, Placed, Back
  <2>3. conn' = [conn EXCEPT ![c] = h] \/ Sent(c, h)
    BY <1>7 DEF AcceptAck, Back
  <2>4. Control'
    BY <2>2, <2>3, HandlerMoves, HandlerSends DEF TypeInv
  <2>5. conn[c].transfer \in Transfers /\ conn[c].client \in Clients
    BY <1>7, <2>1 DEF AcceptAck, Awaiting, Handlers, Placed
  <2>6. conn[c].transfer.app \in Apps
    BY <2>5 DEF Transfers
  <2>7. downloads' \in [Clients -> SUBSET Apps] /\ registry' \in [Clients -> SUBSET Apps]
    <3> DEFINE k == conn[c].client
               more == [downloads EXCEPT ![k] = @ \cup {conn[c].transfer.app}]
    <3>1. downloads[k] \cup {conn[c].transfer.app} \in SUBSET Apps
      BY <2>5, <2>6 DEF TypeInv, TypeOK
    <3>2. more \in [Clients -> SUBSET Apps]
      BY <3>1 DEF TypeInv, TypeOK
    <3>3. /\ downloads' \in {downloads, more}
          /\ registry' \in {registry, more}
      BY <1>7 DEF AcceptAck
    <3>4. QED
      BY <3>2, <3>3 DEF TypeInv, TypeOK
  <2>8. faults' \in 0..MaxFaults
    BY <1>7, BoundsAssumption DEF AcceptAck, TypeInv, TypeOK
  <2>9. QED
    BY <1>7, <2>4, <2>7, <2>8 DEF AcceptAck, TypeInv, TypeOK, Control, RoomToPublish
<1>8. ASSUME NEW c \in Conns, Hello(c) PROVE TypeInv'
  <2> DEFINE k == conn[c].request.client
             h == [conn[c] EXCEPT !.pc = "closeOld", !.request = None,
                                  !.hello = k, !.old = active[k]]
  <2>1. conn[c] \in Handlers /\ Placed(conn[c])
    BY DEF TypeInv, Control
  <2>2. k \in Clients
    BY <1>8, <2>1, Types DEF Hello, Serving, Placed
  <2>3. active[k] \in Conns \cup {None}
    BY <2>2 DEF TypeInv, TypeOK
  <2>4. h \in Handlers /\ Placed(h)
    BY <1>8, <2>1, <2>2, <2>3 DEF Hello, Serving, Registered, Awaiting, Handlers, Placed
  <2>5. conn' = [conn EXCEPT ![c] = h]
    BY <1>8 DEF Hello
  <2>6. Control'
    BY <2>4, <2>5, HandlerMoves DEF TypeInv
  <2>7. QED
    BY <1>8, <2>6, <2>2 DEF Hello, TypeInv, TypeOK, Control, RoomToPublish
<1>9. ASSUME NEW c \in Conns, CloseOld(c) PROVE TypeInv'
  <2> DEFINE h == [conn[c] EXCEPT !.pc = "welcome", !.old = None]
  <2>1. conn[c] \in Handlers /\ Placed(conn[c])
    BY DEF TypeInv, Control
  <2>2. h \in Handlers /\ Placed(h)
    BY <1>9, <2>1, Types DEF CloseOld, Handlers, Placed
  <2>3. Control'
    BY <1>9, <2>2, HandlerMoves DEF CloseOld, TypeInv
  <2>4. QED
    BY <1>9, <2>3 DEF CloseOld, TypeInv, TypeOK, Control, RoomToPublish
<1>10. ASSUME NEW c \in Conns, Welcome(c) PROVE TypeInv'
  <2> DEFINE h == [conn[c] EXCEPT !.pc = "select", !.client = conn[c].hello, !.hello = None]
  <2>1. conn[c] \in Handlers /\ Placed(conn[c])
    BY DEF TypeInv, Control
  <2>2. h \in Handlers /\ Placed(h)
    BY <1>10, <2>1, Types DEF Welcome, Handlers, Placed
  <2>3. Control'
    BY <1>10, <2>2, HandlerSends DEF Welcome, TypeInv
  <2>4. QED
    BY <1>10, <2>3 DEF Welcome, TypeInv, TypeOK, Control, RoomToPublish
<1>11. ASSUME NEW c \in Conns, Download(c) PROVE TypeInv'
  <2> DEFINE h == [Back(c) EXCEPT !.transfer = [kind |-> "DOWNLOAD", app |-> conn[c].request.app]]
  <2>1. conn[c] \in Handlers /\ Placed(conn[c])
    BY DEF TypeInv, Control
  <2>2. h \in Handlers /\ Placed(h)
    BY <1>11, <2>1, Types DEF Download, Handlers, Placed, Back, Transfers, Registered, Serving
  <2>3. Control'
    BY <1>11, <2>2, HandlerSends DEF Download, TypeInv, Back
  <2>4. QED
    BY <1>11, <2>3 DEF Download, TypeInv, TypeOK, Control, RoomToPublish
<1>12. ASSUME NEW c \in Conns, CheckUpdates(c) PROVE TypeInv'
  <2> DEFINE h == Back(c)
  <2>1. conn[c] \in Handlers /\ Placed(conn[c])
    BY DEF TypeInv, Control
  <2>2. h \in Handlers /\ Placed(h)
    BY <2>1 DEF Handlers, Placed, Back
  <2>3. Control'
    BY <1>12, <2>2, HandlerSends, HandlerLeaves DEF CheckUpdates, TypeInv
  <2>4. conn[c].request.known \subseteq Apps /\ conn[c].client \in Clients
    BY <1>12, <2>1, Types DEF CheckUpdates, Serving, Registered, Placed, Handlers
  <2>5. downloads' \in [Clients -> SUBSET Apps] /\ registry' \in [Clients -> SUBSET Apps]
    <3> DEFINE k == conn[c].client
               new == conn[c].request.known \ downloads[k]
               more == [downloads EXCEPT ![k] = @ \cup new]
    <3>1. downloads[k] \cup new \in SUBSET Apps
      BY <2>4 DEF TypeInv, TypeOK
    <3>2. more \in [Clients -> SUBSET Apps]
      BY <3>1 DEF TypeInv, TypeOK
    <3>3. downloads' = more /\ registry' \in {registry, more}
      BY <1>12 DEF CheckUpdates
    <3>4. QED
      BY <3>2, <3>3 DEF TypeInv, TypeOK
  <2>6. faults' \in 0..MaxFaults
    BY <1>12, BoundsAssumption DEF CheckUpdates, TypeInv, TypeOK
  <2>7. QED
    BY <1>12, <2>3, <2>5, <2>6 DEF CheckUpdates, TypeInv, TypeOK, Control, RoomToPublish
<1>13. ASSUME NEW c \in Conns, Disconnect(c) PROVE TypeInv'
  <2>1. Control'
    BY <1>13, HandlerLeaves DEF Disconnect, TypeInv
  <2>2. QED
    BY <1>13, <2>1 DEF Disconnect, TypeInv, TypeOK, Control, RoomToPublish
<1>14. ASSUME NEW c \in Conns, Idle(c) PROVE TypeInv'
  <2> DEFINE h == [conn[c] EXCEPT !.pc = "idle"]
  <2>1. conn[c] \in Handlers /\ Placed(conn[c])
    BY DEF TypeInv, Control
  <2>2. h \in Handlers /\ Placed(h)
    BY <1>14, <2>1, Types DEF Idle, Handlers, Placed, Registered
  <2>3. Control'
    BY <1>14, <2>2, HandlerMoves DEF Idle, Goto, TypeInv
  <2>4. QED
    BY <1>14, <2>3 DEF Idle, TypeInv, TypeOK, Control, RoomToPublish
<1>15. ASSUME NEW c \in Conns, PopPush(c) PROVE TypeInv'
  <2> DEFINE k == conn[c].client
  <2>1. conn[c] \in Handlers /\ Placed(conn[c])
    BY DEF TypeInv, Control
  <2>2. k \in Clients /\ pushes[k] \in Seq(Tasks)
    BY <1>15, <2>1 DEF PopPush, Placed, TypeInv, TypeOK
  <2>3. CASE pushes[k] = <<>>
    <3>1. Control'
      BY <1>15, <2>3, HandlerLeaves DEF PopPush, TypeInv
    <3>2. QED
      BY <1>15, <2>3, <3>1 DEF PopPush, TypeInv, TypeOK, Control, RoomToPublish
  <2>4. CASE pushes[k] # <<>>
    <3> DEFINE h == [conn[c] EXCEPT !.pc = "push", !.task = Head(pushes[k])]
    <3>1. Head(pushes[k]) \in Tasks /\ Tail(pushes[k]) \in Seq(Tasks)
      BY <2>2, <2>4
    <3>2. h \in Handlers /\ Placed(h)
      BY <2>1, <2>2, <3>1 DEF Handlers, Placed
    <3>3. conn' = [conn EXCEPT ![c] = h]
      BY <1>15, <2>4 DEF PopPush
    <3>4. Control'
      BY <3>2, <3>3, HandlerMoves DEF TypeInv
    <3>5. QED
      BY <1>15, <2>4, <3>1, <3>4 DEF PopPush, TypeInv, TypeOK, Control, RoomToPublish
  <2>5. QED
    BY <2>3, <2>4
<1>16. ASSUME NEW c \in Conns, SendPush(c) PROVE TypeInv'
  <2> DEFINE h == [conn[c] EXCEPT !.pc = "select", !.task = None,
                      !.transfer = [kind |-> "PUSH_UPDATE", app |-> conn[c].task.app]]
  <2>1. conn[c] \in Handlers /\ Placed(conn[c])
    BY DEF TypeInv, Control
  <2>2. h \in Handlers /\ Placed(h)
    BY <1>16, <2>1, Types DEF SendPush, Handlers, Placed, Transfers, Tasks
  <2>3. Control'
    BY <1>16, <2>2, HandlerSends DEF SendPush, TypeInv
  <2>4. QED
    BY <1>16, <2>3 DEF SendPush, TypeInv, TypeOK, Control, RoomToPublish
<1>17. ASSUME NEW c \in Conns, Cleanup(c) PROVE TypeInv'
  <2> DEFINE h == NoHandler
  <2>1. conn[c] \in Handlers /\ Placed(conn[c])
    BY DEF TypeInv, Control
  <2>2. h \in Handlers /\ Placed(h)
    BY <1>17, <2>1, Types DEF Cleanup, Handlers, Placed, NoHandler
  <2>3. Control'
    BY <1>17, <2>2, HandlerMoves DEF Cleanup, TypeInv
  <2>4. QED
    BY <1>17, <2>3 DEF Cleanup, TypeInv, TypeOK, Control, RoomToPublish
<1>18. ASSUME NEW a \in Apps, Overwrite(a) PROVE TypeInv'
  BY <1>18, BoundsAssumption DEF Overwrite, Contents, TypeInv, TypeOK, Control, RoomToPublish
<1>19. ASSUME NEW a \in Apps, ReadFile(a) PROVE TypeInv'
  BY <1>19 DEF ReadFile, TypeInv, TypeOK, Control, RoomToPublish
<1>20. CASE CommitPublish
  <2> DEFINE a == pub.app
             t == [app |-> a, version |-> apps[a].version + 1, hash |-> pub.hash]
  <2>1. a \in Apps /\ pub.hash \in Contents /\ apps[a].version < MaxVersion
    BY <1>20 DEF CommitPublish, TypeInv, TypeOK, RoomToPublish
  <2>2. t \in Tasks /\ [version |-> t.version, hash |-> t.hash] \in Records
    BY <2>1, BoundsAssumption DEF Tasks, Records, Versions, TypeInv, TypeOK
  <2>3. apps' \in [Apps -> Records]
    BY <1>20, <2>2 DEF CommitPublish, TypeInv, TypeOK
  <2>4. pushes' \in [Clients -> Seq(Tasks)]
    <3> DEFINE after == [k \in Clients |->
                 IF k \in Recipients(a) THEN Queued(pushes[k], t) ELSE pushes[k]]
    <3>1. \A k \in Clients : Queued(pushes[k], t) \in Seq(Tasks) /\ pushes[k] \in Seq(Tasks)
      BY <2>2, QueueTypes DEF TypeInv, TypeOK
    <3>2. after \in [Clients -> Seq(Tasks)]
      BY <3>1
    <3>3. pushes' \in {pushes, after}
      BY <1>20 DEF CommitPublish
    <3>4. QED
      BY <3>2, <3>3 DEF TypeInv, TypeOK
  <2>5. named' \in [Apps -> [Versions -> SUBSET Contents]]
    BY <1>20, <2>3 DEF CommitPublish, Renamed, Records, TypeInv, TypeOK
  <2>6. faults' \in 0..MaxFaults
    BY <1>20, BoundsAssumption DEF CommitPublish, TypeInv, TypeOK
  <2>7. manifest' \in [Apps -> Records \cup {NoRecord}]
    BY <1>20, <2>3 DEF CommitPublish, TypeInv, TypeOK
  <2>8. QED
    BY <1>20, <2>3, <2>4, <2>5, <2>6, <2>7
       DEF CommitPublish, TypeInv, TypeOK, Control, RoomToPublish
<1>21. CASE Restart
  <2>1. apps' \in [Apps -> Records]
    BY <1>21, Types DEF Restart, Bootstrapped, Records, TypeInv, TypeOK
  <2>2. named' \in [Apps -> [Versions -> SUBSET Contents]]
    BY <1>21, <2>1 DEF Restart, Renamed, Records, TypeInv, TypeOK
  <2>3. Control'
    BY <1>21, Types DEF Restart, Control, Placed, NoHandler
  <2>4. restarts' \in 0..MaxRestarts
    BY <1>21, BoundsAssumption DEF Restart, TypeInv, TypeOK
  <2>5. QED
    BY <1>21, <2>1, <2>2, <2>3, <2>4, Types DEF Restart, TypeInv, TypeOK, Control, RoomToPublish
<1>22. CASE DamageManifest
  BY <1>22, BoundsAssumption DEF DamageManifest, TypeInv, TypeOK, Control, RoomToPublish
<1>23. CASE UNCHANGED vars
  BY <1>23 DEF vars, TypeInv, TypeOK, Control, RoomToPublish
<1>24. ASSUME NEW c \in Conns, Part(c) \/ ReceiveMore(c) PROVE TypeInv'
  <2>1. Control'
    BY <1>24, HandlerLeaves DEF Part, ReceiveMore, TypeInv
  <2>2. QED
    BY <1>24, <2>1 DEF Part, ReceiveMore, TypeInv, TypeOK, Control, RoomToPublish
<1>25. QED
  BY <1>1, <1>2, <1>3, <1>4, <1>5, <1>6, <1>7, <1>8, <1>9, <1>10, <1>11, <1>12, <1>13, <1>14,
     <1>15, <1>16, <1>17, <1>18, <1>19, <1>20, <1>21, <1>22, <1>23, <1>24
     DEF Next, Handler, Sends, Moves, Reads, Selects, Operator

\* The initial state has them ...
LEMMA TypeHoldsInitially == Init => TypeInv
<1> SUFFICES ASSUME Init PROVE TypeInv
  OBVIOUS
<1>1. file \in [Apps -> Contents] /\ apps \in [Apps -> Records]
  BY Types DEF Init, Records
<1>2. named \in [Apps -> [Versions -> SUBSET Contents]]
  BY Types DEF Init
<1>3. conn \in [Conns -> Handlers] /\ Control
  BY Types DEF Init, Control, Placed, NoHandler
<1>4. restarts \in 0..MaxRestarts /\ faults \in 0..MaxFaults
  BY BoundsAssumption DEF Init
<1>5. pushes \in [Clients -> Seq(Tasks)] /\ active \in [Clients -> Conns \cup {None}]
  BY Types DEF Init
<1>6. QED
  BY <1>1, <1>2, <1>3, <1>4, <1>5 DEF Init, TypeInv, TypeOK, RoomToPublish

\* ... and so has every reachable one.
LEMMA TypeInvariant == Spec => []TypeInv
BY TypeHoldsInitially, TypeKept, PTL DEF Spec

\* Every variable of the server keeps its type.
THEOREM TypeCorrect == Spec => []TypeOK
<1>1. TypeInv => TypeOK
  BY DEF TypeInv
<1>2. QED
  BY <1>1, TypeInvariant, PTL

-----------------------------------------------------------------------------
(* Versions and downloads across restarts.                                  *)

\* What the disk has is what the memory has, no version to come has a content
\* yet, and the current one has exactly its own: while no disk operation fails.
HistoryInv == faults = 0 =>
  /\ manifest = apps /\ registry = downloads
  /\ \A a \in Apps, v \in Versions :
       /\ v > apps[a].version => named[a][v] = {}
       /\ v = apps[a].version => named[a][v] = {apps[a].hash}
       /\ \A x, y \in named[a][v] : x = y

\* Steps of a handler that leave versions, downloads and the disk alone.
Elsewhere(c) ==
  \/ Accept(c) \/ Hangup(c) \/ AckTimeout(c) \/ Answer(c) \/ Violation(c) \/ Hello(c)
  \/ CloseOld(c) \/ Welcome(c) \/ Download(c) \/ Disconnect(c) \/ Idle(c) \/ PopPush(c)
  \/ SendPush(c) \/ Cleanup(c) \/ Part(c) \/ ReceiveMore(c) \/ \E r \in Requests : Receive(c, r)

\* They keep what the invariant of histories speaks of.
LEMMA ElsewhereKeeps ==
  ASSUME NEW c \in Conns, Elsewhere(c)
  PROVE  UNCHANGED <<apps, manifest, downloads, registry, named, faults>>
BY DEF Elsewhere, Accept, Hangup, AckTimeout, Answer, Violation, Hello, CloseOld, Welcome,
       Download, Disconnect, Idle, PopPush, SendPush, Cleanup, Part, ReceiveMore, Receive, disk, bounds

\* Every step is one of these, or one of the few that are looked at below.
LEMMA StepsOfNext ==
  ASSUME [Next]_vars
  PROVE  \/ \E c \in Conns : Elsewhere(c) \/ AcceptAck(c) \/ CheckUpdates(c)
         \/ \E a \in Apps : Overwrite(a) \/ ReadFile(a)
         \/ CommitPublish \/ Restart \/ DamageManifest \/ UNCHANGED vars
BY DEF Next, Handler, Sends, Moves, Reads, Selects, Operator, Elsewhere

\* The invariant holds across publications, failures and restarts.
LEMMA HistorySafe == Spec => []HistoryInv
<1>1. Init => HistoryInv
  <2> SUFFICES ASSUME Init PROVE HistoryInv
    OBVIOUS
  <2>1. \A a \in Apps, v \in Versions :
          apps[a] = [version |-> 1, hash |-> 1] /\ named[a][v] = IF v = 1 THEN {1} ELSE {}
    BY DEF Init
  <2>2. QED
    BY <2>1 DEF Init, HistoryInv, Versions
<1>2. TypeInv /\ TypeInv' /\ HistoryInv /\ [Next]_vars => HistoryInv'
  <2> SUFFICES ASSUME TypeInv, TypeInv', HistoryInv, [Next]_vars PROVE HistoryInv'
    OBVIOUS
  <2>1. ASSUME NEW c \in Conns, Elsewhere(c) PROVE HistoryInv'
    BY <2>1, ElsewhereKeeps DEF HistoryInv
  <2>2. ASSUME NEW c \in Conns, AcceptAck(c) PROVE HistoryInv'
    <3>1. faults' = 0 => faults = 0 /\ (registry = downloads => registry' = downloads')
      BY <2>2 DEF AcceptAck, TypeInv, TypeOK
    <3>2. QED
      BY <2>2, <3>1 DEF AcceptAck, HistoryInv
  <2>3. ASSUME NEW c \in Conns, CheckUpdates(c) PROVE HistoryInv'
    <3>1. faults' = 0 => faults = 0 /\ (registry = downloads => registry' = downloads')
      <4> DEFINE k == conn[c].client
                 new == conn[c].request.known \ downloads[k]
      <4>1. downloads' = [downloads EXCEPT ![k] = @ \cup new]
        BY <2>3 DEF CheckUpdates
      <4>2. downloads \in [Clients -> SUBSET Apps]
        BY DEF TypeInv, TypeOK
      <4>3. new = {} => downloads' = downloads
        BY <4>1, <4>2
      <4>4. QED
        BY <2>3, <4>3 DEF CheckUpdates, TypeInv, TypeOK
    <3>2. QED
      BY <2>3, <3>1 DEF CheckUpdates, HistoryInv
  <2>4. ASSUME NEW a \in Apps, Overwrite(a) \/ ReadFile(a) PROVE HistoryInv'
    BY <2>4 DEF Overwrite, ReadFile, HistoryInv, disk, bounds
  <2>5. CASE CommitPublish
    <3> SUFFICES ASSUME faults' = 0 PROVE HistoryInv'
      BY DEF HistoryInv
    <3> DEFINE b == pub.app
    <3>1. faults = 0 /\ manifest' = apps' /\ registry' = downloads'
      BY <2>5 DEF CommitPublish, HistoryInv, TypeInv, TypeOK
    <3>2. b \in Apps /\ pub.hash \in Contents /\ apps[b].version < MaxVersion
      BY <2>5 DEF CommitPublish, TypeInv, TypeOK, RoomToPublish
    <3>3. apps' = [apps EXCEPT ![b] = [version |-> apps[b].version + 1, hash |-> pub.hash]]
      BY <2>5 DEF CommitPublish
    <3>4. \A a \in Apps, v \in Versions :
            named'[a][v] = IF v = apps'[a].version THEN named[a][v] \cup {apps'[a].hash}
                                                   ELSE named[a][v]
      BY <2>5 DEF CommitPublish, Renamed
    <3>5. \A a \in Apps : apps[a].version \in Nat
      BY DEF TypeInv, TypeOK, Records, Versions
    <3>6. ASSUME NEW a \in Apps, NEW v \in Versions
          PROVE  /\ v > apps'[a].version => named'[a][v] = {}
                 /\ v = apps'[a].version => named'[a][v] = {apps'[a].hash}
                 /\ \A x, y \in named'[a][v] : x = y
      <4>1. /\ v > apps[a].version => named[a][v] = {}
            /\ v = apps[a].version => named[a][v] = {apps[a].hash}
            /\ \A x, y \in named[a][v] : x = y
        BY <3>1 DEF HistoryInv
      <4>2. CASE a = b
        <5>1. apps'[a].version = apps[a].version + 1
          BY <3>2, <3>3, <4>2 DEF TypeInv, TypeOK
        <5>2. named'[a][v] = IF v = apps'[a].version THEN named[a][v] \cup {apps'[a].hash}
                                                     ELSE named[a][v]
          BY <3>4
        <5>3. v \in Nat /\ apps[a].version \in Nat
          BY <3>5 DEF Versions
        <5>4. CASE v = apps'[a].version
          <6>1. v > apps[a].version
            BY <5>1, <5>3, <5>4
          <6>2. named'[a][v] = {apps'[a].hash}
            BY <4>1, <5>2, <5>4, <6>1
          <6>3. QED
            BY <5>1, <5>3, <5>4, <6>2
        <5>5. CASE v # apps'[a].version
          <6>1. named'[a][v] = named[a][v]
            BY <5>2, <5>5
          <6>2. v > apps'[a].version => v > apps[a].version
            BY <5>1, <5>3
          <6>3. QED
            BY <4>1, <5>5, <6>1, <6>2
        <5>6. QED
          BY <5>4, <5>5
      <4>3. CASE a # b
        <5>1. apps'[a] = apps[a]
          BY <3>3, <4>3 DEF TypeInv, TypeOK
        <5>2. named'[a][v] = IF v = apps[a].version THEN named[a][v] \cup {apps[a].hash}
                                                    ELSE named[a][v]
          BY <3>4, <5>1
        <5>3. named'[a][v] = named[a][v]
          BY <4>1, <5>2
        <5>4. QED
          BY <4>1, <5>1, <5>3
      <4>4. QED
        BY <4>2, <4>3
    <3>7. QED
      BY <3>1, <3>6 DEF HistoryInv
  <2>6. CASE Restart
    <3> SUFFICES ASSUME faults' = 0 PROVE HistoryInv'
      BY DEF HistoryInv
    <3>1. faults = 0
      BY <2>6 DEF Restart
    <3>2. \A a \in Apps : manifest[a] = apps[a] /\ apps[a] # NoRecord
      BY <3>1, Types DEF HistoryInv, TypeInv, TypeOK
    <3>3. apps' = apps
      BY <2>6, <3>2 DEF Restart, Bootstrapped, TypeInv, TypeOK
    <3>4. \A a \in Apps, v \in Versions :
            named'[a][v] = IF v = apps[a].version THEN named[a][v] \cup {apps[a].hash}
                                                  ELSE named[a][v]
      BY <2>6, <3>3 DEF Restart, Renamed
    <3>5. \A a \in Apps, v \in Versions : named'[a][v] = named[a][v]
      <4> SUFFICES ASSUME NEW a \in Apps, NEW v \in Versions
                   PROVE  named'[a][v] = named[a][v]
        OBVIOUS
      <4>1. v = apps[a].version => named[a][v] = {apps[a].hash}
        BY <3>1 DEF HistoryInv
      <4>2. named'[a][v] = IF v = apps[a].version THEN named[a][v] \cup {apps[a].hash}
                                                  ELSE named[a][v]
        BY <3>4
      <4>3. QED
        BY <4>1, <4>2
    <3>6. QED
      BY <2>6, <3>1, <3>3, <3>5 DEF Restart, HistoryInv
  <2>7. CASE DamageManifest
    BY <2>7 DEF DamageManifest, HistoryInv, TypeInv, TypeOK
  <2>8. CASE UNCHANGED vars
    BY <2>8 DEF vars, HistoryInv, disk, bounds
  <2>9. QED
    BY <2>1, <2>2, <2>3, <2>4, <2>5, <2>6, <2>7, <2>8, StepsOfNext
<1>3. QED
  BY <1>1, <1>2, TypeInvariant, PTL DEF Spec

\* A version number stands for one content, across publications and restarts,
\* as long as no disk operation has failed.
THEOREM VersionsNameOneContent == Spec => []VersionNamesOneContent
<1>1. HistoryInv => VersionNamesOneContent
  BY DEF HistoryInv, VersionNamesOneContent
<1>2. QED
  BY <1>1, HistorySafe, PTL

\* What is saved is what the memory has, or older, whatever saves have failed.
Behind(m, r) == m = r \/ m.version < r.version

SavedInv ==
  /\ \A a \in Apps : Behind(manifest[a], apps[a])
  /\ \A k \in Clients : registry[k] \subseteq downloads[k]

\* Versions count from 1, but for an application that is not in the manifest.
LEMMA VersionNumbers ==
  ASSUME TypeInv, NEW a \in Apps
  PROVE  /\ apps[a].version \in Nat \ {0} /\ manifest[a].version \in Nat
         /\ NoRecord.version = 0
BY DEF TypeInv, TypeOK, Records, Versions, NoRecord

\* The registered download of an ACK is added to what there is.
LEMMA AckAdds ==
  ASSUME TypeInv, NEW c \in Conns, AcceptAck(c)
  PROVE  /\ \A k \in Clients : downloads[k] \subseteq downloads'[k]
         /\ registry' = registry \/ registry' = downloads'
         /\ UNCHANGED <<apps, manifest>>
<1> DEFINE more == [downloads EXCEPT ![conn[c].client] = @ \cup {conn[c].transfer.app}]
<1>1. downloads \in [Clients -> SUBSET Apps]
  BY DEF TypeInv, TypeOK
<1>2. \A k \in Clients : downloads[k] \subseteq more[k]
  BY <1>1
<1>3. /\ downloads' \in {downloads, more} /\ UNCHANGED <<apps, manifest>>
      /\ registry' = registry \/ registry' = downloads'
  BY DEF AcceptAck
<1>4. \A k \in Clients : downloads[k] \subseteq downloads'[k]
  <2> HIDE DEF more
  <2>1. QED
    BY <1>2, <1>3
<1>5. QED
  BY <1>3, <1>4

\* So is what a client says it has.
LEMMA CheckAdds ==
  ASSUME TypeInv, NEW c \in Conns, CheckUpdates(c)
  PROVE  /\ \A k \in Clients : downloads[k] \subseteq downloads'[k]
         /\ registry' = registry \/ registry' = downloads'
         /\ UNCHANGED <<apps, manifest>>
BY DEF CheckUpdates, TypeInv, TypeOK

\* A publication counts one version up, in memory and, if saved, on disk.
LEMMA CommitCounts ==
  ASSUME TypeInv, CommitPublish
  PROVE  /\ \A a \in Apps : apps'[a] = apps[a] \/ apps'[a].version = apps[a].version + 1
         /\ manifest' = manifest \/ manifest' = apps'
         /\ UNCHANGED <<downloads, registry>>
<1>1. apps' = [apps EXCEPT ![pub.app] =
                 [version |-> apps[pub.app].version + 1, hash |-> pub.hash]]
  BY DEF CommitPublish
<1>2. QED
  BY <1>1 DEF CommitPublish, TypeInv, TypeOK

\* A restart takes back what is on disk, and gives what is missing version 1.
LEMMA RestartTakesBack ==
  ASSUME TypeInv, Restart
  PROVE  /\ \A a \in Apps : IF manifest[a] = NoRecord THEN apps'[a].version = 1
                                                      ELSE apps'[a] = manifest[a]
         /\ manifest' = apps' /\ downloads' = registry /\ registry' = registry
         /\ faults' = faults
BY DEF Restart, Bootstrapped, TypeInv, TypeOK

\* The disk never has what the memory has not, whatever saves fail and however
\* often the server is restarted.
LEMMA SavedSafe == Spec => []SavedInv
<1>1. Init => SavedInv
  BY DEF Init, SavedInv, Behind
<1>2. TypeInv /\ SavedInv /\ [Next]_vars => SavedInv'
  <2> SUFFICES ASSUME TypeInv, SavedInv, [Next]_vars PROVE SavedInv'
    OBVIOUS
  <2>0. \A a \in Apps : /\ apps[a].version \in Nat \ {0} /\ manifest[a].version \in Nat
                        /\ NoRecord.version = 0
    BY VersionNumbers
  <2>1. ASSUME NEW c \in Conns, Elsewhere(c) PROVE SavedInv'
    BY <2>1, ElsewhereKeeps DEF SavedInv, Behind
  <2>2. ASSUME NEW c \in Conns, AcceptAck(c) PROVE SavedInv'
    BY <2>2, AckAdds DEF SavedInv, Behind
  <2>3. ASSUME NEW c \in Conns, CheckUpdates(c) PROVE SavedInv'
    BY <2>3, CheckAdds DEF SavedInv, Behind
  <2>4. ASSUME NEW a \in Apps, Overwrite(a) \/ ReadFile(a) PROVE SavedInv'
    BY <2>4 DEF Overwrite, ReadFile, SavedInv, Behind, disk
  <2>5. CASE CommitPublish
    <3>1. \A a \in Apps : Behind(manifest'[a], apps'[a])
      BY <2>0, <2>5, CommitCounts DEF SavedInv, Behind
    <3>2. QED
      BY <2>5, <3>1, CommitCounts DEF SavedInv
  <2>6. CASE Restart
    BY <2>6, RestartTakesBack DEF SavedInv, Behind
  <2>7. CASE DamageManifest
    <3>1. \A a \in Apps : manifest'[a] = NoRecord /\ apps'[a] = apps[a]
      BY <2>7 DEF DamageManifest
    <3>2. \A a \in Apps : Behind(manifest'[a], apps'[a])
      BY <2>0, <3>1 DEF Behind
    <3>3. QED
      BY <2>7, <3>2 DEF DamageManifest, SavedInv
  <2>8. CASE UNCHANGED vars
    BY <2>8 DEF vars, SavedInv, Behind, disk
  <2>9. QED
    BY <2>1, <2>2, <2>3, <2>4, <2>5, <2>6, <2>7, <2>8, StepsOfNext
<1>3. QED
  BY <1>1, <1>2, TypeInvariant, PTL DEF Spec

\* What a step may not do to what is saved ...
SavedStands ==
  /\ \A a \in Apps : \/ manifest'[a] \in {manifest[a], NoRecord}
                     \/ manifest'[a].version > manifest[a].version
  /\ \A k \in Clients : registry[k] \subseteq registry'[k]

\* ... and to what the memory has, while no disk operation fails.
MemoryStands ==
  faults' = 0 =>
    /\ \A a \in Apps : apps'[a].version >= apps[a].version
    /\ \A k \in Clients : downloads[k] \subseteq downloads'[k]

\* No step does the first: a save writes what is newer than what it replaces.
LEMMA StepsKeepSaved ==
  ASSUME TypeInv, SavedInv, [Next]_vars
  PROVE  SavedStands
<1> USE DEF SavedStands
<1>0. \A a \in Apps : /\ apps[a].version \in Nat \ {0} /\ manifest[a].version \in Nat
                      /\ NoRecord.version = 0
  BY VersionNumbers
<1>1. ASSUME NEW c \in Conns, Elsewhere(c) PROVE SavedStands
  BY <1>1, ElsewhereKeeps
<1>2. ASSUME NEW c \in Conns, AcceptAck(c) PROVE SavedStands
  BY <1>2, AckAdds DEF SavedInv
<1>3. ASSUME NEW c \in Conns, CheckUpdates(c) PROVE SavedStands
  BY <1>3, CheckAdds DEF SavedInv
<1>4. ASSUME NEW a \in Apps, Overwrite(a) \/ ReadFile(a) PROVE SavedStands
  BY <1>4 DEF Overwrite, ReadFile, disk
<1>5. CASE CommitPublish
  <2>1. \A a \in Apps : \/ manifest'[a] \in {manifest[a], NoRecord}
                        \/ manifest'[a].version > manifest[a].version
    BY <1>0, <1>5, CommitCounts DEF SavedInv, Behind
  <2>2. QED
    BY <1>5, <2>1, CommitCounts
<1>6. CASE Restart
  BY <1>0, <1>6, RestartTakesBack
<1>7. CASE DamageManifest
  BY <1>7 DEF DamageManifest
<1>8. CASE UNCHANGED vars
  BY <1>8 DEF vars, disk
<1>9. QED
  BY <1>1, <1>2, <1>3, <1>4, <1>5, <1>6, <1>7, <1>8, StepsOfNext

\* Nor the second: what a restart reads back is what was there before.
LEMMA StepsForgetNothing ==
  ASSUME TypeInv, HistoryInv, [Next]_vars
  PROVE  MemoryStands
<1> USE DEF MemoryStands
<1>0. \A a \in Apps : apps[a].version \in Nat \ {0}
  BY VersionNumbers
<1>1. ASSUME NEW c \in Conns, Elsewhere(c) PROVE MemoryStands
  BY <1>0, <1>1, ElsewhereKeeps
<1>2. ASSUME NEW c \in Conns, AcceptAck(c) PROVE MemoryStands
  BY <1>0, <1>2, AckAdds
<1>3. ASSUME NEW c \in Conns, CheckUpdates(c) PROVE MemoryStands
  BY <1>0, <1>3, CheckAdds
<1>4. ASSUME NEW a \in Apps, Overwrite(a) \/ ReadFile(a) PROVE MemoryStands
  BY <1>0, <1>4 DEF Overwrite, ReadFile
<1>5. CASE CommitPublish
  BY <1>0, <1>5, CommitCounts
<1>6. CASE Restart
  <2> SUFFICES ASSUME faults' = 0 PROVE MemoryStands
    OBVIOUS
  <2>1. /\ \A a \in Apps : manifest[a] = apps[a] /\ apps[a] # NoRecord
        /\ registry = downloads
    BY <1>6, Types, RestartTakesBack DEF HistoryInv, TypeInv, TypeOK
  <2>2. /\ \A a \in Apps : apps'[a] = apps[a]
        /\ downloads' = downloads
    BY <1>6, <2>1, RestartTakesBack
  <2>3. QED
    BY <1>0, <2>2
<1>7. CASE DamageManifest
  BY <1>0, <1>7 DEF DamageManifest
<1>8. CASE UNCHANGED vars
  BY <1>0, <1>8 DEF vars
<1>9. QED
  BY <1>1, <1>2, <1>3, <1>4, <1>5, <1>6, <1>7, <1>8, StepsOfNext

\* What is saved stands, whatever saves fail and whenever the server is restarted:
\* a version keeps its content in the manifest until a newer one replaces it or the
\* file is damaged, and no registered download is lost.  As long as no disk
\* operation has failed the memory forgets nothing either.
THEOREM RestartsForgetNothing == Spec => NothingForgotten
<1> DEFINE Step ==
      /\ \A a \in Apps : \/ manifest'[a] \in {manifest[a], NoRecord}
                         \/ manifest'[a].version > manifest[a].version
      /\ \A k \in Clients : registry[k] \subseteq registry'[k]
      /\ faults' = 0 =>
           /\ \A a \in Apps : apps'[a].version >= apps[a].version
           /\ \A k \in Clients : downloads[k] \subseteq downloads'[k]
<1>1. TypeInv /\ SavedInv /\ HistoryInv /\ [Next]_vars => Step
  <2>1. SavedStands /\ MemoryStands => Step
    BY DEF SavedStands, MemoryStands
  <2>2. QED
    BY <2>1, StepsKeepSaved, StepsForgetNothing
<1>2. QED
  BY <1>1, TypeInvariant, SavedSafe, HistorySafe, PTL DEF Spec, NothingForgotten

-----------------------------------------------------------------------------
(* Takeover: who is registered, and who is about to be closed.              *)

\* A connection that serves a client, or is about to, with a usable socket, is
\* the registered one or the one that a newer connection is about to close.
Claims(c, k) == conn[c].client = k \/ conn[c].hello = k
Closing(c) == \E d \in Conns : conn[d].pc = "closeOld" /\ conn[d].old = c

TakeoverInv ==
  \A c \in Conns, k \in Clients :
    Claims(c, k) /\ open[c] /\ active[k] # c => Closing(c)

\* Steps that neither register, claim, open nor close anything.
SameRoles ==
  /\ UNCHANGED <<active, open>>
  /\ \A c \in Conns, k \in Clients : Claims(c, k)' => Claims(c, k)
  /\ \A c \in Conns : Closing(c) => Closing(c)'

\* They keep the invariant of takeovers.
LEMMA SameRolesKeep ==
  ASSUME TakeoverInv, SameRoles
  PROVE  TakeoverInv'
BY DEF TakeoverInv, SameRoles

\* One handler has moved, and was not and is not about to close another.
LEMMA OneMoved ==
  ASSUME TypeOK, NEW c \in Conns, conn[c].pc # "closeOld", NEW h, conn' = [conn EXCEPT ![c] = h],
         UNCHANGED <<active, open>>,
         \A k \in Clients : h.client = k \/ h.hello = k => Claims(c, k)
  PROVE  SameRoles
<1>1. conn'[c] = h /\ \A d \in Conns \ {c} : conn'[d] = conn[d]
  BY DEF TypeOK
<1>2. QED
  BY <1>1 DEF SameRoles, Claims, Closing

\* One handler has sent something, and neither closes nor claims more than before.
LEMMA OneSent ==
  ASSUME TypeOK, NEW c \in Conns, conn[c].pc # "closeOld", NEW h, Sent(c, h),
         UNCHANGED <<active, open>>,
         \A k \in Clients : h.client = k \/ h.hello = k => Claims(c, k)
  PROVE  SameRoles
<1>1. conn[c] \in Handlers
  BY DEF TypeOK
<1> DEFINE g == [conn[c] EXCEPT !.pc = "cleanup"]
<1>2. CASE conn' = [conn EXCEPT ![c] = h]
  BY <1>2, OneMoved
<1>3. CASE Goto(c, "cleanup")
  <2>1. conn' = [conn EXCEPT ![c] = g]
    BY <1>3 DEF Goto
  <2>2. g.client = conn[c].client /\ g.hello = conn[c].hello
    BY <1>1 DEF Handlers
  <2>3. QED
    BY <2>1, <2>2, OneMoved DEF Claims
<1>4. QED
  BY <1>2, <1>3 DEF Sent

\* The invariant holds whatever takeovers overlap.
LEMMA TakeoverSafe == Spec => []TakeoverInv
<1>1. Init => TakeoverInv
  BY Types DEF Init, TakeoverInv, Claims, NoHandler
<1>2. TypeInv /\ TakeoverInv /\ [Next]_vars => TakeoverInv'
  <2> SUFFICES ASSUME TypeInv, TakeoverInv, [Next]_vars PROVE TakeoverInv'
    OBVIOUS
  <2>0. \A c \in Conns : conn[c] \in Handlers /\ Placed(conn[c])
    BY DEF TypeInv, Control
  <2>1. ASSUME NEW c \in Conns, Accept(c) PROVE TakeoverInv'
    <3>1. \A d \in Conns : /\ conn'[d].old = conn[d].old /\ conn'[d].client = conn[d].client
                           /\ conn'[d].hello = conn[d].hello
                           /\ d # c => conn'[d] = conn[d] /\ open'[d] = open[d]
      BY <2>0, <2>1 DEF Accept, Handlers, TypeInv, TypeOK
    <3>2. conn[c].pc = "free" /\ conn[c].client = None /\ conn[c].hello = None /\ UNCHANGED active
      BY <2>0, <2>1 DEF Accept, live, Placed
    <3>3. QED
      BY <3>1, <3>2, Types DEF TakeoverInv, Claims, Closing
  <2>2. ASSUME NEW c \in Conns, Hangup(c) PROVE TakeoverInv'
    <3> DEFINE h == [conn[c] EXCEPT !.pc = "cleanup"]
    <3>1. conn' = [conn EXCEPT ![c] = h]
      BY <2>2 DEF Hangup, Goto
    <3>2. conn[c].pc # "closeOld" /\ UNCHANGED <<active, open>>
      BY <2>2 DEF Hangup, Serving, live
    <3>3. \A k \in Clients : h.client = k \/ h.hello = k => Claims(c, k)
      BY <2>0 DEF Handlers, Claims
    <3>4. QED
      BY <3>1, <3>2, <3>3, OneMoved, SameRolesKeep DEF TypeInv
  <2>3. ASSUME NEW c \in Conns, AckTimeout(c) PROVE TakeoverInv'
    <3> DEFINE h == [conn[c] EXCEPT !.pc = "cleanup"]
    <3>1. conn' = [conn EXCEPT ![c] = h]
      BY <2>3 DEF AckTimeout, Goto
    <3>2. conn[c].pc # "closeOld" /\ UNCHANGED <<active, open>>
      BY <2>3 DEF AckTimeout, Serving, live
    <3>3. \A k \in Clients : h.client = k \/ h.hello = k => Claims(c, k)
      BY <2>0 DEF Handlers, Claims
    <3>4. QED
      BY <3>1, <3>2, <3>3, OneMoved, SameRolesKeep DEF TypeInv
  <2>4. ASSUME NEW c \in Conns, Violation(c) PROVE TakeoverInv'
    <3> DEFINE h == [conn[c] EXCEPT !.pc = "cleanup"]
    <3>1. conn' = [conn EXCEPT ![c] = h]
      BY <2>4 DEF Violation, Goto
    <3>2. conn[c].pc # "closeOld" /\ UNCHANGED <<active, open>>
      BY <2>4 DEF Violation, Serving, live
    <3>3. \A k \in Clients : h.client = k \/ h.hello = k => Claims(c, k)
      BY <2>0 DEF Handlers, Claims
    <3>4. QED
      BY <3>1, <3>2, <3>3, OneMoved, SameRolesKeep DEF TypeInv
  <2>5. ASSUME NEW c \in Conns, Disconnect(c) PROVE TakeoverInv'
    <3> DEFINE h == [conn[c] EXCEPT !.pc = "cleanup"]
    <3>1. conn' = [conn EXCEPT ![c] = h]
      BY <2>5 DEF Disconnect, Goto
    <3>2. conn[c].pc # "closeOld" /\ UNCHANGED <<active, open>>
      BY <2>5 DEF Disconnect, Serving, live
    <3>3. \A k \in Clients : h.client = k \/ h.hello = k => Claims(c, k)
      BY <2>0 DEF Handlers, Claims
    <3>4. QED
      BY <3>1, <3>2, <3>3, OneMoved, SameRolesKeep DEF TypeInv
  <2>6. ASSUME NEW c \in Conns, Idle(c) PROVE TakeoverInv'
    <3> DEFINE h == [conn[c] EXCEPT !.pc = "idle"]
    <3>1. conn' = [conn EXCEPT ![c] = h]
      BY <2>6 DEF Idle, Goto
    <3>2. conn[c].pc # "closeOld" /\ UNCHANGED <<active, open>>
      BY <2>6 DEF Idle, Serving, live
    <3>3. \A k \in Clients : h.client = k \/ h.hello = k => Claims(c, k)
      BY <2>0 DEF Handlers, Claims
    <3>4. QED
      BY <3>1, <3>2, <3>3, OneMoved, SameRolesKeep DEF TypeInv
  <2>7. ASSUME NEW c \in Conns, NEW r \in Requests, Receive(c, r) PROVE TakeoverInv'
    <3> DEFINE h == [conn[c] EXCEPT !.pc = "serve", !.request = r]
    <3>1. conn' = [conn EXCEPT ![c] = h]
      BY <2>7 DEF Receive
    <3>2. conn[c].pc # "closeOld" /\ UNCHANGED <<active, open>>
      BY <2>7 DEF Receive, Serving, live
    <3>3. \A k \in Clients : h.client = k \/ h.hello = k => Claims(c, k)
      BY <2>0 DEF Handlers, Claims
    <3>4. QED
      BY <3>1, <3>2, <3>3, OneMoved, SameRolesKeep DEF TypeInv
  <2>8. ASSUME NEW c \in Conns, Answer(c) PROVE TakeoverInv'
    <3> DEFINE h == Back(c)
    <3>1. Sent(c, h)
      BY <2>8 DEF Answer
    <3>2. conn[c].pc # "closeOld" /\ UNCHANGED <<active, open>>
      BY <2>8 DEF Answer, Serving, live
    <3>3. \A k \in Clients : h.client = k \/ h.hello = k => Claims(c, k)
      BY <2>0 DEF Handlers, Claims, Back
    <3>4. QED
      BY <3>1, <3>2, <3>3, OneSent, SameRolesKeep DEF TypeInv
  <2>9. ASSUME NEW c \in Conns, Download(c) PROVE TakeoverInv'
    <3> DEFINE h == [Back(c) EXCEPT !.transfer = [kind |-> "DOWNLOAD", app |-> conn[c].request.app]]
    <3>1. Sent(c, h)
      BY <2>9 DEF Download
    <3>2. conn[c].pc # "closeOld" /\ UNCHANGED <<active, open>>
      BY <2>9 DEF Download, Serving, live
    <3>3. \A k \in Clients : h.client = k \/ h.hello = k => Claims(c, k)
      BY <2>0 DEF Handlers, Claims, Back
    <3>4. QED
      BY <3>1, <3>2, <3>3, OneSent, SameRolesKeep DEF TypeInv
  <2>10. ASSUME NEW c \in Conns, Welcome(c) PROVE TakeoverInv'
    <3> DEFINE h == [conn[c] EXCEPT !.pc = "select", !.client = conn[c].hello, !.hello = None]
    <3>1. Sent(c, h)
      BY <2>10 DEF Welcome
    <3>2. conn[c].pc # "closeOld" /\ UNCHANGED <<active, open>>
      BY <2>10 DEF Welcome, Serving, live
    <3>3. \A k \in Clients : h.client = k \/ h.hello = k => Claims(c, k)
      BY <2>0, Types DEF Handlers, Claims
    <3>4. QED
      BY <3>1, <3>2, <3>3, OneSent, SameRolesKeep DEF TypeInv
  <2>11. ASSUME NEW c \in Conns, SendPush(c) PROVE TakeoverInv'
    <3> DEFINE h == [conn[c] EXCEPT !.pc = "select", !.task = None,
                        !.transfer = [kind |-> "PUSH_UPDATE", app |-> conn[c].task.app]]
    <3>1. Sent(c, h)
      BY <2>11 DEF SendPush
    <3>2. conn[c].pc # "closeOld" /\ UNCHANGED <<active, open>>
      BY <2>11 DEF SendPush, Serving, live
    <3>3. \A k \in Clients : h.client = k \/ h.hello = k => Claims(c, k)
      BY <2>0 DEF Handlers, Claims
    <3>4. QED
      BY <3>1, <3>2, <3>3, OneSent, SameRolesKeep DEF TypeInv
  <2>12. ASSUME NEW c \in Conns, AcceptAck(c) PROVE TakeoverInv'
    <3> DEFINE h == [Back(c) EXCEPT !.transfer = None]
    <3>1. conn' = [conn EXCEPT ![c] = h] \/ Sent(c, h)
      BY <2>12 DEF AcceptAck
    <3>2. conn[c].pc # "closeOld" /\ UNCHANGED <<active, open>>
      BY <2>12 DEF AcceptAck, Serving, live
    <3>3. \A k \in Clients : h.client = k \/ h.hello = k => Claims(c, k)
      BY <2>0 DEF Handlers, Claims, Back
    <3>4. QED
      BY <3>1, <3>2, <3>3, OneMoved, OneSent, SameRolesKeep DEF TypeInv
  <2>13. ASSUME NEW c \in Conns, CheckUpdates(c) PROVE TakeoverInv'
    <3> DEFINE h == Back(c)
               g == [conn[c] EXCEPT !.pc = "cleanup"]
    <3>1. conn' = [conn EXCEPT ![c] = g] \/ Sent(c, h)
      BY <2>13 DEF CheckUpdates, Goto
    <3>2. conn[c].pc # "closeOld" /\ UNCHANGED <<active, open>>
      BY <2>13 DEF CheckUpdates, Serving, live
    <3>3. \A k \in Clients : /\ h.client = k \/ h.hello = k => Claims(c, k)
                             /\ g.client = k \/ g.hello = k => Claims(c, k)
      BY <2>0 DEF Handlers, Claims, Back
    <3>4. QED
      BY <3>1, <3>2, <3>3, OneMoved, OneSent, SameRolesKeep DEF TypeInv
  <2>14. ASSUME NEW c \in Conns, PopPush(c) PROVE TakeoverInv'
    <3> DEFINE g == [conn[c] EXCEPT !.pc = "select"]
               h == [conn[c] EXCEPT !.pc = "push", !.task = Head(pushes[conn[c].client])]
    <3>1. conn' = [conn EXCEPT ![c] = g] \/ conn' = [conn EXCEPT ![c] = h]
      BY <2>14 DEF PopPush, Goto
    <3>2. conn[c].pc # "closeOld" /\ UNCHANGED <<active, open>>
      BY <2>14 DEF PopPush
    <3>3. \A k \in Clients : /\ h.client = k \/ h.hello = k => Claims(c, k)
                             /\ g.client = k \/ g.hello = k => Claims(c, k)
      BY <2>0 DEF Handlers, Claims
    <3>4. QED
      BY <3>1, <3>2, <3>3, OneMoved, SameRolesKeep DEF TypeInv
  <2>15. ASSUME NEW c \in Conns, Hello(c) PROVE TakeoverInv'
    <3> DEFINE k == conn[c].request.client
    <3>1. k \in Clients /\ conn[c].pc = "serve" /\ conn[c].client = None
      BY <2>0, <2>15, Types DEF Hello, Serving, Registered, Placed
    <3>2. /\ conn'[c].client = None /\ conn'[c].hello = k /\ conn'[c].pc = "closeOld"
          /\ conn'[c].old = active[k]
          /\ \A d \in Conns : d # c => conn'[d] = conn[d]
      BY <2>0, <2>15, <3>1 DEF Hello, Handlers, TypeInv, TypeOK
    <3>3. active' = [active EXCEPT ![k] = c] /\ UNCHANGED open
      BY <2>15 DEF Hello
    <3>4. /\ active'[k] = c
          /\ \A j \in Clients : j # k => active'[j] = active[j]
      BY <3>1, <3>3 DEF TypeInv, TypeOK
    <3>5. ASSUME NEW d \in Conns, NEW j \in Clients, Claims(d, j)', open'[d], active'[j] # d
          PROVE  Closing(d)'
      <4>1. d # c
        BY <3>1, <3>2, <3>4, <3>5, Types DEF Claims
      <4>2. Claims(d, j) /\ open[d]
        BY <3>2, <3>3, <3>5, <4>1 DEF Claims
      <4>3. Closing(d) => Closing(d)'
        BY <3>1, <3>2 DEF Closing
      <4>4. CASE active[j] # d
        BY <4>2, <4>3, <4>4 DEF TakeoverInv
      <4>5. CASE active[j] = d
        <5>1. j = k
          BY <3>4, <3>5, <4>5
        <5>2. QED
          BY <3>2, <4>5, <5>1 DEF Closing
      <4>6. QED
        BY <4>4, <4>5
    <3>6. QED
      BY <3>5 DEF TakeoverInv
  <2>16. ASSUME NEW c \in Conns, CloseOld(c) PROVE TakeoverInv'
    <3>1. /\ \A d \in Conns : open'[d] <=> open[d] /\ d # conn[c].old
          /\ UNCHANGED active
      BY <2>16 DEF CloseOld, live
    <3>2. \A d \in Conns : /\ conn'[d].client = conn[d].client /\ conn'[d].hello = conn[d].hello
                           /\ d # c => conn'[d] = conn[d]
      BY <2>0, <2>16 DEF CloseOld, Handlers, TypeInv, TypeOK
    <3>3. \A d \in Conns : Closing(d) /\ d # conn[c].old => Closing(d)'
      BY <3>2 DEF Closing
    <3>4. QED
      BY <3>1, <3>2, <3>3 DEF TakeoverInv, Claims
  <2>17. ASSUME NEW c \in Conns, Cleanup(c) PROVE TakeoverInv'
    <3>1. /\ ~open'[c]
          /\ \A d \in Conns : d # c => open'[d] = open[d] /\ conn'[d] = conn[d]
      BY <2>17 DEF Cleanup, TypeInv, TypeOK
    <3>2. \A k \in Clients : active'[k] = active[k] \/ active[k] = c
      BY <2>17 DEF Cleanup, Owned
    <3>3. conn[c].pc = "cleanup"
      BY <2>17 DEF Cleanup
    <3>4. \A d \in Conns : Closing(d) => Closing(d)'
      BY <3>1, <3>3 DEF Closing
    <3>5. QED
      BY <3>1, <3>2, <3>4 DEF TakeoverInv, Claims
  <2>18. ASSUME NEW a \in Apps, Overwrite(a) \/ ReadFile(a) PROVE TakeoverInv'
    BY <2>18 DEF Overwrite, ReadFile, TakeoverInv, Claims, Closing, live
  <2>19. CASE CommitPublish
    BY <2>19 DEF CommitPublish, TakeoverInv, Claims, Closing
  <2>20. CASE Restart
    BY <2>20 DEF Restart, TakeoverInv
  <2>21. CASE DamageManifest
    BY <2>21 DEF DamageManifest, TakeoverInv, Claims, Closing, live
  <2>22. CASE UNCHANGED vars
    BY <2>22 DEF vars, TakeoverInv, Claims, Closing, live
  <2>23. ASSUME NEW c \in Conns, Part(c) \/ ReceiveMore(c) PROVE TakeoverInv'
    <3> DEFINE h == [conn[c] EXCEPT !.pc = "part"]
               g == [conn[c] EXCEPT !.pc = "recv"]
    <3>1. conn' = [conn EXCEPT ![c] = h] \/ conn' = [conn EXCEPT ![c] = g]
      BY <2>23 DEF Part, ReceiveMore, Goto
    <3>2. conn[c].pc # "closeOld" /\ UNCHANGED <<active, open>>
      BY <2>23 DEF Part, ReceiveMore, live
    <3>3. \A k \in Clients : /\ h.client = k \/ h.hello = k => Claims(c, k)
                             /\ g.client = k \/ g.hello = k => Claims(c, k)
      BY <2>0 DEF Handlers, Claims
    <3>4. QED
      BY <3>1, <3>2, <3>3, OneMoved, SameRolesKeep DEF TypeInv
  <2>24. QED
    BY <2>1, <2>2, <2>3, <2>4, <2>5, <2>6, <2>7, <2>8, <2>9, <2>10, <2>11, <2>12, <2>13, <2>14,
       <2>15, <2>16, <2>17, <2>18, <2>19, <2>20, <2>21, <2>22, <2>23, StepsOfNext DEF Elsewhere
<1>3. QED
  BY <1>1, <1>2, TypeInvariant, PTL DEF Spec

\* A connection that has been replaced and is still open is about to be closed,
\* however many connections of a client take each other over.
THEOREM SupersededAreClosing == Spec => []SupersededIsClosing
<1>1. TypeInv /\ TakeoverInv => SupersededIsClosing
  BY DEF TypeInv, TypeOK, Handlers, TakeoverInv, SupersededIsClosing, Registered, Claims, Closing
<1>2. QED
  BY <1>1, TypeInvariant, TakeoverSafe, PTL

\* The registration of a client ends only by the cleanup of its own connection.
THEOREM OwnersUnregister == Spec => OnlyOwnerUnregisters
<1> DEFINE Step == restarts' = restarts => \A k \in Clients :
             active[k] # None /\ active'[k] = None =>
               /\ conn[active[k]].pc = "cleanup" /\ conn[active[k]].client = k
               /\ conn'[active[k]].pc = "free"
<1>1. TypeInv /\ [Next]_vars => Step
  <2> SUFFICES ASSUME TypeInv, [Next]_vars PROVE Step
    OBVIOUS
  <2>1. ASSUME NEW c \in Conns, Cleanup(c) PROVE Step
    BY <2>1 DEF Cleanup, Owned, NoHandler, TypeInv, TypeOK
  <2>2. ASSUME NEW c \in Conns, Hello(c) PROVE Step
    BY <2>2, Types DEF Hello, TypeInv, TypeOK
  <2>3. CASE Restart
    BY <2>3, BoundsAssumption DEF Restart, TypeInv, TypeOK
  <2>4. ASSUME NEW c \in Conns, Elsewhere(c), ~Cleanup(c), ~Hello(c) PROVE UNCHANGED active
    BY <2>4 DEF Elsewhere, Accept, Hangup, AckTimeout, Answer, Violation, CloseOld, Welcome,
           Download, Disconnect, Idle, PopPush, SendPush, Part, ReceiveMore, Receive, live
  <2>5. ASSUME NEW c \in Conns, AcceptAck(c) \/ CheckUpdates(c) PROVE UNCHANGED active
    BY <2>5 DEF AcceptAck, CheckUpdates, live
  <2>6. ASSUME NEW a \in Apps, Overwrite(a) \/ ReadFile(a) PROVE UNCHANGED active
    BY <2>6 DEF Overwrite, ReadFile, live
  <2>7. CommitPublish \/ DamageManifest \/ UNCHANGED vars => UNCHANGED active
    BY DEF CommitPublish, DamageManifest, vars, live
  <2>8. QED
    BY <2>1, <2>2, <2>3, <2>4, <2>5, <2>6, <2>7, StepsOfNext
<1>2. QED
  BY <1>1, TypeInvariant, PTL DEF Spec, OnlyOwnerUnregisters

-----------------------------------------------------------------------------
(* Push queues.                                                             *)

OneEach(q) == \A i, j \in DOMAIN q : q[i].app = q[j].app => i = j

\* A queued task takes the place of the older one of its application.
LEMMA QueuedTasks ==
  ASSUME NEW q \in Seq(Tasks), NEW t \in Tasks, OneEach(q)
  PROVE  /\ OneEach(Queued(q, t))
         /\ \A i \in DOMAIN Queued(q, t) :
              \/ Queued(q, t)[i] = t
              \/ /\ i \in DOMAIN q /\ Queued(q, t)[i] = q[i]
                 /\ q[i].app # t.app
<1>1. CASE \E i \in DOMAIN q : q[i].app = t.app
  <2>1. Queued(q, t) = [i \in DOMAIN q |-> IF q[i].app = t.app THEN t ELSE q[i]]
    BY <1>1 DEF Queued
  <2> DEFINE r == Queued(q, t)
  <2>2. DOMAIN r = DOMAIN q /\ \A i \in DOMAIN q : r[i] = IF q[i].app = t.app THEN t ELSE q[i]
    BY <2>1
  <2>3. \A i \in DOMAIN q : r[i].app = q[i].app
    BY <2>2
  <2>4. QED
    BY <2>2, <2>3 DEF OneEach
<1>2. CASE ~\E i \in DOMAIN q : q[i].app = t.app
  <2>1. Queued(q, t) = Append(q, t)
    BY <1>2 DEF Queued
  <2> DEFINE r == Append(q, t)
  <2>2. /\ DOMAIN q = 1..Len(q) /\ DOMAIN r = 1..(Len(q) + 1) /\ Len(q) \in Nat
        /\ r[Len(q) + 1] = t
        /\ \A i \in 1..Len(q) : r[i] = q[i]
    OBVIOUS
  <2>3. \A i \in DOMAIN r : (r[i] = t /\ i = Len(q) + 1) \/ (i \in DOMAIN q /\ r[i] = q[i])
    <3> HIDE DEF r
    <3> SUFFICES ASSUME NEW i \in 1..(Len(q) + 1)
                 PROVE  (r[i] = t /\ i = Len(q) + 1) \/ (i \in DOMAIN q /\ r[i] = q[i])
      BY <2>2
    <3>1. i = Len(q) + 1 \/ i \in 1..Len(q)
      BY <2>2
    <3>2. QED
      BY <2>2, <3>1
  <2>4. OneEach(r)
    BY <1>2, <2>2, <2>3 DEF OneEach
  <2>5. QED
    BY <1>2, <2>1, <2>3, <2>4
<1>3. QED
  BY <1>1, <1>2

\* What is left of a queue was in it.
LEMMA RestOfQueue ==
  ASSUME NEW q \in Seq(Tasks), q # <<>>, OneEach(q)
  PROVE  /\ OneEach(Tail(q))
         /\ \A i \in DOMAIN Tail(q) : i + 1 \in DOMAIN q /\ Tail(q)[i] = q[i + 1]
<1>1. /\ DOMAIN q = 1..Len(q) /\ DOMAIN Tail(q) = 1..(Len(q) - 1) /\ Len(q) \in Nat
      /\ \A i \in 1..(Len(q) - 1) : Tail(q)[i] = q[i + 1]
  OBVIOUS
<1>2. \A i \in DOMAIN Tail(q) : i \in Nat /\ i + 1 \in DOMAIN q /\ Tail(q)[i] = q[i + 1]
  BY <1>1
<1>3. ASSUME NEW i \in DOMAIN Tail(q), NEW j \in DOMAIN Tail(q), Tail(q)[i].app = Tail(q)[j].app
      PROVE  i = j
  <2>1. i + 1 = j + 1
    BY <1>2, <1>3 DEF OneEach
  <2>2. QED
    BY <1>2, <2>1
<1>4. QED
  BY <1>2, <1>3 DEF OneEach

\* A task is for an application that the client has downloaded, and current.
Due(k, t) ==
  /\ t.app \in downloads[k]
  /\ faults = 0 => [version |-> t.version, hash |-> t.hash] = apps[t.app]

QueueInv ==
  \A k \in Clients :
    /\ OneEach(pushes[k])
    /\ pushes[k] # <<>> => active[k] # None
    /\ \A i \in DOMAIN pushes[k] : Due(k, pushes[k][i])

\* Steps that touch neither queues nor registrations nor versions.
QueuesAlone ==
  /\ UNCHANGED <<pushes, active, apps>>
  /\ \A k \in Clients : downloads[k] \subseteq downloads'[k]
  /\ faults' = 0 => faults = 0

\* They keep the invariant of queues.
LEMMA QueuesAloneKeep ==
  ASSUME QueueInv, QueuesAlone
  PROVE  QueueInv'
BY DEF QueueInv, QueuesAlone, Due

\* The invariant holds whatever publications, takeovers, pops and cleanups
\* come between.
LEMMA QueueSafe == Spec => []QueueInv
<1>1. Init => QueueInv
  BY DEF Init, QueueInv, OneEach
<1>2. TypeInv /\ QueueInv /\ [Next]_vars => QueueInv'
  <2> SUFFICES ASSUME TypeInv, QueueInv, [Next]_vars PROVE QueueInv'
    OBVIOUS
  <2>0. \A k \in Clients : pushes[k] \in Seq(Tasks)
    BY DEF TypeInv, TypeOK
  <2>1. ASSUME NEW c \in Conns, Elsewhere(c), ~Hello(c), ~PopPush(c), ~Cleanup(c) PROVE QueueInv'
    <3>1. UNCHANGED <<pushes, active>>
      BY <2>1 DEF Elsewhere, Accept, Hangup, AckTimeout, Answer, Violation, CloseOld, Welcome,
             Download, Disconnect, Idle, SendPush, Part, ReceiveMore, Receive, live
    <3>2. QED
      BY <2>1, <3>1, ElsewhereKeeps, QueuesAloneKeep DEF QueuesAlone
  <2>2. ASSUME NEW c \in Conns, AcceptAck(c) PROVE QueueInv'
    <3> DEFINE more == [downloads EXCEPT ![conn[c].client] = @ \cup {conn[c].transfer.app}]
    <3>1. downloads \in [Clients -> SUBSET Apps]
      BY DEF TypeInv, TypeOK
    <3>2. \A k \in Clients : downloads[k] \subseteq more[k]
      BY <3>1
    <3>3. /\ downloads' \in {downloads, more}
          /\ UNCHANGED <<pushes, active, apps>>
          /\ faults' = 0 => faults = 0
      BY <2>2 DEF AcceptAck, live, TypeInv, TypeOK
    <3>4. \A k \in Clients : downloads[k] \subseteq downloads'[k]
      <4> HIDE DEF more
      <4>1. QED
        BY <3>2, <3>3
    <3>5. QED
      BY <3>3, <3>4, QueuesAloneKeep DEF QueuesAlone
  <2>3. ASSUME NEW c \in Conns, CheckUpdates(c) PROVE QueueInv'
    <3>1. \A k \in Clients : downloads[k] \subseteq downloads'[k]
      BY <2>3 DEF CheckUpdates, TypeInv, TypeOK
    <3>2. UNCHANGED <<pushes, active, apps>> /\ (faults' = 0 => faults = 0)
      BY <2>3 DEF CheckUpdates, live, TypeInv, TypeOK
    <3>3. QED
      BY <3>1, <3>2, QueuesAloneKeep DEF QueuesAlone
  <2>4. ASSUME NEW c \in Conns, Hello(c) PROVE QueueInv'
    <3>1. \A k \in Clients : active'[k] = active[k] \/ active'[k] = c
      BY <2>4 DEF Hello, TypeInv, TypeOK
    <3>2. UNCHANGED <<pushes, downloads, apps, faults>>
      BY <2>4 DEF Hello, bounds
    <3>3. QED
      BY <3>1, <3>2, Types DEF QueueInv, Due
  <2>5. ASSUME NEW c \in Conns, PopPush(c) PROVE QueueInv'
    <3> DEFINE k == conn[c].client
    <3>1. k \in Clients
      BY <2>5 DEF PopPush, TypeInv, Control, Placed
    <3>2. UNCHANGED <<active, downloads, apps, faults>>
      BY <2>5 DEF PopPush, bounds
    <3>3. CASE pushes[k] = <<>>
      BY <2>5, <3>2, <3>3 DEF PopPush, QueueInv, Due
    <3>4. CASE pushes[k] # <<>>
      <4>1. /\ pushes'[k] = Tail(pushes[k])
            /\ \A j \in Clients : j # k => pushes'[j] = pushes[j]
        BY <2>5, <3>1, <3>4 DEF PopPush, TypeInv, TypeOK
      <4>2. /\ OneEach(Tail(pushes[k]))
            /\ \A i \in DOMAIN Tail(pushes[k]) :
                 i + 1 \in DOMAIN pushes[k] /\ Tail(pushes[k])[i] = pushes[k][i + 1]
        BY <2>0, <3>1, <3>4, RestOfQueue DEF QueueInv
      <4>3. \A i \in DOMAIN pushes'[k] : Due(k, pushes'[k][i])
        BY <3>1, <4>1, <4>2 DEF QueueInv
      <4>4. active[k] # None
        BY <3>1, <3>4 DEF QueueInv
      <4>5. ASSUME NEW j \in Clients
            PROVE  /\ OneEach(pushes'[j])
                   /\ pushes'[j] # <<>> => active[j] # None
                   /\ \A i \in DOMAIN pushes'[j] : Due(j, pushes'[j][i])
        <5>1. CASE j = k
          BY <4>1, <4>2, <4>3, <4>4, <5>1
        <5>2. CASE j # k
          BY <4>1, <5>2 DEF QueueInv
        <5>3. QED
          BY <5>1, <5>2
      <4>6. QED
        BY <3>2, <4>5 DEF QueueInv, Due, OneEach
    <3>5. QED
      BY <3>3, <3>4
  <2>6. ASSUME NEW c \in Conns, Cleanup(c) PROVE QueueInv'
    <3>1. \A k \in Clients : \/ pushes'[k] = <<>>
                             \/ pushes'[k] = pushes[k] /\ active'[k] = active[k]
      BY <2>6 DEF Cleanup
    <3>2. UNCHANGED <<downloads, apps, faults>>
      BY <2>6 DEF Cleanup, bounds
    <3>3. QED
      BY <3>1, <3>2 DEF QueueInv, Due, OneEach
  <2>7. ASSUME NEW a \in Apps, Overwrite(a) \/ ReadFile(a) PROVE QueueInv'
    BY <2>7, QueuesAloneKeep DEF Overwrite, ReadFile, QueuesAlone, live, bounds
  <2>8. CASE CommitPublish
    <3> DEFINE a == pub.app
               t == [app |-> a, version |-> apps[a].version + 1, hash |-> pub.hash]
    <3>1. a \in Apps /\ pub.hash \in Contents /\ apps[a].version < MaxVersion
      BY <2>8 DEF CommitPublish, TypeInv, TypeOK, RoomToPublish
    <3>2. t \in Tasks
      BY <3>1, BoundsAssumption DEF Tasks, Records, Versions, TypeInv, TypeOK
    <3>3. /\ apps'[a] = [version |-> t.version, hash |-> t.hash]
          /\ \A b \in Apps : b # a => apps'[b] = apps[b]
          /\ UNCHANGED <<downloads, active>>
      BY <2>8, <3>1 DEF CommitPublish, TypeInv, TypeOK
    <3>4. CASE faults' = faults + 1
      <4>1. UNCHANGED pushes /\ faults' # 0
        BY <2>8, <3>4 DEF CommitPublish, TypeInv, TypeOK
      <4>2. QED
        BY <3>3, <4>1 DEF QueueInv, Due
    <3>5. CASE faults' = faults
      <4>1. \A k \in Clients :
              pushes'[k] = IF k \in Recipients(a) THEN Queued(pushes[k], t) ELSE pushes[k]
        BY <2>8, <3>5 DEF CommitPublish, TypeInv, TypeOK
      <4> DEFINE DueNow(k, u) == /\ u.app \in downloads'[k]
                                 /\ faults' = 0 => [version |-> u.version, hash |-> u.hash] = apps'[u.app]
      <4>2. ASSUME NEW k \in Clients
            PROVE  /\ OneEach(pushes'[k])
                   /\ pushes'[k] # <<>> => active'[k] # None
                   /\ \A i \in DOMAIN pushes'[k] : DueNow(k, pushes'[k][i])
        <5>1. /\ OneEach(pushes[k]) /\ (pushes[k] # <<>> => active'[k] # None)
              /\ \A i \in DOMAIN pushes[k] : Due(k, pushes[k][i])
          BY <3>3 DEF QueueInv
        <5>2. \A i \in DOMAIN pushes[k] : pushes[k][i] \in Tasks
          <6>1. pushes[k] \in Seq(Tasks)
            BY <2>0
          <6>2. QED
            BY <6>1
        <5>3. \A u \in Tasks : Due(k, u) /\ u.app # a => DueNow(k, u)
          BY <3>3, <3>5 DEF Due, Tasks
        <5>4. CASE k \in Recipients(a)
          <6> DEFINE q == Queued(pushes[k], t)
          <6>1. /\ OneEach(q)
                /\ \A i \in DOMAIN q : \/ q[i] = t
                                       \/ /\ i \in DOMAIN pushes[k] /\ q[i] = pushes[k][i]
                                          /\ pushes[k][i].app # a
            BY <2>0, <3>2, <5>1, QueuedTasks
          <6>2. pushes'[k] = q
            BY <4>1, <5>4
          <6>3. DueNow(k, t) /\ active'[k] # None
            BY <3>3, <5>4 DEF Recipients
          <6> HIDE DEF DueNow, q, t
          <6>4. \A i \in DOMAIN q : DueNow(k, q[i])
            BY <5>1, <5>2, <5>3, <6>1, <6>3
          <6>5. QED
            BY <6>1, <6>2, <6>3, <6>4
        <5>5. CASE k \notin Recipients(a)
          <6>1. pushes'[k] = pushes[k]
            BY <4>1, <5>5
          <6>2. \A i \in DOMAIN pushes[k] : active[k] # None /\ pushes[k][i].app \in downloads[k]
            <7>1. \A i \in DOMAIN pushes[k] : pushes[k] # <<>>
              BY <2>0
            <7>2. QED
              BY <3>3, <5>1, <7>1 DEF Due
          <6>3. \A i \in DOMAIN pushes[k] : pushes[k][i].app # a
            BY <5>5, <6>2 DEF Recipients
          <6> HIDE DEF DueNow
          <6>4. \A i \in DOMAIN pushes[k] : DueNow(k, pushes[k][i])
            BY <5>1, <5>2, <5>3, <6>3
          <6>5. QED
            BY <5>1, <6>1, <6>4
        <5>6. QED
          BY <5>4, <5>5
      <4>3. QED
        BY <4>2 DEF QueueInv, Due, OneEach
    <3>6. QED
      BY <2>8, <3>4, <3>5 DEF CommitPublish
  <2>9. CASE Restart
    BY <2>9 DEF Restart, QueueInv, OneEach
  <2>10. CASE DamageManifest
    BY <2>10, QueuesAloneKeep DEF DamageManifest, QueuesAlone, live, TypeInv, TypeOK
  <2>11. CASE UNCHANGED vars
    BY <2>11, QueuesAloneKeep DEF vars, QueuesAlone, live, bounds
  <2>12. QED
    BY <2>1, <2>2, <2>3, <2>4, <2>5, <2>6, <2>7, <2>8, <2>9, <2>10, <2>11, StepsOfNext
<1>3. QED
  BY <1>1, <1>2, TypeInvariant, PTL DEF Spec

\* Queues are newest-only: one task for an application, with its newest version
\* as long as no save has failed.
THEOREM QueuesAreNewest == Spec => []QueueIsNewest
<1>1. QueueInv => QueueIsNewest
  BY DEF QueueInv, QueueIsNewest, OneEach, Due
<1>2. QED
  BY <1>1, QueueSafe, PTL

\* A queue belongs to a registered client that has downloaded what is in it.
THEOREM QueuesHaveReaders == Spec => []QueueHasReader
<1>1. QueueInv => QueueHasReader
  BY DEF QueueInv, QueueHasReader, Due
<1>2. QED
  BY <1>1, QueueSafe, PTL
=============================================================================
