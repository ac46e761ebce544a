------------------------------- MODULE Requests -------------------------------
(***************************************************************************)
(* ConsoleClient: how an answer finds the request it answers.              *)
(*                                                                         *)
(*   main      sends one request at a time, waits for its answer in the    *)
(*             queue it registered, and finally disconnects;               *)
(*   listener  takes frames off the socket, stores files, acknowledges     *)
(*             them, puts answers into the queue registered for their id,  *)
(*             and fails every waiter when the connection ends.            *)
(*                                                                         *)
(* Both threads send, under send_lock, and a message is several sendall    *)
(* calls: the stream to the server carries the two halves of each frame.   *)
(* The server is the peer that client_handler.py is on one connection: it  *)
(* answers in order, pushes while no transfer awaits its ACK, and may      *)
(* close at any time.  Whether a file is stored is left open here.         *)
(***************************************************************************)
EXTENDS Naturals, Sequences

CONSTANTS None,       \* no frame, no thread
          MaxId,      \* bound on request ids main begins a request with
          MaxPushes   \* bound on pushes of the server

ASSUME RequestBounds == MaxId \in Nat /\ MaxPushes \in Nat

VARIABLES
  counter,   \* request_counter
  waiters,   \* keys of pending_responses
  box,       \* items in the waiters' queues, [waiter, msg]
  main,      \* the main thread: [pc, kind, id]
  lis,       \* the listener: [pc, frame, out, holds]
  stop,      \* both stop events
  sock,      \* the client's socket: open, shut, closed
  sendLock,  \* send_lock is held
  up, down,  \* halves of frames to the server, frames to the client
  srv,       \* the server's end: [open, pending, pushed]
  refused,   \* ids of transfers whose file was not stored (history)
  cut        \* a send has failed half-way (history)

threads == <<main, lis, stop>>
wire == <<sendLock, up, down, srv>>
vars == <<counter, waiters, box, threads, sock, wire, refused, cut>>

\* What the client sends; acks is the id of the transfer an ACK answers.
Frame(kind, id, acks) == [kind |-> kind, id |-> id, acks |-> acks]
Kinds == {"QUERY", "DOWNLOAD", "ACK", "DISCONNECT"}
Frames == [kind : Kinds, id : Nat, acks : Nat]
Pushed == [kind : {"PUSH"}, id : Nat, acks : Nat]

\* What the server sends, with the frame it answers: its request_id is theirs.
\* A PUSH answers nothing and has an id of its own.
Answers == [kind : {"OK", "ERROR", "TRANSFER", "PUSH"}, re : Frames \cup Pushed]
Answer(kind, frame) == [kind |-> kind, re |-> frame]

\* Mutant of Closed: the waiters are given nothing.
ClosedNothing == None

\* What _fail_all_waiters puts.
Closed == [kind |-> "CLOSED", re |-> None]

Init ==
  /\ counter = 0 /\ waiters = {} /\ box = {}
  /\ main = [pc |-> "console", kind |-> "QUERY", id |-> 0]
  /\ lis = [pc |-> "top", frame |-> None, out |-> None, holds |-> {}]
  /\ stop = FALSE /\ sock = "open" /\ sendLock = FALSE
  /\ up = <<>> /\ down = <<>>
  /\ srv = [open |-> TRUE, pending |-> None, pushed |-> 0]
  /\ refused = {} /\ cut = FALSE

-----------------------------------------------------------------------------
(* send_message under send_lock, in two halves.                             *)

Half(frame, part) == [frame |-> frame, part |-> part]

\* Bytes sent to a server that has closed are lost.
Written(half) == up' = IF srv.open THEN Append(up, half) ELSE up

\* Mutant of LockToSend: there is no send_lock.
SendFreely == TRUE

LockToSend == ~sendLock

SendFirst(frame) ==
  /\ LockToSend /\ sock = "open"
  /\ sendLock' = TRUE /\ Written(Half(frame, "head"))
  /\ UNCHANGED cut

SendRest(frame) ==
  /\ sock = "open"
  /\ sendLock' = FALSE /\ Written(Half(frame, "rest"))
  /\ UNCHANGED cut

\* An OSError before the first half, on a closed socket too, or after it.
SendFails(begun) ==
  /\ begun \/ LockToSend
  /\ sendLock' = FALSE /\ cut' = (cut \/ begun)
  /\ UNCHANGED up

-----------------------------------------------------------------------------
(* The main thread.                                                         *)

\* Mutant of NextId: without request_lock, an increment can be lost.
NextIdLost == counter' = counter

\* _next_request_id: the id taken is counter + 1.
NextId == counter' = counter + 1

\* request: an id is taken and a queue registered for it.
Begin(kind) ==
  /\ main.pc = "console" /\ counter < MaxId
  /\ NextId
  /\ waiters' = waiters \cup {counter + 1}
  /\ main' = [pc |-> "send", kind |-> kind, id |-> counter + 1]
  /\ UNCHANGED <<box, lis, stop, sock, wire, refused, cut>>

\* _send, of a request or of the DISCONNECT that disconnect sends.
SendPoints == {"send", "sendRest", "bye", "byeRest"}
MainSends ==
  /\ \/ /\ main.pc = "send" /\ main' = [main EXCEPT !.pc = "sendRest"]
        /\ SendFirst(Frame(main.kind, main.id, 0))
     \/ /\ main.pc = "bye" /\ main' = [main EXCEPT !.pc = "byeRest"]
        /\ SendFirst(Frame(main.kind, main.id, 0))
     \/ /\ main.pc = "sendRest" /\ main' = [main EXCEPT !.pc = "wait"]
        /\ SendRest(Frame(main.kind, main.id, 0))
     \/ /\ main.pc = "byeRest" /\ main' = [main EXCEPT !.pc = "stop"]
        /\ SendRest(Frame(main.kind, main.id, 0))
  /\ UNCHANGED <<counter, waiters, box, lis, stop, sock, down, srv, refused>>

MainSendFails ==
  /\ main.pc \in SendPoints
  /\ main' = [main EXCEPT !.pc = IF main.pc \in {"send", "sendRest"} THEN "expired" ELSE "stop"]
  /\ SendFails(main.pc \in {"sendRest", "byeRest"})
  /\ UNCHANGED <<counter, waiters, box, lis, stop, sock, down, srv, refused>>

\* Items main would find in the queue of its request.
Arrived == {x \in box : x.waiter = main.id}

Answered ==
  /\ main.pc = "wait" /\ Arrived # {}
  /\ box' = box \ Arrived
  /\ main' = [main EXCEPT !.pc = "console"]
  /\ UNCHANGED <<counter, waiters, lis, stop, sock, wire, refused, cut>>

\* Mutant of Expires: waiter.get() without a timeout.
ExpiresOnError == main.pc = "wait" /\ Arrived = {} /\ sock # "open"

\* waiter.get(timeout) finds the queue empty for as long.
Expires == main.pc = "wait" /\ Arrived = {}

TimeOut ==
  /\ Expires
  /\ main' = [main EXCEPT !.pc = "expired"]
  /\ UNCHANGED <<counter, waiters, box, lis, stop, sock, wire, refused, cut>>

\* The waiter is removed and the exception raised: it leaves main's loop.
Withdraw ==
  /\ main.pc = "expired"
  /\ waiters' = waiters \ {main.id}
  /\ main' = [main EXCEPT !.pc = "leave"]
  /\ UNCHANGED <<counter, box, lis, stop, sock, wire, refused, cut>>

\* The console ends: a command, the end of the input, the stop event.
Leave ==
  /\ main.pc = "console"
  /\ main' = [main EXCEPT !.pc = "leave"]
  /\ UNCHANGED <<counter, waiters, box, lis, stop, sock, wire, refused, cut>>

\* disconnect: DISCONNECT is sent unless the stop event is set; ...
Goodbye ==
  /\ main.pc = "leave"
  /\ IF stop
       THEN main' = [main EXCEPT !.pc = "stop"] /\ UNCHANGED counter
       ELSE main' = [pc |-> "bye", kind |-> "DISCONNECT", id |-> counter + 1] /\ NextId
  /\ UNCHANGED <<waiters, box, lis, stop, sock, wire, refused, cut>>

\* ... both stop events are set and the socket is shut down; ...
Stop ==
  /\ main.pc = "stop"
  /\ stop' = TRUE /\ sock' = IF sock = "open" THEN "shut" ELSE sock
  /\ main' = [main EXCEPT !.pc = "join"]
  /\ UNCHANGED <<counter, waiters, box, lis, wire, refused, cut>>

\* ... the joins end, by the end of the threads or their timeouts; the process
\* ends, and takes the listener, a daemon thread, with it.
Join ==
  /\ main.pc = "join"
  /\ sock' = "closed" /\ main' = [main EXCEPT !.pc = "ended"]
  /\ UNCHANGED <<counter, waiters, box, lis, stop, wire, refused, cut>>

-----------------------------------------------------------------------------
(* The listener thread.                                                     *)

Listening(pc) == main.pc # "ended" /\ lis.pc = pc
LisGoto(pc) == lis' = [lis EXCEPT !.pc = pc]

\* The condition of the loop.
CheckStop ==
  /\ Listening("top") /\ LisGoto(IF stop THEN "end" ELSE "select")
  /\ UNCHANGED <<counter, waiters, box, main, stop, sock, wire, refused, cut>>

\* Nothing to read, not even the end of the stream, for SOCKET_TIMEOUT.
SelectTimesOut ==
  /\ Listening("select") /\ LisGoto("top")
  /\ down = <<>> /\ srv.open /\ sock = "open"
  /\ UNCHANGED <<counter, waiters, box, main, stop, sock, wire, refused, cut>>

\* select and recv_message return a frame.
Receive ==
  /\ Listening("select") /\ down # <<>> /\ sock # "closed"
  /\ down' = Tail(down)
  /\ lis' = [lis EXCEPT !.frame = Head(down),
               !.pc = IF Head(down).kind \in {"OK", "ERROR"} THEN "deliver" ELSE "store"]
  /\ UNCHANGED <<counter, waiters, box, main, stop, sock, sendLock, up, srv, refused, cut>>

\* Mutant of AfterStore: only pushes are acknowledged.
AckPushesOnly == IF lis.frame.kind = "PUSH" THEN "ack" ELSE "deliver"

\* process_received_file has stored the file: the ACK comes next, before the
\* answer is handed to main.
AfterStore == "ack"

Store ==
  /\ Listening("store")
  /\ \/ /\ NextId
        /\ lis' = [lis EXCEPT !.pc = AfterStore,
                              !.out = Frame("ACK", counter + 1, lis.frame.re.id)]
        /\ UNCHANGED refused
     \/ /\ refused' = refused \cup {lis.frame.re.id}
        /\ LisGoto(IF lis.frame.kind = "TRANSFER" THEN "deliver" ELSE "top")
        /\ UNCHANGED counter
  /\ UNCHANGED <<waiters, box, main, stop, sock, wire, cut>>

SendAck ==
  /\ \/ Listening("ack") /\ LisGoto("ackRest") /\ SendFirst(lis.out)
     \/ /\ Listening("ackRest") /\ SendRest(lis.out)
        /\ LisGoto(IF lis.frame.kind = "TRANSFER" THEN "deliver" ELSE "top")
  /\ UNCHANGED <<counter, waiters, box, main, stop, sock, down, srv, refused>>

\* The exception leaves the loop.
AckFails ==
  /\ Listening("ack") \/ Listening("ackRest")
  /\ LisGoto("end") /\ SendFails(lis.pc = "ackRest")
  /\ UNCHANGED <<counter, waiters, box, main, stop, sock, down, srv, refused>>

\* Mutant of PopWaiter: the queue is looked up and stays registered.
LookUpWaiter(id) == waiters

\* _pop_waiter.
PopWaiter(id) == waiters \ {id}

\* _deliver_response: the waiter is popped, if there is one; ...
Deliver ==
  /\ Listening("deliver")
  /\ LET id == lis.frame.re.id
     IN /\ waiters' = PopWaiter(id)
        /\ lis' = [lis EXCEPT !.holds = {id} \cap waiters,
                     !.pc = IF id \in waiters THEN "put" ELSE "top"]
  /\ UNCHANGED <<counter, box, main, stop, sock, wire, refused, cut>>

\* The queues have room for one item.
RoomIn(i) == \A x \in box : x.waiter # i

\* ... then the answer is put, which blocks while the queue is full.
Put ==
  /\ Listening("put")
  /\ \E i \in lis.holds : RoomIn(i) /\ box' = box \cup {[waiter |-> i, msg |-> lis.frame]}
  /\ lis' = [lis EXCEPT !.pc = "top", !.holds = {}]
  /\ UNCHANGED <<counter, waiters, main, stop, sock, wire, refused, cut>>

\* The loop is left: the connection has ended or broken, a frame is bad or late.
Hangup ==
  /\ Listening("select") /\ LisGoto("end")
  /\ UNCHANGED <<counter, waiters, box, main, stop, sock, wire, refused, cut>>

\* The finally clause: both stop events, ...
SetStop ==
  /\ Listening("end") /\ LisGoto("fail")
  /\ stop' = TRUE
  /\ UNCHANGED <<counter, waiters, box, main, sock, wire, refused, cut>>

\* Mutant of ToFail: the dict is cleared before its items are listed.
ToFailAfterClear == {}

ToFail == waiters

\* ... _fail_all_waiters, which takes all waiters under the lock ...
FailAll ==
  /\ Listening("fail")
  /\ waiters' = {}
  /\ lis' = [lis EXCEPT !.pc = "putAll", !.holds = ToFail]
  /\ UNCHANGED <<counter, box, main, stop, sock, wire, refused, cut>>

\* ... and puts CONNECTION_CLOSED into each, ...
PutClosed(i) ==
  /\ Listening("putAll") /\ i \in lis.holds /\ RoomIn(i)
  /\ box' = box \cup {[waiter |-> i, msg |-> Closed]}
  /\ lis' = [lis EXCEPT !.holds = @ \ {i}]
  /\ UNCHANGED <<counter, waiters, main, stop, sock, wire, refused, cut>>

\* ... and the close of the socket.
CloseSocket ==
  /\ Listening("putAll") /\ lis.holds = {} /\ LisGoto("done")
  /\ sock' = "closed"
  /\ UNCHANGED <<counter, waiters, box, main, stop, wire, refused, cut>>

-----------------------------------------------------------------------------
(* The server's end of the connection.                                      *)

\* recv_message: the first two halves make a frame.
Whole ==
  /\ srv.open /\ Len(up) >= 2
  /\ up[1].part = "head" /\ up[2] = Half(up[1].frame, "rest")
Next1 == up[1].frame
Consumed == up' = SubSeq(up, 3, Len(up))
ServerOnly == UNCHANGED <<counter, waiters, box, threads, sock, sendLock, refused, cut>>

Replies(kind) == down' = Append(down, Answer(kind, Next1))

\* A request is answered; a transfer then awaits its ACK.
ServeRequest ==
  /\ Whole /\ srv.pending = None /\ Next1.kind \in {"QUERY", "DOWNLOAD"} /\ Consumed
  /\ \/ Next1.kind = "QUERY" /\ Replies("OK") /\ UNCHANGED srv
     \/ Replies("ERROR") /\ UNCHANGED srv
     \/ /\ Next1.kind = "DOWNLOAD" /\ Replies("TRANSFER")
        /\ srv' = [srv EXCEPT !.pending = Answer("TRANSFER", Next1)]
  /\ ServerOnly

\* The ACK that is waited for; one whose download cannot be registered is
\* answered by an error.
ServeAck ==
  /\ Whole /\ srv.pending # None
  /\ Next1.kind = "ACK" /\ Next1.acks = srv.pending.re.id /\ Consumed
  /\ srv' = [srv EXCEPT !.pending = None]
  /\ UNCHANGED down \/ (srv.pending.kind = "TRANSFER" /\ Replies("ERROR"))
  /\ ServerOnly

\* Any other frame while an ACK is awaited: an error, and the end.
Violation ==
  /\ Whole /\ srv.pending # None
  /\ ~(Next1.kind = "ACK" /\ Next1.acks = srv.pending.re.id)
  /\ Replies("ERROR") /\ up' = <<>> /\ srv' = [srv EXCEPT !.open = FALSE]
  /\ ServerOnly

Push ==
  /\ srv.open /\ srv.pending = None /\ srv.pushed < MaxPushes
  /\ LET p == Answer("PUSH", [kind |-> "PUSH", id |-> 1001 + srv.pushed, acks |-> 0])
     IN /\ down' = Append(down, p)
        /\ srv' = [open |-> TRUE, pending |-> p, pushed |-> srv.pushed + 1]
  /\ UNCHANGED up
  /\ ServerOnly

\* DISCONNECT, a broken frame, the ACK timeout, a newer connection, the end of
\* the server.
Close ==
  /\ srv.open
  /\ srv' = [srv EXCEPT !.open = FALSE] /\ up' = <<>>
  /\ UNCHANGED down
  /\ ServerOnly

-----------------------------------------------------------------------------
MainSteps ==
  MainSends \/ MainSendFails \/ Answered \/ TimeOut \/ Withdraw \/ Goodbye \/ Stop \/ Join

Console == Leave \/ \E kind \in {"QUERY", "DOWNLOAD"} : Begin(kind)

Listener ==
  \/ CheckStop \/ SelectTimesOut \/ Receive \/ Store \/ SendAck \/ AckFails \/ Deliver \/ Put
  \/ SetStop \/ FailAll \/ CloseSocket \/ \E i \in waiters \cup lis.holds : PutClosed(i)

Server == ServeRequest \/ ServeAck \/ Violation \/ Push \/ Close

Next == MainSteps \/ Console \/ Listener \/ Hangup \/ Server

Spec == Init /\ [][Next]_vars

\* Both threads are scheduled, a send ends by an error if not by success, and the
\* listener reads the end of the stream.  Nothing is
\* assumed of the user, of the server and of the network.
Fairness ==
  /\ SF_vars(MainSteps) /\ WF_vars(Listener)
  /\ WF_vars(down = <<>> /\ (~srv.open \/ sock # "open") /\ Hangup)

FairSpec == Spec /\ Fairness

-----------------------------------------------------------------------------
(* Properties.                                                              *)

Box == [waiter : Nat, msg : Answers \cup [kind : {"CLOSED"}, re : {None}]]
Mains ==
  [pc : SendPoints \cup {"console", "wait", "expired", "leave", "stop", "join", "ended"},
   kind : Kinds \ {"ACK"}, id : Nat]
Listeners ==
  [pc : {"top", "select", "store", "ack", "ackRest", "deliver", "put", "end", "fail",
         "putAll", "done"},
   frame : Answers \cup {None}, out : Frames \cup {None}, holds : SUBSET Nat]
Halves == [frame : Frames, part : {"head", "rest"}]
Servers == [open : BOOLEAN, pending : Answers \cup {None}, pushed : 0..MaxPushes]

TypeOK ==
  /\ counter \in Nat /\ waiters \subseteq Nat /\ box \subseteq Box
  /\ main \in Mains /\ lis \in Listeners
  /\ stop \in BOOLEAN /\ sock \in {"open", "shut", "closed"} /\ sendLock \in BOOLEAN
  /\ up \in Seq(Halves) /\ down \in Seq(Answers) /\ srv \in Servers
  /\ refused \subseteq Nat /\ cut \in BOOLEAN

\* As long as main waits, the queue of its request holds an item, or is still
\* registered, or is in the listener's hands: neither a late answer nor the
\* listener's end makes a request wait for its timeout that could be answered.
WaiterServed ==
  main.pc = "wait" => Arrived # {} \/ main.id \in waiters \cup lis.holds

\* The answer main finds is one to its own request, or says that the connection
\* has closed, although the listener takes ids for its ACKs from the same
\* counter and the server may answer an ACK by an error.
AnswerMatches ==
  main.pc = "wait" =>
    \A x \in Arrived : x.msg = Closed \/ x.msg.re = Frame(main.kind, main.id, 0)

\* A queue has room for one item, and the listener never waits for room in one:
\* a waiter is popped once, by an answer, a failure or a timeout.
PutNeverBlocks == \A i \in lis.holds : RoomIn(i)

\* While the server waits for the ACK of a download whose file was stored, the
\* next frame it reads is that ACK, unless main has given up or the listener has
\* ended: the ACK is sent before the answer reaches main, which then may send its
\* next request.
AckComesNext ==
  srv.pending # None /\ srv.pending.kind = "TRANSFER" /\ Whole /\ ~cut /\ ~stop =>
    \/ Next1.kind \in {"ACK", "DISCONNECT"}
    \/ srv.pending.re.id \in refused

\* Two threads send on one socket, and frames do not mix in the stream, as long
\* as no send has failed half-way.
FramesWhole ==
  ~cut => \A i \in DOMAIN up :
    /\ up[i].part = "rest" => i > 1 /\ up[i - 1] = Half(up[i].frame, "head")
    /\ up[i].part = "head" /\ i < Len(up) => up[i + 1] = Half(up[i].frame, "rest")

\* Every command ends, by an answer or by the end of the process, whatever the
\* server and the network do.
CommandsEnd == main.pc # "console" ~> main.pc \in {"console", "ended"}
=============================================================================
