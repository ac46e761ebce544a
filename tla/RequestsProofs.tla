---------------------------- MODULE RequestsProofs ----------------------------
(***************************************************************************)
(* Theorems about Requests, for every number of requests and pushes.       *)
(***************************************************************************)
EXTENDS Requests, SequenceTheorems, TLAPS

-----------------------------------------------------------------------------
(* The inductive invariants.                                                *)

Handling == {"store", "ack", "ackRest", "deliver", "put"}
Sending == {"send", "sendRest", "wait"}
GaveUp == main.pc \in {"expired", "leave", "bye", "byeRest", "stop", "join", "ended"}

\* What the control points of the two threads say of their other fields.
Control ==
  /\ lis.pc \in Handling => lis.frame \in Answers
  /\ lis.pc = "store" => lis.frame.kind \in {"TRANSFER", "PUSH"}
  /\ lis.pc \in {"deliver", "put"} => lis.frame.kind # "PUSH"
  /\ lis.pc \in {"ack", "ackRest"} => lis.out \in Frames /\ lis.out.kind = "ACK"
  /\ lis.pc \in {"fail", "putAll", "done"} => stop
  /\ main.pc \in {"bye", "byeRest"} => main.kind = "DISCONNECT"
  /\ main.pc \in Sending => main.kind \in {"QUERY", "DOWNLOAD"}

TypeInv == TypeOK /\ Control

\* A queue that is still registered, or in the listener's hands, is empty.
Waiting ==
  /\ \A i \in waiters \cup lis.holds : i <= counter /\ RoomIn(i)
  /\ waiters \cap lis.holds = {}
  /\ lis.holds # {} => lis.pc \in {"put", "putAll"}
  /\ lis.pc = "put" => lis.holds = {lis.frame.re.id}
  /\ \A x \in box : x.waiter <= counter
  /\ main.id <= counter
  /\ main.pc \in Sending => Arrived # {} \/ main.id \in waiters \cup lis.holds

\* A frame whose id main waits for is the frame main sent: ids are not reused.
OwnId(f) ==
  /\ f.id <= counter
  /\ main.pc \in Sending /\ f.id = main.id => f = Frame(main.kind, main.id, 0)

Owned ==
  /\ \A i \in DOMAIN up : OwnId(up[i].frame)
  /\ \A i \in DOMAIN down : down[i].kind # "PUSH" => OwnId(down[i].re)
  /\ lis.pc \in Handling /\ lis.frame.kind # "PUSH" => OwnId(lis.frame.re)
  /\ lis.pc \in {"ack", "ackRest"} => OwnId(lis.out)
  /\ \A x \in box : IF x.msg = Closed THEN stop ELSE x.waiter = x.msg.re.id /\ OwnId(x.msg.re)

\* The frame whose first half has been sent under the lock.
Begun == IF main.pc \in {"sendRest", "byeRest"} THEN Frame(main.kind, main.id, 0) ELSE lis.out

\* The stream is a sequence of whole frames, and the begun one at its end.
Stream ==
  /\ sendLock <=> main.pc \in {"sendRest", "byeRest"} \/ lis.pc = "ackRest"
  /\ ~(main.pc \in {"sendRest", "byeRest"} /\ lis.pc = "ackRest")
  /\ ~srv.open => up = <<>>
  /\ ~cut =>
       /\ FramesWhole
       /\ up # <<>> => up[1].part = "head"
       /\ ~sendLock /\ up # <<>> => up[Len(up)].part = "rest"
       /\ sendLock /\ srv.open => up # <<>> /\ up[Len(up)] = Half(Begun, "head")

Asking == {"QUERY", "DOWNLOAD"}
Asks(i) == up[i].frame.kind \in Asking
NoRequest == \A i \in DOMAIN up : ~Asks(i)

\* Nothing that answers main's request is on its way.
Unanswered ==
  /\ \A i \in DOMAIN down : down[i].kind # "PUSH" => down[i].re.id # main.id
  /\ lis.pc \in Handling /\ lis.frame.kind # "PUSH" => lis.frame.re.id # main.id
  /\ \A x \in box : x.msg # Closed => x.msg.re.id # main.id

\* The file that main has asked for has not come past its ACK.
Undelivered ==
  /\ \A i \in DOMAIN down : down[i].kind \in {"OK", "ERROR"} => down[i].re.id # main.id
  /\ lis.pc \in {"ackRest", "deliver", "put"} /\ lis.frame.kind # "PUSH" =>
       lis.frame.re.id # main.id
  /\ \A x \in box : x.msg # Closed => x.msg.re.id # main.id

\* Main's requests in the stream are the one it waits for, unless it has given up, ...
MainAsks ==
  \A i \in DOMAIN up : Asks(i) =>
    GaveUp \/ (main.pc \in {"sendRest", "wait"} /\ up[i].frame.id = main.id)

\* ... there is at most one, ...
AsksOnce ==
  \A i, j \in DOMAIN up :
    Asks(i) /\ Asks(j) /\ up[i].part = "head" /\ up[j].part = "head" => i = j

\* ... it is not answered before it is read, ...
AnswerIsLater ==
  main.pc = "send" \/ (main.pc \in {"sendRest", "wait"} /\ ~NoRequest) => Unanswered

\* ... and no other comes before its transfer is acknowledged.
AckIsFirst ==
  srv.pending # None /\ srv.pending.kind = "TRANSFER" /\ srv.pending.re.id \notin refused =>
    \/ up # <<>> /\ ~Asks(1)
    \/ NoRequest /\ GaveUp
    \/ NoRequest /\ main.pc = "wait" /\ main.id = srv.pending.re.id /\ Undelivered

Connected == ~cut /\ ~stop /\ srv.open
Acked == Connected => MainAsks /\ AsksOnce /\ AnswerIsLater /\ AckIsFirst

-----------------------------------------------------------------------------
(* Type correctness.                                                        *)

\* What is read from a stream is one of its elements, and what is left is a stream.
LEMMA StreamTypes ==
  ASSUME NEW S, NEW s \in Seq(S), NEW e \in S
  PROVE  /\ Append(s, e) \in Seq(S)
         /\ s # <<>> => Head(s) \in S /\ Tail(s) \in Seq(S)
OBVIOUS

\* What the client and the server build are frames of theirs.
LEMMA FrameTypes ==
  /\ \A kind \in Kinds, id \in Nat, acks \in Nat : Frame(kind, id, acks) \in Frames
  /\ \A kind \in {"OK", "ERROR", "TRANSFER", "PUSH"}, f \in Frames \cup Pushed :
       Answer(kind, f) \in Answers
BY DEF Frame, Frames, Answer, Answers

\* A half that is sent leaves a stream of halves.
LEMMA WrittenTypes ==
  ASSUME up \in Seq(Halves), NEW f \in Frames, NEW part \in {"head", "rest"},
         Written(Half(f, part))
  PROVE  up' \in Seq(Halves)
<1>1. Half(f, part) \in Halves
  BY DEF Half, Halves
<1>2. QED
  BY <1>1, StreamTypes DEF Written

\* The frame the server reads is one of the client's.
LEMMA ReadTypes ==
  ASSUME up \in Seq(Halves), Whole
  PROVE  Next1 \in Frames /\ SubSeq(up, 3, Len(up)) \in Seq(Halves)
<1>1. up[1] \in Halves /\ Len(up) \in Nat /\ Len(up) >= 2
  BY DEF Whole
<1>2. SubSeq(up, 3, Len(up)) \in Seq(Halves)
  BY <1>1, SubSeqProperties
<1>3. QED
  BY <1>1, <1>2 DEF Next1, Halves

\* Typing, with the facts about control it depends on.
LEMMA TypeInvariant == Spec => []TypeInv
<1>1. Init => TypeInv
  <2> SUFFICES ASSUME Init PROVE TypeInv
    OBVIOUS
  <2>1. main \in Mains /\ lis \in Listeners
    BY DEF Init, Mains, Listeners, Kinds, SendPoints
  <2>2. srv \in Servers /\ up \in Seq(Halves) /\ down \in Seq(Answers)
    BY RequestBounds DEF Init, Servers
  <2>3. QED
    BY <2>1, <2>2 DEF Init, TypeInv, TypeOK, Control, Handling, Sending
<1>2. TypeInv /\ [Next]_vars => TypeInv'
  <2> SUFFICES ASSUME TypeInv, [Next]_vars PROVE TypeInv'
    OBVIOUS
  <2> USE DEF threads, wire, SendPoints, Handling, Sending
  <2>1. ASSUME NEW kind \in {"QUERY", "DOWNLOAD"}, Begin(kind) PROVE TypeInv'
    BY <2>1 DEF Begin, NextId, Kinds, Mains, TypeInv, TypeOK, Control
  <2>2. ASSUME MainSends PROVE TypeInv'
    <3> DEFINE f == Frame(main.kind, main.id, 0)
    <3>1. f \in Frames
      BY FrameTypes DEF TypeInv, TypeOK, Mains
    <3>2. up' \in Seq(Halves)
      BY <2>2, <3>1, WrittenTypes DEF MainSends, SendFirst, SendRest, TypeInv, TypeOK
    <3>3. main' \in Mains /\ main'.kind = main.kind
      BY <2>2 DEF MainSends, Mains, TypeInv, TypeOK
    <3>4. QED
      BY <2>2, <3>2, <3>3 DEF MainSends, SendFirst, SendRest, Mains, TypeInv, TypeOK, Control
  <2>3. ASSUME MainSendFails PROVE TypeInv'
    BY <2>3 DEF MainSendFails, SendFails, Mains, TypeInv, TypeOK, Control
  <2>4. ASSUME Answered PROVE TypeInv'
    BY <2>4 DEF Answered, Arrived, Mains, Listeners, TypeInv, TypeOK, Control
  <2>5. ASSUME TimeOut PROVE TypeInv'
    BY <2>5 DEF TimeOut, Expires, Mains, Listeners, TypeInv, TypeOK, Control
  <2>6. ASSUME Withdraw PROVE TypeInv'
    BY <2>6 DEF Withdraw, Mains, Listeners, TypeInv, TypeOK, Control
  <2>7. ASSUME Leave PROVE TypeInv'
    BY <2>7 DEF Leave, Mains, Listeners, TypeInv, TypeOK, Control
  <2>8. ASSUME Goodbye PROVE TypeInv'
    BY <2>8 DEF Goodbye, NextId, Kinds, Mains, TypeInv, TypeOK, Control
  <2>9. ASSUME Stop PROVE TypeInv'
    BY <2>9 DEF Stop, Mains, Listeners, TypeInv, TypeOK, Control
  <2>10. ASSUME Join PROVE TypeInv'
    BY <2>10 DEF Join, Mains, Listeners, TypeInv, TypeOK, Control
  <2>11. ASSUME CheckStop PROVE TypeInv'
    BY <2>11 DEF CheckStop, LisGoto, Listening, Mains, Listeners, TypeInv, TypeOK, Control
  <2>12. ASSUME SelectTimesOut PROVE TypeInv'
    BY <2>12 DEF SelectTimesOut, LisGoto, Listening, Mains, Listeners, TypeInv, TypeOK, Control
  <2>13. ASSUME Receive PROVE TypeInv'
    <3>1. Head(down) \in Answers /\ Tail(down) \in Seq(Answers)
      BY <2>13, StreamTypes DEF Receive, TypeInv, TypeOK
    <3>2. Head(down).kind \in {"OK", "ERROR", "TRANSFER", "PUSH"}
      BY <3>1 DEF Answers
    <3>3. lis' \in Listeners
      BY <2>13, <3>1 DEF Receive, Listening, Listeners, TypeInv, TypeOK
    <3>4. Control'
      BY <2>13, <3>1, <3>2 DEF Receive, Listening, Listeners, TypeInv, TypeOK, Control
    <3>5. QED
      BY <2>13, <3>1, <3>3, <3>4 DEF Receive, TypeInv, TypeOK
  <2>14. ASSUME Store PROVE TypeInv'
    <3>0. Frame("ACK", counter + 1, lis.frame.re.id).kind = "ACK"
      BY DEF Frame
    <3>1. lis.frame \in Answers /\ lis.frame.re.id \in Nat
      BY <2>14 DEF Store, Listening, TypeInv, Control, Answers, Frames, Pushed
    <3>2. Frame("ACK", counter + 1, lis.frame.re.id) \in Frames
      BY <3>1, FrameTypes DEF TypeInv, TypeOK, Kinds
    <3>3. lis' \in Listeners
      BY <2>14, <3>2 DEF Store, AfterStore, LisGoto, Listening, Listeners, TypeInv, TypeOK
    <3>4. Control'
      BY <2>14, <3>1, <3>2, <3>3, <3>0
      DEF Store, AfterStore, LisGoto, Listening, Listeners, TypeInv, TypeOK, Control
    <3>5. QED
      BY <2>14, <3>1, <3>3, <3>4 DEF Store, NextId, TypeInv, TypeOK
  <2>15. ASSUME SendAck PROVE TypeInv'
    <3>1. lis.out \in Frames
      BY <2>15 DEF SendAck, Listening, TypeInv, Control
    <3>2. up' \in Seq(Halves)
      BY <2>15, <3>1, WrittenTypes DEF SendAck, SendFirst, SendRest, TypeInv, TypeOK
    <3>3. lis' \in Listeners /\ Control'
      BY <2>15 DEF SendAck, LisGoto, Listening, Listeners, TypeInv, TypeOK, Control
    <3>4. QED
      BY <2>15, <3>2, <3>3 DEF SendAck, SendFirst, SendRest, TypeInv, TypeOK
  <2>16. ASSUME AckFails PROVE TypeInv'
    BY <2>16 DEF AckFails, LisGoto, SendFails, Listening, Listeners, TypeInv, TypeOK, Control
  <2>17. ASSUME Deliver PROVE TypeInv'
    BY <2>17 DEF Deliver, PopWaiter, Listening, Listeners, TypeInv, TypeOK, Control
  <2>18. ASSUME Put PROVE TypeInv'
    <3>1. lis.frame \in Answers
      BY <2>18 DEF Put, Listening, TypeInv, Control
    <3>2. \A i \in lis.holds : [waiter |-> i, msg |-> lis.frame] \in Box
      BY <3>1 DEF Box, Listeners, TypeInv, TypeOK
    <3>3. box' \subseteq Box
      BY <2>18, <3>2 DEF Put, TypeInv, TypeOK
    <3>4. QED
      BY <2>18, <3>3 DEF Put, Listening, Listeners, TypeInv, TypeOK, Control
  <2>19. ASSUME Hangup PROVE TypeInv'
    BY <2>19 DEF Hangup, LisGoto, Listening, Mains, Listeners, TypeInv, TypeOK, Control
  <2>20. ASSUME SetStop PROVE TypeInv'
    BY <2>20 DEF SetStop, LisGoto, Listening, Mains, Listeners, TypeInv, TypeOK, Control
  <2>21. ASSUME FailAll PROVE TypeInv'
    BY <2>21 DEF FailAll, ToFail, Listening, Listeners, TypeInv, TypeOK, Control
  <2>22. ASSUME NEW i \in waiters \cup lis.holds, PutClosed(i) PROVE TypeInv'
    <3>1. i \in Nat
      BY DEF TypeInv, TypeOK, Listeners
    <3>2. [waiter |-> i, msg |-> Closed] \in Box
      BY <3>1 DEF Box, Closed
    <3>3. QED
      BY <2>22, <3>2 DEF PutClosed, Listening, Listeners, TypeInv, TypeOK, Control
  <2>23. ASSUME CloseSocket PROVE TypeInv'
    BY <2>23 DEF CloseSocket, LisGoto, Listening, Mains, Listeners, TypeInv, TypeOK, Control
  <2>24. ASSUME ServeRequest PROVE TypeInv'
    <3>1. up' \in Seq(Halves) /\ Next1 \in Frames
      BY <2>24, ReadTypes DEF ServeRequest, Consumed, TypeInv, TypeOK
    <3>2. \A kind \in {"OK", "ERROR", "TRANSFER"} : Answer(kind, Next1) \in Answers
      BY <3>1, FrameTypes
    <3>3. down' \in Seq(Answers)
      <4>1. PICK kind \in {"OK", "ERROR", "TRANSFER"} : Replies(kind)
        BY <2>24 DEF ServeRequest
      <4>2. Answer(kind, Next1) \in Answers
        BY <3>2
      <4>3. QED
        BY <4>1, <4>2, StreamTypes DEF Replies, TypeInv, TypeOK
    <3>4. srv' \in Servers
      BY <2>24, <3>2 DEF ServeRequest, Servers, TypeInv, TypeOK
    <3>5. QED
      BY <2>24, <3>1, <3>3, <3>4 DEF ServeRequest, ServerOnly, TypeInv, TypeOK, Control
  <2>25. ASSUME ServeAck PROVE TypeInv'
    <3>1. up' \in Seq(Halves) /\ Next1 \in Frames
      BY <2>25, ReadTypes DEF ServeAck, Consumed, TypeInv, TypeOK
    <3>2. Answer("ERROR", Next1) \in Answers
      BY <3>1, FrameTypes
    <3>3. down' \in Seq(Answers)
      BY <2>25, <3>2, StreamTypes DEF ServeAck, Replies, TypeInv, TypeOK
    <3>4. srv' \in Servers
      BY <2>25 DEF ServeAck, Servers, TypeInv, TypeOK
    <3>5. QED
      BY <2>25, <3>1, <3>3, <3>4 DEF ServeAck, ServerOnly, TypeInv, TypeOK, Control
  <2>26. ASSUME Violation PROVE TypeInv'
    <3>1. Next1 \in Frames
      BY <2>26, ReadTypes DEF Violation, TypeInv, TypeOK
    <3>2. Answer("ERROR", Next1) \in Answers
      BY <3>1, FrameTypes
    <3>3. down' \in Seq(Answers)
      BY <2>26, <3>2, StreamTypes DEF Violation, Replies, TypeInv, TypeOK
    <3>4. srv' \in Servers
      BY <2>26 DEF Violation, Servers, TypeInv, TypeOK
    <3>5. QED
      BY <2>26, <3>3, <3>4 DEF Violation, ServerOnly, TypeInv, TypeOK, Control
  <2>27. ASSUME Push PROVE TypeInv'
    <3> DEFINE p == Answer("PUSH", [kind |-> "PUSH", id |-> 1001 + srv.pushed, acks |-> 0])
    <3>1. srv.pushed \in 0..MaxPushes /\ srv.pushed + 1 \in 0..MaxPushes
      BY <2>27, RequestBounds DEF Push, Servers, TypeInv, TypeOK
    <3>2. p \in Answers
      BY <3>1, RequestBounds DEF Answer, Answers, Pushed
    <3>3. down' \in Seq(Answers)
      BY <2>27, <3>2, StreamTypes DEF Push, TypeInv, TypeOK
    <3>4. srv' = [open |-> TRUE, pending |-> p, pushed |-> srv.pushed + 1]
      BY <2>27 DEF Push
    <3>5. srv' \in Servers
      BY <3>1, <3>2, <3>4 DEF Servers
    <3>6. QED
      BY <2>27, <3>3, <3>5 DEF Push, ServerOnly, TypeInv, TypeOK, Control
  <2>28. ASSUME Close PROVE TypeInv'
    <3>1. srv' \in Servers
      BY <2>28 DEF Close, Servers, TypeInv, TypeOK
    <3>2. up' \in Seq(Halves)
      BY <2>28 DEF Close
    <3>3. QED
      BY <2>28, <3>1, <3>2 DEF Close, ServerOnly, TypeInv, TypeOK, Control
  <2>29. ASSUME UNCHANGED vars PROVE TypeInv'
    BY <2>29 DEF vars, Mains, Listeners, TypeInv, TypeOK, Control
  <2>30. QED
    BY <2>1, <2>2, <2>3, <2>4, <2>5, <2>6, <2>7, <2>8, <2>9, <2>10, <2>11, <2>12, <2>13, <2>14, <2>15, <2>16, <2>17, <2>18, <2>19, <2>20, <2>21, <2>22, <2>23, <2>24, <2>25, <2>26, <2>27, <2>28, <2>29 DEF Next, MainSteps, Console, Listener, Server
<1>3. QED
  BY <1>1, <1>2, PTL DEF Spec

\* The variables, the threads and the frames on the wire keep their types.
THEOREM TypeCorrect == Spec => []TypeOK
BY TypeInvariant, PTL DEF TypeInv

-----------------------------------------------------------------------------
(* Answers and waiters.                                                     *)

\* Every queue that is waited for is filled, registered, or about to be filled.
LEMMA WaiterInvariant == Spec => []Waiting
<1>1. Init => Waiting
  BY DEF Init, Waiting, Sending
<1>2. TypeInv /\ Waiting /\ [Next]_vars => Waiting'
  <2> SUFFICES ASSUME TypeInv, Waiting, [Next]_vars PROVE Waiting'
    OBVIOUS
  <2> USE DEF threads, wire, SendPoints, Handling, Sending
  <2>1. ASSUME NEW kind \in {"QUERY", "DOWNLOAD"}, Begin(kind) PROVE Waiting'
    <3>1. \A x \in box : x.waiter \in Nat /\ x.waiter <= counter
      BY DEF Waiting, TypeInv, TypeOK, Box
    <3>2. \A i \in waiters \cup lis.holds : i \in Nat /\ i <= counter
      BY DEF Waiting, TypeInv, TypeOK, Listeners
    <3>3. RoomIn(counter + 1) /\ counter + 1 \notin lis.holds
      BY <3>1, <3>2 DEF RoomIn, TypeInv, TypeOK
    <3>4. QED
      BY <2>1, <3>1, <3>2, <3>3 DEF Begin, NextId, Waiting, Arrived, RoomIn, TypeInv, TypeOK
  <2>2. ASSUME MainSends PROVE Waiting'
    BY <2>2 DEF MainSends, SendFirst, SendRest, Written, Half, Frame, Waiting, Arrived, RoomIn, Mains, Listeners, TypeInv, TypeOK, Control
  <2>3. ASSUME MainSendFails PROVE Waiting'
    BY <2>3 DEF MainSendFails, SendFails, Waiting, Arrived, RoomIn, Mains, Listeners, TypeInv, TypeOK, Control
  <2>4. ASSUME Answered PROVE Waiting'
    BY <2>4 DEF Answered, Arrived, Waiting, Arrived, RoomIn, Mains, Listeners, TypeInv, TypeOK, Control
  <2>5. ASSUME TimeOut PROVE Waiting'
    BY <2>5 DEF TimeOut, Expires, Waiting, Arrived, RoomIn, Mains, Listeners, TypeInv, TypeOK, Control
  <2>6. ASSUME Withdraw PROVE Waiting'
    BY <2>6 DEF Withdraw, Waiting, Arrived, RoomIn, Mains, Listeners, TypeInv, TypeOK, Control
  <2>7. ASSUME Leave PROVE Waiting'
    BY <2>7 DEF Leave, Waiting, Arrived, RoomIn, Mains, Listeners, TypeInv, TypeOK, Control
  <2>8. ASSUME Goodbye PROVE Waiting'
    <3>1. \A x \in box : x.waiter \in Nat /\ x.waiter <= counter
      BY DEF Waiting, TypeInv, TypeOK, Box
    <3>2. \A i \in waiters \cup lis.holds : i \in Nat /\ i <= counter
      BY DEF Waiting, TypeInv, TypeOK, Listeners
    <3>3. main'.id <= counter' /\ main'.pc \notin Sending
      BY <2>8 DEF Goodbye, NextId, Waiting, Mains, TypeInv, TypeOK
    <3>4. counter' \in Nat /\ counter <= counter'
      BY <2>8 DEF Goodbye, NextId, TypeInv, TypeOK
    <3>5. QED
      BY <2>8, <3>1, <3>2, <3>3, <3>4 DEF Goodbye, Waiting, RoomIn, TypeInv, TypeOK
  <2>9. ASSUME Stop PROVE Waiting'
    BY <2>9 DEF Stop, Waiting, Arrived, RoomIn, Mains, Listeners, TypeInv, TypeOK, Control
  <2>10. ASSUME Join PROVE Waiting'
    BY <2>10 DEF Join, Waiting, Arrived, RoomIn, Mains, Listeners, TypeInv, TypeOK, Control
  <2>11. ASSUME CheckStop PROVE Waiting'
    BY <2>11 DEF CheckStop, LisGoto, Listening, Waiting, Arrived, RoomIn, Mains, Listeners, TypeInv, TypeOK, Control
  <2>12. ASSUME SelectTimesOut PROVE Waiting'
    BY <2>12 DEF SelectTimesOut, LisGoto, Listening, Waiting, Arrived, RoomIn, Mains, Listeners, TypeInv, TypeOK, Control
  <2>13. ASSUME Receive PROVE Waiting'
    BY <2>13 DEF Receive, Listening, Waiting, Arrived, RoomIn, Mains, Listeners, TypeInv, TypeOK, Control
  <2>14. ASSUME Store PROVE Waiting'
    <3>1. \A x \in box : x.waiter \in Nat /\ x.waiter <= counter
      BY DEF Waiting, TypeInv, TypeOK, Box
    <3>2. \A i \in waiters : i \in Nat /\ i <= counter
      BY DEF Waiting, TypeInv, TypeOK
    <3>3. counter' \in Nat /\ counter <= counter'
      BY <2>14 DEF Store, NextId, TypeInv, TypeOK
    <3>4. lis.holds = {} /\ lis'.holds = {}
      BY <2>14 DEF Store, LisGoto, Listening, Waiting, Listeners, TypeInv, TypeOK
    <3>5. lis'.pc # "put" /\ main.id \in Nat
      BY <2>14 DEF Store, AfterStore, LisGoto, Listening, Mains, Listeners, TypeInv, TypeOK
    <3>6. QED
      BY <2>14, <3>1, <3>2, <3>3, <3>4, <3>5 DEF Store, Waiting, Arrived, RoomIn, TypeInv, TypeOK
  <2>15. ASSUME SendAck PROVE Waiting'
    BY <2>15 DEF SendAck, LisGoto, SendFirst, SendRest, Written, Half, Listening, Waiting, Arrived, RoomIn, Mains, Listeners, TypeInv, TypeOK, Control
  <2>16. ASSUME AckFails PROVE Waiting'
    BY <2>16 DEF AckFails, LisGoto, SendFails, Listening, Waiting, Arrived, RoomIn, Mains, Listeners, TypeInv, TypeOK, Control
  <2>17. ASSUME Deliver PROVE Waiting'
    BY <2>17 DEF Deliver, PopWaiter, Listening, Waiting, Arrived, RoomIn, Mains, Listeners, TypeInv, TypeOK, Control
  <2>18. ASSUME Put PROVE Waiting'
    <3> DEFINE r == lis.frame.re.id
               x == [waiter |-> r, msg |-> lis.frame]
    <3>1. lis.holds = {r} /\ box' = box \cup {x} /\ x.waiter = r
      BY <2>18 DEF Put, Listening, Waiting
    <3>2. lis'.holds = {} /\ lis'.pc = "top"
      BY <2>18 DEF Put, Listeners, TypeInv, TypeOK
    <3>3. r \notin waiters /\ r <= counter
      BY <3>1 DEF Waiting
    <3> HIDE DEF x, r
    <3>4. \A i \in waiters : RoomIn(i)'
      BY <3>1, <3>3 DEF Waiting, RoomIn
    <3>5. main.pc \in Sending => Arrived' # {} \/ main.id \in waiters
      BY <2>18, <3>1 DEF Put, Waiting, Arrived
    <3>6. QED
      BY <2>18, <3>1, <3>2, <3>3, <3>4, <3>5 DEF Put, Waiting
  <2>19. ASSUME Hangup PROVE Waiting'
    BY <2>19 DEF Hangup, LisGoto, Listening, Waiting, Arrived, RoomIn, Mains, Listeners, TypeInv, TypeOK, Control
  <2>20. ASSUME SetStop PROVE Waiting'
    BY <2>20 DEF SetStop, LisGoto, Listening, Waiting, Arrived, RoomIn, Mains, Listeners, TypeInv, TypeOK, Control
  <2>21. ASSUME FailAll PROVE Waiting'
    BY <2>21 DEF FailAll, ToFail, Listening, Waiting, Arrived, RoomIn, Mains, Listeners, TypeInv, TypeOK, Control
  <2>22. ASSUME NEW i \in waiters \cup lis.holds, PutClosed(i) PROVE Waiting'
    <3> DEFINE x == [waiter |-> i, msg |-> Closed]
    <3>1. i \in lis.holds /\ box' = box \cup {x} /\ x.waiter = i
      BY <2>22 DEF PutClosed
    <3>2. lis'.holds = lis.holds \ {i} /\ lis'.pc = "putAll"
      BY <2>22 DEF PutClosed, Listening, Listeners, TypeInv, TypeOK
    <3> HIDE DEF x
    <3>3. \A j \in waiters \cup lis'.holds : RoomIn(j)'
      BY <3>1, <3>2 DEF Waiting, RoomIn
    <3>4. main.pc \in Sending => Arrived' # {} \/ main.id \in waiters \cup lis'.holds
      BY <2>22, <3>1, <3>2 DEF PutClosed, Waiting, Arrived
    <3>5. QED
      BY <2>22, <3>1, <3>2, <3>3, <3>4 DEF PutClosed, Waiting
  <2>23. ASSUME CloseSocket PROVE Waiting'
    BY <2>23 DEF CloseSocket, LisGoto, Listening, Waiting, Arrived, RoomIn, Mains, Listeners, TypeInv, TypeOK, Control
  <2>24. ASSUME ServeRequest PROVE Waiting'
    BY <2>24 DEF ServeRequest, ServerOnly, Replies, Answer, Whole, Next1, Consumed, Waiting, Arrived, RoomIn, Mains, Listeners, TypeInv, TypeOK, Control
  <2>25. ASSUME ServeAck PROVE Waiting'
    BY <2>25 DEF ServeAck, ServerOnly, Replies, Answer, Whole, Next1, Consumed, Waiting, Arrived, RoomIn, Mains, Listeners, TypeInv, TypeOK, Control
  <2>26. ASSUME Violation PROVE Waiting'
    BY <2>26 DEF Violation, ServerOnly, Replies, Answer, Whole, Next1, Waiting, Arrived, RoomIn, Mains, Listeners, TypeInv, TypeOK, Control
  <2>27. ASSUME Push PROVE Waiting'
    BY <2>27 DEF Push, ServerOnly, Answer, Waiting, Arrived, RoomIn, Mains, Listeners, TypeInv, TypeOK, Control
  <2>28. ASSUME Close PROVE Waiting'
    BY <2>28 DEF Close, ServerOnly, Waiting, Arrived, RoomIn, Mains, Listeners, TypeInv, TypeOK, Control
  <2>29. ASSUME UNCHANGED vars PROVE Waiting'
    BY <2>29 DEF vars, Waiting, Arrived, RoomIn, Mains, Listeners, TypeInv, TypeOK, Control
  <2>30. QED
    BY <2>1, <2>2, <2>3, <2>4, <2>5, <2>6, <2>7, <2>8, <2>9, <2>10, <2>11, <2>12, <2>13, <2>14, <2>15, <2>16, <2>17, <2>18, <2>19, <2>20, <2>21, <2>22, <2>23, <2>24, <2>25, <2>26, <2>27, <2>28, <2>29 DEF Next, MainSteps, Console, Listener, Server
<1>3. QED
  BY <1>1, <1>2, TypeInvariant, PTL DEF Spec

\* As long as main waits, its queue holds an item or is in somebody's hands: a
\* request that could be answered is not left to its timeout.
THEOREM RequestsServed == Spec => []WaiterServed
<1>1. Waiting => WaiterServed
  BY DEF Waiting, WaiterServed, Sending
<1>2. QED
  BY <1>1, WaiterInvariant, PTL

\* The listener never waits for room in a queue.
THEOREM PutsNeverBlock == Spec => []PutNeverBlocks
<1>1. Waiting => PutNeverBlocks
  BY DEF Waiting, PutNeverBlocks
<1>2. QED
  BY <1>1, WaiterInvariant, PTL

-----------------------------------------------------------------------------
(* What a step may do to the streams, the listener's hands and the queues.  *)

\* Where the elements of a stream come from.
LEMMA Elements ==
  ASSUME NEW S, NEW s \in Seq(S)
  PROVE  /\ DOMAIN s = 1..Len(s) /\ Len(s) \in Nat
         /\ \A i \in DOMAIN s : s[i] \in S
         /\ \A e \in S :
              /\ Len(Append(s, e)) = Len(s) + 1
              /\ \A i \in DOMAIN Append(s, e) :
                   \/ i \in DOMAIN s /\ Append(s, e)[i] = s[i]
                   \/ i = Len(s) + 1 /\ Append(s, e)[i] = e
         /\ s # <<>> =>
              /\ 1 \in DOMAIN s /\ Head(s) = s[1] /\ Tail(s) \in Seq(S)
              /\ \A i \in DOMAIN Tail(s) : i + 1 \in DOMAIN s /\ Tail(s)[i] = s[i + 1]
<1>1. DOMAIN s = 1..Len(s) /\ Len(s) \in Nat /\ \A i \in DOMAIN s : s[i] \in S
  OBVIOUS
<1>2. ASSUME NEW e \in S
      PROVE  /\ Len(Append(s, e)) = Len(s) + 1
             /\ \A i \in DOMAIN Append(s, e) :
                  \/ i \in DOMAIN s /\ Append(s, e)[i] = s[i]
                  \/ i = Len(s) + 1 /\ Append(s, e)[i] = e
  OBVIOUS
<1>3. ASSUME s # <<>>
      PROVE  /\ 1 \in DOMAIN s /\ Head(s) = s[1] /\ Tail(s) \in Seq(S)
             /\ \A i \in DOMAIN Tail(s) : i + 1 \in DOMAIN s /\ Tail(s)[i] = s[i + 1]
  BY <1>3
<1>4. QED
  BY <1>1, <1>2, <1>3

\* What is left of the stream to the server when a frame has been read.
LEMMA Rest ==
  ASSUME up \in Seq(Halves), Whole, Consumed
  PROVE  /\ Len(up') = Len(up) - 2 /\ DOMAIN up' = 1..(Len(up) - 2)
         /\ \A i \in DOMAIN up' : i + 2 \in DOMAIN up /\ up'[i] = up[i + 2]
<1>1. Len(up) \in Nat /\ Len(up) >= 2 /\ DOMAIN up = 1..Len(up)
  BY DEF Whole
<1>2. \A i \in 3..Len(up) : up[i] \in Halves
  BY <1>1
<1>3. /\ up' \in Seq(Halves)
      /\ Len(up') = Len(up) - 2
      /\ \A i \in 1..(Len(up) - 2) : up'[i] = up[i + 2]
  BY <1>1, <1>2, SubSeqProperties DEF Consumed
<1>4. QED
  BY <1>1, <1>3

\* The steps that change the stream to the server.
LEMMA UpSteps ==
  ASSUME [Next]_vars
  PROVE  \/ up' = up \/ up' = <<>>
         \/ MainSends \/ SendAck \/ ServeRequest \/ ServeAck
BY DEF Next, MainSteps, Console, Listener, Server, vars, threads, wire, Begin, MainSendFails,
       SendFails, Answered, TimeOut, Withdraw, Leave, Goodbye, Stop, Join, CheckStop,
       SelectTimesOut, Receive, Store, AckFails, Deliver, Put, Hangup, SetStop, FailAll,
       PutClosed, CloseSocket, Violation, Push, Close

\* The steps that change the stream to the client.
LEMMA DownSteps ==
  ASSUME [Next]_vars
  PROVE  down' = down \/ Receive \/ ServeRequest \/ ServeAck \/ Violation \/ Push
BY DEF Next, MainSteps, Console, Listener, Server, vars, threads, wire, Begin, MainSends,
       MainSendFails, Answered, TimeOut, Withdraw, Leave, Goodbye, Stop, Join, CheckStop,
       SelectTimesOut, Store, SendAck, AckFails, Deliver, Put, Hangup, SetStop, FailAll,
       PutClosed, CloseSocket, Close

\* What the listener has in its hands comes from the stream, and what it sends
\* is built when a file has been stored.
LEMMA ListenerSteps ==
  ASSUME TypeInv, [Next]_vars
  PROVE  \/ Receive \/ Store
         \/ /\ lis'.frame = lis.frame /\ lis'.out = lis.out
            /\ lis'.pc \in Handling => lis.pc \in Handling
            /\ lis'.pc \in {"ack", "ackRest"} => lis.pc \in {"ack", "ackRest"}
<1> DEFINE Kept == /\ lis'.frame = lis.frame /\ lis'.out = lis.out
                   /\ lis'.pc \in Handling => lis.pc \in Handling
                   /\ lis'.pc \in {"ack", "ackRest"} => lis.pc \in {"ack", "ackRest"}
<1> USE DEF Handling, Listening, LisGoto, Listeners, TypeInv, TypeOK
<1>1. lis' = lis => Kept
  OBVIOUS
<1>2. CheckStop \/ SelectTimesOut \/ AckFails \/ Hangup \/ SetStop \/ CloseSocket => Kept
  BY DEF CheckStop, SelectTimesOut, AckFails, Hangup, SetStop, CloseSocket
<1>3. SendAck => Kept
  BY DEF SendAck
<1>4. Deliver \/ Put \/ FailAll => Kept
  BY DEF Deliver, Put, FailAll
<1>5. \A i \in waiters \cup lis.holds : PutClosed(i) => Kept
  BY DEF PutClosed
<1>6. QED
  BY <1>1, <1>2, <1>3, <1>4, <1>5
  DEF Next, MainSteps, Console, Listener, Server, vars, threads, wire, Begin, MainSends,
      MainSendFails, Answered, TimeOut, Withdraw, Leave, Goodbye, Stop, Join, ServeRequest,
      ServeAck, Violation, Push, Close, ServerOnly

\* The steps that put something into a queue.
LEMMA BoxSteps ==
  ASSUME [Next]_vars
  PROVE  box' \subseteq box \/ Put \/ \E i \in waiters \cup lis.holds : PutClosed(i)
BY DEF Next, MainSteps, Console, Listener, Server, vars, threads, wire, Begin, MainSends,
       MainSendFails, Answered, TimeOut, Withdraw, Leave, Goodbye, Stop, Join, CheckStop,
       SelectTimesOut, Receive, Store, SendAck, AckFails, Deliver, Hangup, SetStop, FailAll,
       CloseSocket, ServeRequest, ServeAck, Violation, Push, Close, ServerOnly

\* Main's request stays the same until it is over, and ids only grow.
LEMMA RequestSteps ==
  ASSUME TypeInv, [Next]_vars
  PROVE  /\ counter' \in Nat /\ counter <= counter'
         /\ stop => stop'
         /\ \/ main'.kind = main.kind /\ main'.id = main.id
               /\ (main'.pc \in Sending => main.pc \in Sending)
            \/ main'.pc \notin Sending
            \/ main'.id = counter + 1
BY DEF Next, MainSteps, Console, Listener, Server, vars, threads, wire, Begin, MainSends,
       MainSendFails, Answered, TimeOut, Withdraw, Leave, Goodbye, Stop, Join, CheckStop,
       SelectTimesOut, Receive, Store, SendAck, AckFails, Deliver, Put, Hangup, SetStop,
       FailAll, PutClosed, CloseSocket, ServeRequest, ServeAck, Violation, Push, Close,
       ServerOnly, NextId, Sending, TypeInv, TypeOK, Mains

-----------------------------------------------------------------------------
(* Answers and ids.                                                         *)

\* A frame that is main's own, or none of main's, stays so.
LEMMA OwnIdKept ==
  ASSUME TypeInv, Waiting, [Next]_vars, NEW f, f.id \in Nat, OwnId(f)
  PROVE  OwnId(f)'
<1>1. main.id \in Nat /\ main.id <= counter /\ counter \in Nat
  BY DEF TypeInv, TypeOK, Mains, Waiting
<1>2. QED
  BY <1>1, RequestSteps DEF OwnId

\* Ids are numbers.
LEMMA Ids ==
  ASSUME TypeInv
  PROVE  /\ \A f \in Frames \cup Pushed : f.id \in Nat
         /\ \A m \in Answers : m.re.id \in Nat /\ m # Closed
         /\ \A i \in DOMAIN up : up[i] \in Halves /\ up[i].frame \in Frames
         /\ \A i \in DOMAIN down : down[i] \in Answers
         /\ \A x \in box : x.msg # Closed => x.msg \in Answers
<1>1. \A f \in Frames \cup Pushed : f.id \in Nat
  BY DEF Frames, Pushed
<1>2. \A m \in Answers : m.re.id \in Nat /\ m # Closed
  BY <1>1 DEF Answers, Closed
<1>3. \A i \in DOMAIN up : up[i] \in Halves
  BY Elements DEF TypeInv, TypeOK
<1>4. \A i \in DOMAIN up : up[i].frame \in Frames
  BY <1>3 DEF Halves
<1>5. \A i \in DOMAIN down : down[i] \in Answers
  BY Elements DEF TypeInv, TypeOK
<1>6. \A x \in box : x.msg # Closed => x.msg \in Answers
  BY DEF TypeInv, TypeOK, Box, Closed
<1>7. QED
  BY <1>1, <1>2, <1>3, <1>4, <1>5, <1>6

\* Ids are not reused, and an item in a queue is for the request of that id.
LEMMA OwnedInvariant == Spec => []Owned
<1>1. Init => Owned
  BY DEF Init, Owned, Handling
<1>2. TypeInv /\ Waiting /\ Owned /\ [Next]_vars => Owned'
  <2> SUFFICES ASSUME TypeInv, Waiting, Owned, [Next]_vars PROVE Owned'
    OBVIOUS
  <2> DEFINE Ok(f) == /\ f.id <= counter'
                      /\ main'.pc \in Sending /\ f.id = main'.id =>
                           f = Frame(main'.kind, main'.id, 0)
  <2>1. \A f : f.id \in Nat /\ OwnId(f) => Ok(f)
    BY OwnIdKept DEF OwnId
  <2>0. Owned' <=> /\ \A i \in DOMAIN up' : Ok(up'[i].frame)
                   /\ \A i \in DOMAIN down' : down'[i].kind # "PUSH" => Ok(down'[i].re)
                   /\ lis'.pc \in Handling /\ lis'.frame.kind # "PUSH" => Ok(lis'.frame.re)
                   /\ lis'.pc \in {"ack", "ackRest"} => Ok(lis'.out)
                   /\ \A x \in box' :
                        IF x.msg = Closed THEN stop' ELSE x.waiter = x.msg.re.id /\ Ok(x.msg.re)
    BY DEF Owned, OwnId, Closed
  <2> HIDE DEF Ok
  <2>2. \A i \in DOMAIN up' : Ok(up'[i].frame)
    <3>1. \A i \in DOMAIN up : Ok(up[i].frame)
      BY <2>1, Ids DEF Owned
    <3>2. ASSUME NEW f \in Frames, NEW part \in {"head", "rest"}, OwnId(f), Written(Half(f, part))
          PROVE  \A i \in DOMAIN up' : Ok(up'[i].frame)
      <4>1. Half(f, part) \in Halves /\ Half(f, part).frame = f
        BY DEF Half, Halves
      <4>2. Ok(f)
        BY <2>1, <3>2, Ids
      <4>3. QED
        BY <3>1, <3>2, <4>1, <4>2, Elements DEF Written, TypeInv, TypeOK
    <3>3. CASE MainSends
      <4> DEFINE f == Frame(main.kind, main.id, 0)
      <4>1. f \in Frames /\ f.id = main.id
        BY FrameTypes DEF TypeInv, TypeOK, Mains, Frame
      <4>2. OwnId(f)
        BY <4>1 DEF OwnId, Waiting
      <4>3. PICK part \in {"head", "rest"} : Written(Half(f, part))
        BY <3>3 DEF MainSends, SendFirst, SendRest
      <4>4. QED
        BY <3>2, <4>1, <4>2, <4>3
    <3>4. CASE SendAck
      <4>1. lis.out \in Frames /\ OwnId(lis.out)
        BY <3>4 DEF SendAck, Listening, Owned, TypeInv, Control
      <4>2. PICK part \in {"head", "rest"} : Written(Half(lis.out, part))
        BY <3>4 DEF SendAck, SendFirst, SendRest
      <4>3. QED
        BY <3>2, <4>1, <4>2
    <3>5. CASE ServeRequest \/ ServeAck
      BY <3>1, <3>5, Rest DEF ServeRequest, ServeAck, TypeInv, TypeOK
    <3>6. QED
      BY <3>1, <3>3, <3>4, <3>5, UpSteps
  <2>3. \A i \in DOMAIN down' : down'[i].kind # "PUSH" => Ok(down'[i].re)
    <3>1. \A i \in DOMAIN down : down[i].kind # "PUSH" => Ok(down[i].re)
      BY <2>1, Ids DEF Owned
    <3>2. CASE Receive
      BY <3>1, <3>2, Elements DEF Receive, TypeInv, TypeOK
    <3>3. ASSUME NEW kind \in {"OK", "ERROR", "TRANSFER"}, Whole, Replies(kind)
          PROVE  \A i \in DOMAIN down' : down'[i].kind # "PUSH" => Ok(down'[i].re)
      <4>1. Next1 \in Frames /\ OwnId(Next1)
        BY <3>3, Elements, ReadTypes DEF Whole, Next1, Owned, TypeInv, TypeOK
      <4>2. Answer(kind, Next1) \in Answers /\ Answer(kind, Next1).re = Next1
        BY <4>1, FrameTypes DEF Answer
      <4>3. Ok(Next1)
        BY <2>1, <4>1, Ids
      <4>4. QED
        BY <3>1, <3>3, <4>2, <4>3, Elements DEF Replies, TypeInv, TypeOK
    <3>4. CASE ServeRequest \/ ServeAck \/ Violation
      BY <3>1, <3>3, <3>4 DEF ServeRequest, ServeAck, Violation
    <3>5. CASE Push
      <4>1. PICK p \in Answers : p.kind = "PUSH" /\ down' = Append(down, p)
        <5> DEFINE p == Answer("PUSH", [kind |-> "PUSH", id |-> 1001 + srv.pushed, acks |-> 0])
        <5>1. srv.pushed \in Nat
          BY RequestBounds DEF TypeInv, TypeOK, Servers
        <5>2. p \in Answers /\ p.kind = "PUSH"
          BY <5>1, FrameTypes DEF Pushed, Answer
        <5>3. down' = Append(down, p)
          BY <3>5 DEF Push
        <5>4. QED
          BY <5>2, <5>3
      <4>2. QED
        BY <3>1, <4>1, Elements DEF TypeInv, TypeOK
    <3>6. QED
      BY <3>1, <3>2, <3>4, <3>5, DownSteps
  <2>4. /\ lis'.pc \in Handling /\ lis'.frame.kind # "PUSH" => Ok(lis'.frame.re)
        /\ lis'.pc \in {"ack", "ackRest"} => Ok(lis'.out)
    <3>1. lis.pc \in Handling /\ lis.frame.kind # "PUSH" => Ok(lis.frame.re)
      BY <2>1, Ids DEF Owned, TypeInv, Control
    <3>2. lis.pc \in {"ack", "ackRest"} => Ok(lis.out)
      BY <2>1, Ids DEF Owned, TypeInv, Control
    <3>3. CASE Receive
      <4>1. lis'.frame = down[1] /\ lis'.pc \in {"deliver", "store"} /\ 1 \in DOMAIN down
        BY <3>3, Elements DEF Receive, TypeInv, TypeOK, Listeners
      <4>2. QED
        BY <2>1, <4>1, Ids DEF Owned
    <3>4. CASE Store
      <4> DEFINE f == Frame("ACK", counter + 1, lis.frame.re.id)
      <4>1. lis.pc = "store" /\ lis'.frame = lis.frame
        BY <3>4 DEF Store, LisGoto, Listening, TypeInv, TypeOK, Listeners
      <4>2. \/ lis'.out = f /\ counter' = counter + 1
            \/ lis'.pc \notin {"ack", "ackRest"}
        BY <3>4 DEF Store, NextId, AfterStore, LisGoto, Listening, TypeInv, TypeOK, Listeners
      <4>3. f.id = counter + 1
        BY DEF Frame
      <4>4. main' = main /\ main.id <= counter /\ main.id \in Nat /\ counter \in Nat
        BY <3>4 DEF Store, Waiting, TypeInv, TypeOK, Mains
      <4>5. counter' = counter + 1 => Ok(f)
        BY <4>3, <4>4 DEF Ok
      <4>6. QED
        BY <3>1, <4>1, <4>2, <4>5 DEF Handling
    <3>5. QED
      BY <3>1, <3>2, <3>3, <3>4, ListenerSteps
  <2>5. \A x \in box' :
          IF x.msg = Closed THEN stop' ELSE x.waiter = x.msg.re.id /\ Ok(x.msg.re)
    <3>1. \A x \in box :
            IF x.msg = Closed THEN stop' ELSE x.waiter = x.msg.re.id /\ Ok(x.msg.re)
      BY <2>1, Ids, RequestSteps DEF Owned
    <3>2. CASE Put
      <4> DEFINE r == lis.frame.re.id
                 y == [waiter |-> r, msg |-> lis.frame]
      <4>1. lis.holds = {r} /\ lis.frame \in Answers /\ lis.frame.kind # "PUSH"
        BY <3>2 DEF Put, Listening, Handling, Waiting, TypeInv, Control
      <4>2. box' = box \cup {y}
        BY <3>2, <4>1 DEF Put
      <4>3. y.msg # Closed /\ Ok(y.msg.re) /\ y.waiter = y.msg.re.id
        BY <2>1, <3>2, <4>1, Ids DEF Put, Listening, Owned, Handling
      <4>4. QED
        BY <3>1, <4>2, <4>3
    <3>3. ASSUME NEW i \in waiters \cup lis.holds, PutClosed(i)
          PROVE  \A x \in box' :
            IF x.msg = Closed THEN stop' ELSE x.waiter = x.msg.re.id /\ Ok(x.msg.re)
      <4>1. stop' /\ box' = box \cup {[waiter |-> i, msg |-> Closed]}
        BY <3>3 DEF PutClosed, Listening, TypeInv, Control, threads
      <4>2. QED
        BY <3>1, <4>1
    <3>4. QED
      BY <3>1, <3>2, <3>3, BoxSteps
  <2>6. QED
    BY <2>0, <2>2, <2>3, <2>4, <2>5
<1>3. QED
  BY <1>1, <1>2, TypeInvariant, WaiterInvariant, PTL DEF Spec

\* The answer main finds is one to its own request, or says that the connection
\* has closed.
THEOREM AnswersMatch == Spec => []AnswerMatches
<1>1. TypeInv /\ Owned => AnswerMatches
  BY DEF Owned, OwnId, AnswerMatches, Arrived, Sending
<1>2. QED
  BY <1>1, TypeInvariant, OwnedInvariant, PTL

-----------------------------------------------------------------------------
(* The stream of two senders.                                               *)

\* The steps that send, read or close leave the rest of the lock, the stream and
\* the senders' places alone.
LEMMA QuietSteps ==
  ASSUME TypeInv, [Next]_vars
  PROVE  \/ MainSends \/ MainSendFails \/ SendAck \/ AckFails
         \/ ServeRequest \/ ServeAck \/ Violation \/ Close
         \/ /\ UNCHANGED <<up, sendLock, cut>> /\ srv'.open = srv.open
            /\ \/ main' = main
               \/ main.pc \notin {"sendRest", "byeRest"} /\ main'.pc \notin {"sendRest", "byeRest"}
            /\ \/ lis' = lis
               \/ lis.pc # "ackRest" /\ lis'.pc # "ackRest"
<1> DEFINE Quiet ==
      /\ UNCHANGED <<up, sendLock, cut>> /\ srv'.open = srv.open
      /\ \/ main' = main
         \/ main.pc \notin {"sendRest", "byeRest"} /\ main'.pc \notin {"sendRest", "byeRest"}
      /\ \/ lis' = lis
         \/ lis.pc # "ackRest" /\ lis'.pc # "ackRest"
<1> USE DEF threads, wire
<1>1. Begin("QUERY") \/ Begin("DOWNLOAD") \/ Answered \/ TimeOut \/ Withdraw \/ Leave => Quiet
  BY DEF Begin, Answered, TimeOut, Expires, Withdraw, Leave, Mains, TypeInv, TypeOK
<1>2. Goodbye \/ Stop \/ Join => Quiet
  BY DEF Goodbye, Stop, Join, Mains, TypeInv, TypeOK
<1>3. CheckStop \/ SelectTimesOut \/ Receive \/ Store \/ Deliver => Quiet
  BY DEF CheckStop, SelectTimesOut, Receive, Store, AfterStore, Deliver, LisGoto, Listening,
         Listeners, TypeInv, TypeOK
<1>4. Put \/ Hangup \/ SetStop \/ FailAll \/ CloseSocket => Quiet
  BY DEF Put, Hangup, SetStop, FailAll, CloseSocket, LisGoto, Listening, Listeners, TypeInv,
         TypeOK
<1>5. \A i \in waiters \cup lis.holds : PutClosed(i) => Quiet
  BY DEF PutClosed, Listening, Listeners, TypeInv, TypeOK
<1>6. Push => Quiet
  BY DEF Push, ServerOnly
<1>7. UNCHANGED vars => Quiet
  BY DEF vars
<1>8. QED
  BY <1>1, <1>2, <1>3, <1>4, <1>5, <1>6, <1>7 DEF Next, MainSteps, Console, Listener, Server

\* send_lock is held by the thread that has sent the first half of a frame, and
\* nothing is left in the stream to a server that has closed.
LEMMA LockKept ==
  ASSUME TypeInv, Stream, [Next]_vars
  PROVE  /\ sendLock' <=> main'.pc \in {"sendRest", "byeRest"} \/ lis'.pc = "ackRest"
         /\ ~(main'.pc \in {"sendRest", "byeRest"} /\ lis'.pc = "ackRest")
         /\ ~srv'.open => up' = <<>>
<1> DEFINE Lock == /\ sendLock <=> main.pc \in {"sendRest", "byeRest"} \/ lis.pc = "ackRest"
                   /\ ~(main.pc \in {"sendRest", "byeRest"} /\ lis.pc = "ackRest")
                   /\ ~srv.open => up = <<>>
<1>1. Lock
  BY DEF Stream
<1> USE DEF SendPoints, SendFails, LockToSend, LisGoto, Listening, Mains, Listeners, Servers,
            TypeInv, TypeOK
<1>2. CASE MainSends
  BY <1>1, <1>2 DEF MainSends, SendFirst, SendRest, Written
<1>3. CASE MainSendFails
  BY <1>1, <1>3 DEF MainSendFails
<1>4. CASE SendAck
  BY <1>1, <1>4 DEF SendAck, SendFirst, SendRest, Written
<1>5. CASE AckFails
  BY <1>1, <1>5 DEF AckFails
<1>6. CASE ServeRequest
  BY <1>1, <1>6 DEF ServeRequest, Whole, ServerOnly, threads
<1>7. CASE ServeAck
  BY <1>1, <1>7 DEF ServeAck, Whole, ServerOnly, threads
<1>8. CASE Violation \/ Close
  BY <1>1, <1>8 DEF Violation, Close, ServerOnly, threads
<1>9. QED
  BY <1>1, <1>2, <1>3, <1>4, <1>5, <1>6, <1>7, <1>8, QuietSteps

\* Frames are sent one after the other, half by half.
Framed ==
  /\ FramesWhole
  /\ up # <<>> => up[1].part = "head"
  /\ ~sendLock /\ up # <<>> => up[Len(up)].part = "rest"
  /\ sendLock /\ srv.open => up # <<>> /\ up[Len(up)] = Half(Begun, "head")

\* A first half comes after whole frames ...
LEMMA FirstHalf ==
  ASSUME TypeInv, Framed, ~cut, ~sendLock, ~srv.open => up = <<>>,
         NEW f \in Frames, SendFirst(f), srv'.open = srv.open, Begun' = f
  PROVE  Framed'
<1>1. Half(f, "head") \in Halves /\ Half(f, "head").part = "head"
  BY DEF Half, Halves
<1>2. CASE ~srv.open
  BY <1>2 DEF SendFirst, Written, Framed, FramesWhole
<1>3. CASE srv.open
  <2> DEFINE h == Half(f, "head")
             n == Len(up)
  <2> HIDE DEF h
  <2>1. up' = Append(up, h) /\ up \in Seq(Halves) /\ sendLock'
    BY <1>3 DEF SendFirst, Written, TypeInv, TypeOK, h
  <2>2. /\ n \in Nat /\ Len(up') = n + 1 /\ DOMAIN up = 1..n /\ DOMAIN up' = 1..(n + 1)
        /\ \A i \in 1..n : up'[i] = up[i]
        /\ up'[n + 1] = h
    BY <1>1, <2>1 DEF h
  <2>3. \A i \in 1..n :
          /\ up[i].part = "rest" => i > 1 /\ up[i - 1] = Half(up[i].frame, "head")
          /\ up[i].part = "head" /\ i < n => up[i + 1] = Half(up[i].frame, "rest")
    BY <2>2 DEF Framed, FramesWhole
  <2>4. n > 0 => up[n].part = "rest" /\ up[1].part = "head"
    BY <2>1, <2>2 DEF Framed
  <2>5. h.part = "head"
    BY <1>1 DEF h
  <2>6. FramesWhole'
    <3> SUFFICES ASSUME NEW i \in 1..(n + 1)
                 PROVE  /\ up'[i].part = "rest" => i > 1 /\ up'[i - 1] = Half(up'[i].frame, "head")
                        /\ up'[i].part = "head" /\ i < n + 1 => up'[i + 1] = Half(up'[i].frame, "rest")
      BY <2>2 DEF FramesWhole, Half
    <3>1. CASE i = n + 1
      BY <2>2, <2>5, <3>1
    <3>2. CASE i = n
      BY <2>2, <2>3, <2>4, <3>2
    <3>3. CASE i \in 1..(n - 1)
      BY <2>2, <2>3, <3>3
    <3>4. n \in Nat
      BY <2>2
    <3>5. i = n + 1 \/ i = n \/ i \in 1..(n - 1)
      BY <3>4
    <3>6. QED
      BY <3>1, <3>2, <3>3, <3>5
  <2>7. up'[1].part = "head"
    BY <2>2, <2>4, <2>5
  <2>8. QED
    BY <2>1, <2>2, <2>6, <2>7 DEF Framed, h, Half
<1>4. QED
  BY <1>2, <1>3 DEF TypeInv, TypeOK, Servers

\* ... and a second half after its first.
LEMMA SecondHalf ==
  ASSUME TypeInv, Framed, ~cut, sendLock, ~srv.open => up = <<>>,
         SendRest(Begun), Begun \in Frames, srv'.open = srv.open
  PROVE  Framed'
<1> DEFINE f == Begun
<1>1. Half(f, "rest") \in Halves /\ Half(f, "rest").part = "rest" /\ Half(f, "rest").frame = f
  BY DEF Half, Halves
<1>2. CASE ~srv.open
  BY <1>2 DEF SendRest, Written, Framed, FramesWhole
<1>3. CASE srv.open
  <2> DEFINE h == Half(f, "rest")
             n == Len(up)
  <2>1. up' = Append(up, h) /\ up \in Seq(Halves) /\ ~sendLock'
    BY <1>3 DEF SendRest, Written, TypeInv, TypeOK
  <2>2. /\ n \in Nat /\ n > 0 /\ up[n] = Half(f, "head")
    BY <1>3, <2>1 DEF Framed
  <2> HIDE DEF h, f
  <2>3. /\ Len(up') = n + 1 /\ DOMAIN up = 1..n /\ DOMAIN up' = 1..(n + 1)
        /\ \A i \in 1..n : up'[i] = up[i]
        /\ up'[n + 1] = h
    BY <1>1, <2>1 DEF h
  <2>4. \A i \in 1..n :
          /\ up[i].part = "rest" => i > 1 /\ up[i - 1] = Half(up[i].frame, "head")
          /\ up[i].part = "head" /\ i < n => up[i + 1] = Half(up[i].frame, "rest")
    BY <2>3 DEF Framed, FramesWhole
  <2>5. up[1].part = "head"
    BY <2>1, <2>2 DEF Framed
  <2>6. h.part = "rest" /\ h.frame = f /\ up[n].frame = f
    BY <1>1, <2>2 DEF h, Half
  <2>7. FramesWhole'
    <3> SUFFICES ASSUME NEW i \in 1..(n + 1)
                 PROVE  /\ up'[i].part = "rest" => i > 1 /\ up'[i - 1] = Half(up'[i].frame, "head")
                        /\ up'[i].part = "head" /\ i < n + 1 => up'[i + 1] = Half(up'[i].frame, "rest")
      BY <2>3 DEF FramesWhole, Half
    <3>1. CASE i = n + 1
      BY <2>2, <2>3, <2>6, <3>1
    <3>2. CASE i = n
      BY <2>2, <2>3, <2>4, <2>6, <3>2 DEF h
    <3>3. CASE i \in 1..(n - 1)
      BY <2>2, <2>3, <2>4, <3>3
    <3>4. QED
      BY <2>2, <3>1, <3>2, <3>3
  <2>8. up'[1].part = "head" /\ up'[Len(up')].part = "rest"
    BY <2>2, <2>3, <2>5, <2>6
  <2>9. QED
    BY <2>1, <2>7, <2>8 DEF Framed
<1>4. QED
  BY <1>2, <1>3 DEF TypeInv, TypeOK, Servers

\* The server reads a whole frame, and what is left begins with a first half.
LEMMA FrameRead ==
  ASSUME TypeInv, Framed, ~cut, Whole, Consumed, UNCHANGED sendLock, Begun' = Begun,
         srv'.open = srv.open
  PROVE  Framed'
<1> DEFINE n == Len(up)
<1>1. /\ n \in Nat /\ n >= 2 /\ DOMAIN up = 1..n
      /\ up[2].part = "rest" /\ up # <<>>
  BY DEF Whole, Half, TypeInv, TypeOK
<1>2. /\ Len(up') = n - 2 /\ DOMAIN up' = 1..(n - 2)
      /\ \A i \in 1..(n - 2) : up'[i] = up[i + 2]
  BY Rest DEF TypeInv, TypeOK
<1>3. \A i \in 1..n :
        /\ up[i].part = "rest" => i > 1 /\ up[i - 1] = Half(up[i].frame, "head")
        /\ up[i].part = "head" /\ i < n => up[i + 1] = Half(up[i].frame, "rest")
  BY <1>1 DEF Framed, FramesWhole
<1>4. n > 2 => up[3] \in Halves
  BY <1>1 DEF TypeInv, TypeOK
<1>5. n > 2 => up[3].part = "head"
  <2> SUFFICES ASSUME n > 2, up[3].part = "rest" PROVE FALSE
    BY <1>4 DEF Halves
  <2>1. up[2] = Half(up[3].frame, "head")
    BY <1>1, <1>3
  <2>2. QED
    BY <1>1, <2>1 DEF Half
<1>6. FramesWhole'
  <2> SUFFICES ASSUME NEW i \in 1..(n - 2)
               PROVE  /\ up'[i].part = "rest" => i > 1 /\ up'[i - 1] = Half(up'[i].frame, "head")
                      /\ up'[i].part = "head" /\ i < n - 2 => up'[i + 1] = Half(up'[i].frame, "rest")
    BY <1>2 DEF FramesWhole, Half
  <2>1. CASE i = 1
    BY <1>1, <1>2, <1>3, <1>5, <2>1
  <2>2. CASE i > 1
    <3>1. i + 2 \in 1..n /\ i - 1 \in 1..(n - 2) /\ up'[i] = up[i + 2]
      BY <1>1, <1>2, <2>2
    <3>2. up'[i - 1] = up[i + 1]
      BY <1>1, <1>2, <2>2, <3>1
    <3>3. i < n - 2 => up'[i + 1] = up[i + 3]
      BY <1>1, <1>2, <2>2, <3>1
    <3>4. /\ up[i + 2].part = "rest" => up[i + 1] = Half(up[i + 2].frame, "head")
          /\ up[i + 2].part = "head" /\ i + 2 < n => up[i + 3] = Half(up[i + 2].frame, "rest")
      <4>1. (i + 2) - 1 = i + 1 /\ (i + 2) + 1 = i + 3
        OBVIOUS
      <4>2. QED
        BY <1>3, <3>1, <4>1
    <3>5. QED
      BY <1>1, <2>2, <3>1, <3>2, <3>3, <3>4
  <2>3. QED
    BY <1>1, <2>1, <2>2
<1>7. n > 2 => up'[1] = up[3] /\ up'[Len(up')] = up[n]
  BY <1>1, <1>2
<1>8. sendLock /\ srv.open => n > 2
  BY <1>1 DEF Framed, Half
<1>9. up' # <<>> => n > 2
  BY <1>1, <1>2, Rest DEF TypeInv, TypeOK
<1>10. n > 2 => up' # <<>>
  BY <1>1, <1>2
<1>11. QED
  BY <1>1, <1>5, <1>6, <1>7, <1>8, <1>9, <1>10 DEF Framed, Half

\* Frames do not mix.
LEMMA StreamInvariant == Spec => []Stream
<1>1. Init => Stream
  BY DEF Init, Stream, FramesWhole
<1>2. TypeInv /\ Stream /\ [Next]_vars => Stream'
  <2> SUFFICES ASSUME TypeInv, Stream, [Next]_vars PROVE Stream'
    OBVIOUS
  <2>1. Stream <=> /\ sendLock <=> main.pc \in {"sendRest", "byeRest"} \/ lis.pc = "ackRest"
                   /\ ~(main.pc \in {"sendRest", "byeRest"} /\ lis.pc = "ackRest")
                   /\ ~srv.open => up = <<>>
                   /\ ~cut => Framed
    BY DEF Stream, Framed
  <2>2. Stream' <=> /\ sendLock' <=> main'.pc \in {"sendRest", "byeRest"} \/ lis'.pc = "ackRest"
                    /\ ~(main'.pc \in {"sendRest", "byeRest"} /\ lis'.pc = "ackRest")
                    /\ ~srv'.open => up' = <<>>
                    /\ ~cut' => Framed'
    BY DEF Stream, Framed
  <2>3. ASSUME ~cut' PROVE Framed'
    <3>1. CASE MainSends
      <4> DEFINE f == Frame(main.kind, main.id, 0)
      <4>1. f \in Frames
        BY FrameTypes DEF TypeInv, TypeOK, Mains
      <4>2. ~cut /\ Framed /\ srv' = srv
        BY <2>1, <2>3, <3>1 DEF MainSends, SendFirst, SendRest
      <4>3. CASE main.pc \in {"send", "bye"}
        <5>1. SendFirst(f) /\ main'.pc \in {"sendRest", "byeRest"} /\ main'.kind = main.kind
              /\ main'.id = main.id
          BY <3>1, <4>3 DEF MainSends, Mains, TypeInv, TypeOK
        <5>2. Begun' = f
          BY <5>1 DEF Begun, Frame
        <5>3. ~sendLock
          BY <5>1 DEF SendFirst, LockToSend
        <5>4. QED
          BY <2>1, <4>1, <4>2, <5>1, <5>2, <5>3, FirstHalf
      <4>4. CASE main.pc \in {"sendRest", "byeRest"}
        <5>1. SendRest(f) /\ Begun = f
          BY <3>1, <4>4 DEF MainSends, Begun
        <5>2. QED
          BY <2>1, <4>1, <4>2, <4>4, <5>1, SecondHalf
      <4>5. QED
        BY <3>1, <4>3, <4>4 DEF MainSends
    <3>2. CASE SendAck
      <4>1. lis.out \in Frames
        BY <3>2 DEF SendAck, Listening, TypeInv, Control
      <4>2. ~cut /\ Framed /\ srv' = srv /\ main' = main
        BY <2>1, <2>3, <3>2 DEF SendAck, SendFirst, SendRest
      <4>3. CASE lis.pc = "ack"
        <5>1. SendFirst(lis.out) /\ lis'.pc = "ackRest" /\ lis'.out = lis.out
          BY <3>2, <4>3 DEF SendAck, Listening, LisGoto, Listeners, TypeInv, TypeOK
        <5>2. ~sendLock
          BY <5>1 DEF SendFirst, LockToSend
        <5>3. Begun' = lis.out
          BY <2>1, <4>2, <5>1, <5>2 DEF Begun
        <5>4. QED
          BY <2>1, <4>1, <4>2, <5>1, <5>2, <5>3, FirstHalf
      <4>4. CASE lis.pc = "ackRest"
        <5>1. SendRest(lis.out) /\ Begun = lis.out
          BY <2>1, <3>2, <4>4 DEF SendAck, Listening, Begun
        <5>2. QED
          BY <2>1, <4>1, <4>2, <4>4, <5>1, SecondHalf
      <4>5. QED
        BY <3>2, <4>3, <4>4 DEF SendAck, Listening
    <3>3. CASE MainSendFails
      <4>1. ~cut /\ ~sendLock /\ ~sendLock' /\ up' = up
        BY <2>3, <3>3 DEF MainSendFails, SendFails, LockToSend, TypeInv, TypeOK
      <4>2. QED
        BY <2>1, <2>3, <4>1 DEF Framed, FramesWhole, Half
    <3>4. CASE AckFails
      <4>1. ~cut /\ ~sendLock /\ ~sendLock' /\ up' = up
        BY <2>3, <3>4 DEF AckFails, SendFails, LockToSend, TypeInv, TypeOK, Listening
      <4>2. QED
        BY <2>1, <2>3, <4>1 DEF Framed, FramesWhole, Half
    <3>5. CASE ServeRequest \/ ServeAck
      <4>1. /\ ~cut /\ Framed /\ Whole /\ Consumed /\ UNCHANGED <<sendLock, main, lis>>
            /\ srv'.open = srv.open
        BY <2>1, <2>3, <3>5
        DEF ServeRequest, ServeAck, ServerOnly, threads, Servers, TypeInv, TypeOK
      <4>2. Begun' = Begun
        BY <4>1 DEF Begun, Frame
      <4>3. QED
        BY <4>1, <4>2, FrameRead
    <3>6. CASE Violation \/ Close
      <4>1. up' = <<>> /\ ~srv'.open
        BY <3>6 DEF Violation, Close, Servers, TypeInv, TypeOK
      <4>2. QED
        BY <4>1 DEF Framed, FramesWhole
    <3>7. ASSUME UNCHANGED <<up, sendLock, cut>>, srv'.open = srv.open,
                 \/ main' = main
                 \/ main.pc \notin {"sendRest", "byeRest"} /\ main'.pc \notin {"sendRest", "byeRest"},
                 \/ lis' = lis
                 \/ lis.pc # "ackRest" /\ lis'.pc # "ackRest"
          PROVE  Framed'
      <4>1. ~cut /\ Framed
        BY <2>1, <2>3, <3>7
      <4>2. sendLock => Begun' = Begun
        BY <2>1, <3>7 DEF Begun, Frame
      <4>3. FramesWhole'
        BY <3>7, <4>1 DEF Framed, FramesWhole, Half
      <4>4. QED
        BY <3>7, <4>1, <4>2, <4>3 DEF Framed, Half
    <3>8. QED
      BY <3>1, <3>2, <3>3, <3>4, <3>5, <3>6, <3>7, QuietSteps
  <2>4. QED
    BY <2>2, <2>3, LockKept
<1>3. QED
  BY <1>1, <1>2, TypeInvariant, PTL DEF Spec

\* Frames of the two threads do not mix in the stream, as long as no send has
\* failed half-way.
THEOREM FramesStayWhole == Spec => []FramesWhole
<1>1. Stream => FramesWhole
  BY DEF Stream, FramesWhole
<1>2. QED
  BY <1>1, StreamInvariant, PTL

-----------------------------------------------------------------------------
(* The ACK of a transfer.                                                   *)

\* A connection that is up has been so.
LEMMA ConnectedBefore ==
  ASSUME TypeInv, [Next]_vars, Connected'
  PROVE  /\ Connected /\ ~stop /\ ~cut /\ srv.open
         /\ ~Violation /\ ~Close
         /\ MainSendFails => main.pc \in {"send", "bye"} /\ up' = up
         /\ AckFails => up' = up
<1>1. cut => cut'
  BY DEF Next, MainSteps, Console, Listener, Server, vars, threads, wire, Begin, MainSends,
         MainSendFails, SendFails, SendFirst, SendRest, Answered, TimeOut, Withdraw, Leave,
         Goodbye, Stop, Join, CheckStop, SelectTimesOut, Receive, Store, SendAck, AckFails,
         Deliver, Put, Hangup, SetStop, FailAll, PutClosed, CloseSocket, ServeRequest,
         ServeAck, Violation, Push, Close, ServerOnly, TypeInv, TypeOK
<1>2. ~Violation /\ ~Close
  BY DEF Connected, Violation, Close, Servers, TypeInv, TypeOK
<1>3. srv.open
  <2>1. Push => srv.open
    BY DEF Push
  <2>2. ServeRequest \/ ServeAck => srv.open
    BY DEF ServeRequest, ServeAck, Whole
  <2>3. srv' = srv \/ Push \/ ServeRequest \/ ServeAck
    BY <1>2 DEF Next, MainSteps, Console, Listener, Server, vars, threads, wire, Begin, MainSends,
         MainSendFails, Answered, TimeOut, Withdraw, Leave, Goodbye, Stop, Join, CheckStop,
         SelectTimesOut, Receive, Store, SendAck, AckFails, Deliver, Put, Hangup, SetStop,
         FailAll, PutClosed, CloseSocket
  <2>4. QED
    BY <2>1, <2>2, <2>3 DEF Connected
<1>4. ~stop
  BY RequestSteps DEF Connected
<1>5. MainSendFails => main.pc \in {"send", "bye"} /\ up' = up
  BY DEF MainSendFails, SendFails, SendPoints, Connected
<1>6. AckFails => up' = up
  BY DEF AckFails, SendFails
<1>7. QED
  BY <1>1, <1>2, <1>3, <1>4, <1>5, <1>6 DEF Connected

\* What main does while the connection is up.
LEMMA MainConnected ==
  ASSUME TypeInv, [Next]_vars, Connected'
  PROVE  \/ main' = main /\ ~MainSends
         \/ Begin("QUERY") \/ Begin("DOWNLOAD") \/ MainSends \/ Answered
         \/ up' = up /\ main.pc = "console" /\ GaveUp'
         \/ up' = up /\ GaveUp /\ GaveUp'
         \/ up' = up /\ main.pc \in Sending /\ GaveUp'
<1> DEFINE R == \/ main' = main /\ ~MainSends
                \/ Begin("QUERY") \/ Begin("DOWNLOAD") \/ MainSends \/ Answered
                \/ up' = up /\ main.pc = "console" /\ GaveUp'
                \/ up' = up /\ GaveUp /\ GaveUp'
                \/ up' = up /\ main.pc \in Sending /\ GaveUp'
<1> USE DEF Mains, TypeInv, TypeOK, GaveUp, Sending, threads, wire
<1>1. MainSendFails => R
  BY ConnectedBefore DEF MainSendFails
<1>2. TimeOut \/ Withdraw \/ Leave \/ Goodbye \/ Stop \/ Join => R
  BY DEF TimeOut, Expires, Withdraw, Leave, Goodbye, Stop, Join
<1>3. main' = main => R
  OBVIOUS
<1>4. QED
  BY <1>1, <1>2, <1>3
  DEF Next, MainSteps, Console, Listener, Server, vars, CheckStop, SelectTimesOut, Receive, Store,
      SendAck, AckFails, Deliver, Put, Hangup, SetStop, FailAll, PutClosed, CloseSocket,
      ServeRequest, ServeAck, Violation, Push, Close, ServerOnly

\* The elements of the stream after a step: what was there, a request of main,
\* or an ACK or DISCONNECT.
LEMMA Sent ==
  ASSUME TypeInv, [Next]_vars, NEW i \in DOMAIN up', Asks(i)'
  PROVE  \/ \E j \in DOMAIN up : up[j] = up'[i]
         \/ /\ MainSends /\ main.pc \in {"send", "sendRest"}
            /\ up'[i].frame = Frame(main.kind, main.id, 0)
<1>1. ASSUME NEW f \in Frames, NEW part \in {"head", "rest"}, Written(Half(f, part)),
             ~\E j \in DOMAIN up : up[j] = up'[i]
      PROVE  up'[i].frame = f
  <2>1. Half(f, part) \in Halves /\ Half(f, part).frame = f
    BY DEF Half, Halves
  <2>2. QED
    BY <1>1, <2>1, Elements DEF Written, TypeInv, TypeOK
<1>2. CASE MainSends
  <2> DEFINE f == Frame(main.kind, main.id, 0)
  <2>1. f \in Frames /\ f.kind = main.kind
    BY FrameTypes DEF TypeInv, TypeOK, Mains, Frame
  <2>2. \E part \in {"head", "rest"} : Written(Half(f, part))
    BY <1>2 DEF MainSends, SendFirst, SendRest
  <2>3. ~(\E j \in DOMAIN up : up[j] = up'[i]) => up'[i].frame = f
    BY <1>1, <2>1, <2>2
  <2>4. up'[i].frame = f => main.pc \in {"send", "sendRest"}
    BY <1>2, <2>1 DEF MainSends, Asks, Asking, TypeInv, Control
  <2>5. QED
    BY <1>2, <2>3, <2>4
<1>3. CASE SendAck
  <2>1. lis.out \in Frames /\ lis.out.kind = "ACK"
    BY <1>3 DEF SendAck, Listening, TypeInv, Control
  <2>2. \E part \in {"head", "rest"} : Written(Half(lis.out, part))
    BY <1>3 DEF SendAck, SendFirst, SendRest
  <2>3. up'[i].frame # lis.out
    BY <2>1 DEF Asks, Asking
  <2>4. QED
    BY <1>1, <2>1, <2>2, <2>3
<1>4. CASE ServeRequest \/ ServeAck
  BY <1>4, Rest DEF ServeRequest, ServeAck, TypeInv, TypeOK
<1>5. CASE up' = up \/ up' = <<>>
  BY <1>5
<1>6. QED
  BY <1>2, <1>3, <1>4, <1>5, UpSteps

\* A request that is read was the only one.
LEMMA OneRequest ==
  ASSUME TypeInv, Stream, ~cut, AsksOnce, Whole, Consumed, Asks(1)
  PROVE  NoRequest'
<1> DEFINE n == Len(up)
<1>1. /\ n \in Nat /\ n >= 2 /\ DOMAIN up = 1..n /\ up[1].part = "head"
      /\ \A i \in 1..n : up[i] \in Halves
  BY DEF Whole, TypeInv, TypeOK
<1>2. \A i \in DOMAIN up' : i + 2 \in 1..n /\ i >= 1 /\ up'[i] = up[i + 2]
  BY <1>1, Rest DEF TypeInv, TypeOK
<1>3. ASSUME NEW i \in 2..n, up[i].part = "head" PROVE ~Asks(i)
  BY <1>1, <1>3 DEF AsksOnce
<1>4. ASSUME NEW i \in 3..n PROVE ~Asks(i)
  <2>1. CASE up[i].part = "head"
    BY <1>3, <2>1
  <2>2. CASE up[i].part = "rest"
    <3>1. up[i - 1] = Half(up[i].frame, "head") /\ i - 1 \in 2..n
      BY <1>1, <2>2 DEF Stream, FramesWhole
    <3>2. up[i - 1].frame = up[i].frame /\ up[i - 1].part = "head"
      BY <3>1 DEF Half
    <3>3. ~Asks(i - 1)
      BY <1>3, <3>1, <3>2
    <3>4. QED
      BY <3>2, <3>3 DEF Asks
  <2>3. QED
    BY <1>1, <2>1, <2>2 DEF Halves
<1>5. \A i \in DOMAIN up' : i + 2 \in 3..n
  BY <1>1, <1>2
<1>6. QED
  BY <1>2, <1>4, <1>5 DEF NoRequest, Asks

\* While main has sent half of its request, that half is the end of the stream.
LEMMA HalfSent ==
  ASSUME TypeInv, Stream, Connected, main.pc = "sendRest"
  PROVE  /\ Len(up) \in DOMAIN up /\ Asks(Len(up)) /\ up[Len(up)].part = "head"
         /\ AsksOnce => ~(Whole /\ Asks(1))
<1> DEFINE n == Len(up)
<1>1. up # <<>> /\ up[n] = Half(Frame(main.kind, main.id, 0), "head")
  BY DEF Stream, Begun, Connected
<1>2. n \in DOMAIN up /\ n \in Nat
  BY <1>1 DEF TypeInv, TypeOK
<1>3. Asks(n) /\ up[n].part = "head"
  BY <1>1 DEF Asks, Asking, Half, Frame, TypeInv, Control, Sending
<1>4. AsksOnce /\ Whole /\ Asks(1) => FALSE
  <2> SUFFICES ASSUME AsksOnce, Whole, Asks(1) PROVE FALSE
    OBVIOUS
  <2>1. n >= 2 /\ 1 \in DOMAIN up /\ up[1].part = "head"
    BY <1>2 DEF Whole, TypeInv, TypeOK
  <2>2. n = 1
    BY <1>2, <1>3, <2>1 DEF AsksOnce
  <2>3. QED
    BY <2>1, <2>2
<1>5. QED
  BY <1>2, <1>3, <1>4

\* A request that has not been answered stays so, until the server reads it.
LEMMA UnansweredKept ==
  ASSUME TypeInv, Owned, [Next]_vars, Unanswered, main.pc \in Sending,
         main'.id = main.id, ~ServeRequest, ~Violation
  PROVE  Unanswered'
<1>1. \A i \in DOMAIN down' : down'[i].kind # "PUSH" => down'[i].re.id # main.id
  <2>1. CASE Receive
    BY <2>1, Elements DEF Receive, Unanswered, TypeInv, TypeOK
  <2>2. CASE ServeAck
    <3>1. Next1 \in Frames /\ OwnId(Next1) /\ Next1.kind = "ACK"
      BY <2>2, ReadTypes, Elements DEF ServeAck, Whole, Next1, Owned, TypeInv, TypeOK
    <3>2. Next1.id # main.id
      BY <3>1 DEF OwnId, Frame, TypeInv, Control
    <3> DEFINE e == Answer("ERROR", Next1)
    <3>3. e \in Answers /\ e.re.id # main.id
      BY <3>1, <3>2, FrameTypes DEF Answer
    <3>4. down' = down \/ down' = Append(down, e)
      BY <2>2 DEF ServeAck, Replies
    <3> HIDE DEF e
    <3>5. CASE down' = Append(down, e)
      BY <3>3, <3>5, Elements DEF Unanswered, TypeInv, TypeOK
    <3>6. QED
      BY <3>4, <3>5 DEF Unanswered
  <2>3. CASE Push
    <3> DEFINE p == Answer("PUSH", [kind |-> "PUSH", id |-> 1001 + srv.pushed, acks |-> 0])
    <3>1. srv.pushed \in Nat
      BY RequestBounds DEF TypeInv, TypeOK, Servers
    <3>2. p \in Answers /\ p.kind = "PUSH"
      BY <3>1, FrameTypes DEF Pushed, Answer
    <3>3. down' = Append(down, p)
      BY <2>3 DEF Push
    <3> HIDE DEF p
    <3>4. QED
      BY <3>2, <3>3, Elements DEF Unanswered, TypeInv, TypeOK
  <2>4. QED
    BY <2>1, <2>2, <2>3, DownSteps DEF Unanswered
<1>2. lis'.pc \in Handling /\ lis'.frame.kind # "PUSH" => lis'.frame.re.id # main.id
  <2>1. CASE Receive
    <3>1. lis'.frame = down[1] /\ 1 \in DOMAIN down
      BY <2>1, Elements DEF Receive, TypeInv, TypeOK, Listeners
    <3>2. QED
      BY <3>1 DEF Unanswered
  <2>2. CASE Store
    <3>1. lis.pc \in Handling /\ lis'.frame = lis.frame
      BY <2>2 DEF Store, LisGoto, Listening, Handling, TypeInv, TypeOK, Listeners
    <3>2. QED
      BY <3>1 DEF Unanswered
  <2>3. QED
    BY <2>1, <2>2, ListenerSteps DEF Unanswered
<1>3. \A x \in box' : x.msg # Closed => x.msg.re.id # main.id
  <2>1. CASE Put
    <3>1. lis.pc \in Handling /\ lis.frame.kind # "PUSH"
      BY <2>1 DEF Put, Listening, Handling, TypeInv, Control
    <3>2. \A x \in box' : x \in box \/ x.msg = lis.frame
      BY <2>1 DEF Put
    <3>3. QED
      BY <3>1, <3>2 DEF Unanswered
  <2>2. ASSUME NEW i \in waiters \cup lis.holds, PutClosed(i)
        PROVE  \A x \in box' : x.msg # Closed => x.msg.re.id # main.id
    BY <2>2 DEF PutClosed, Unanswered
  <2>3. QED
    BY <2>1, <2>2, BoxSteps DEF Unanswered
<1>4. QED
  BY <1>1, <1>2, <1>3 DEF Unanswered, Closed

\* A file that has not come past its ACK stays so, until the ACK is sent or the
\* file is refused.
LEMMA UndeliveredKept ==
  ASSUME TypeInv, Owned, [Next]_vars, Undelivered, main.pc \in Sending,
         main'.id = main.id, main.id \notin refused', ~ServeRequest, ~Violation, ~SendAck
  PROVE  Undelivered'
<1> DEFINE Past == {"ackRest", "deliver", "put"}
<1>1. \A i \in DOMAIN down' : down'[i].kind \in {"OK", "ERROR"} => down'[i].re.id # main.id
  <2>1. CASE Receive
    BY <2>1, Elements DEF Receive, Undelivered, TypeInv, TypeOK
  <2>2. CASE ServeAck
    <3>1. Next1 \in Frames /\ OwnId(Next1) /\ Next1.kind = "ACK"
      BY <2>2, ReadTypes, Elements DEF ServeAck, Whole, Next1, Owned, TypeInv, TypeOK
    <3>2. Next1.id # main.id
      BY <3>1 DEF OwnId, Frame, TypeInv, Control
    <3> DEFINE e == Answer("ERROR", Next1)
    <3>3. e \in Answers /\ e.re.id # main.id
      BY <3>1, <3>2, FrameTypes DEF Answer
    <3>4. down' = down \/ down' = Append(down, e)
      BY <2>2 DEF ServeAck, Replies
    <3> HIDE DEF e
    <3>5. CASE down' = Append(down, e)
      BY <3>3, <3>5, Elements DEF Undelivered, TypeInv, TypeOK
    <3>6. QED
      BY <3>4, <3>5 DEF Undelivered
  <2>3. CASE Push
    <3> DEFINE p == Answer("PUSH", [kind |-> "PUSH", id |-> 1001 + srv.pushed, acks |-> 0])
    <3>1. srv.pushed \in Nat
      BY RequestBounds DEF TypeInv, TypeOK, Servers
    <3>2. p \in Answers /\ p.kind = "PUSH"
      BY <3>1, FrameTypes DEF Pushed, Answer
    <3>3. down' = Append(down, p)
      BY <2>3 DEF Push
    <3> HIDE DEF p
    <3>4. QED
      BY <3>2, <3>3, Elements DEF Undelivered, TypeInv, TypeOK
  <2>4. QED
    BY <2>1, <2>2, <2>3, DownSteps DEF Undelivered
<1>2. lis'.pc \in Past /\ lis'.frame.kind # "PUSH" => lis'.frame.re.id # main.id
  <2>1. CASE Receive
    <3>1. lis'.frame = down[1] /\ 1 \in DOMAIN down
      BY <2>1, Elements DEF Receive, TypeInv, TypeOK, Listeners
    <3>2. lis'.pc \in Past => down[1].kind \in {"OK", "ERROR"}
      BY <2>1, Elements DEF Receive, TypeInv, TypeOK, Listeners
    <3>3. QED
      BY <3>1, <3>2 DEF Undelivered
  <2>2. CASE Store
    <3>1. lis'.pc \in Past => lis.frame.re.id \in refused' /\ lis'.frame = lis.frame
      BY <2>2 DEF Store, AfterStore, LisGoto, TypeInv, TypeOK, Listeners
    <3>2. QED
      BY <3>1
  <2>3. CASE lis' = lis
    BY <2>3 DEF Undelivered
  <2>4. CASE Deliver
    BY <2>4 DEF Deliver, Listening, Undelivered, TypeInv, TypeOK, Listeners
  <2>5. lis'.pc \notin Past \/ Receive \/ Store \/ lis' = lis \/ Deliver
    BY DEF Next, MainSteps, Console, Listener, Server, vars, threads, wire, Begin, MainSends,
           MainSendFails, Answered, TimeOut, Withdraw, Leave, Goodbye, Stop, Join, CheckStop,
           SelectTimesOut, AckFails, Put, Hangup, SetStop, FailAll, PutClosed, CloseSocket,
           ServeAck, Push, Close, ServerOnly, LisGoto, Listening, TypeInv, TypeOK, Listeners
  <2>6. QED
    BY <2>1, <2>2, <2>3, <2>4, <2>5
<1>3. \A x \in box' : x.msg # Closed => x.msg.re.id # main.id
  <2>1. CASE Put
    <3>1. lis.pc = "put" /\ lis.frame.kind # "PUSH"
      BY <2>1 DEF Put, Listening, TypeInv, Control
    <3>2. \A x \in box' : x \in box \/ x.msg = lis.frame
      BY <2>1 DEF Put
    <3>3. QED
      BY <3>1, <3>2 DEF Undelivered
  <2>2. ASSUME NEW i \in waiters \cup lis.holds, PutClosed(i)
        PROVE  \A x \in box' : x.msg # Closed => x.msg.re.id # main.id
    BY <2>2 DEF PutClosed, Undelivered
  <2>3. QED
    BY <2>1, <2>2, BoxSteps DEF Undelivered
<1>4. QED
  BY <1>1, <1>2, <1>3 DEF Undelivered, Closed

\* No answer to main's request is in its queue before the file is past its ACK.
LEMMA NotAnswered ==
  ASSUME Owned, ~stop, Undelivered \/ Unanswered
  PROVE  ~Answered
BY DEF Answered, Arrived, Owned, Undelivered, Unanswered

\* The requests main has in the stream stay its own.
LEMMA MainAsksKept ==
  ASSUME TypeInv, Owned, Acked, [Next]_vars, Connected'
  PROVE  MainAsks'
<1>1. Connected /\ ~stop /\ MainAsks /\ AsksOnce /\ AnswerIsLater
  BY ConnectedBefore DEF Acked
<1> SUFFICES ASSUME NEW i \in DOMAIN up', Asks(i)'
             PROVE  GaveUp' \/ (main'.pc \in {"sendRest", "wait"} /\ up'[i].frame.id = main'.id)
  BY DEF MainAsks
<1>2. CASE \E j \in DOMAIN up : up[j] = up'[i]
  <2>1. PICK j \in DOMAIN up : up[j] = up'[i]
    BY <1>2
  <2>2. Asks(j)
    BY <2>1 DEF Asks
  <2>3. GaveUp \/ (main.pc \in {"sendRest", "wait"} /\ up'[i].frame.id = main.id)
    BY <1>1, <2>1, <2>2 DEF MainAsks
  <2>4. ~Answered
    <3>1. main.pc = "wait" => Unanswered
      BY <1>1, <2>2 DEF AnswerIsLater, NoRequest
    <3>2. QED
      BY <1>1, <3>1, NotAnswered DEF Answered
  <2>5. ~Begin("QUERY") /\ ~Begin("DOWNLOAD")
    BY <2>3 DEF Begin, GaveUp
  <2>6. CASE MainSends
    BY <2>3, <2>6 DEF MainSends, GaveUp, Mains, TypeInv, TypeOK
  <2>7. QED
    BY <2>3, <2>4, <2>5, <2>6, MainConnected DEF GaveUp
<1>3. CASE MainSends /\ main.pc \in {"send", "sendRest"} /\ up'[i].frame = Frame(main.kind, main.id, 0)
  <2>1. main'.pc \in {"sendRest", "wait"} /\ main'.id = main.id
    BY <1>3 DEF MainSends, Mains, TypeInv, TypeOK
  <2>2. up'[i].frame.id = main.id
    BY <1>3 DEF Frame
  <2>3. QED
    BY <2>1, <2>2
<1>4. QED
  BY <1>2, <1>3, Sent

\* The server has at most one request of main to read.
LEMMA AsksOnceKept ==
  ASSUME TypeInv, Stream, Acked, [Next]_vars, Connected'
  PROVE  AsksOnce'
<1>1. Connected /\ ~cut /\ MainAsks /\ AsksOnce
  BY ConnectedBefore DEF Acked
<1>2. CASE MainSends
  <2> DEFINE f == Frame(main.kind, main.id, 0)
  <2>0. f \in Frames
    BY FrameTypes DEF TypeInv, TypeOK, Mains
  <2>1. PICK part \in {"head", "rest"} :
          Written(Half(f, part)) /\ (part = "head" => main.pc \in {"send", "bye"})
    BY <1>2 DEF MainSends, SendFirst, SendRest
  <2>2. Half(f, part) \in Halves /\ Half(f, part).frame = f /\ Half(f, part).part = part
    BY <2>0 DEF Half, Halves
  <2>3. main.pc = "bye" => f.kind \notin Asking
    BY DEF Frame, Asking, TypeInv, Control
  <2>4. main.pc = "send" => NoRequest
    BY <1>1 DEF MainAsks, NoRequest, GaveUp
  <2> HIDE DEF f
  <2>5. \A i \in DOMAIN up' : Asks(i)' /\ up'[i].part = "head" =>
          \/ i \in DOMAIN up /\ up'[i] = up[i]
          \/ i = Len(up) + 1 /\ NoRequest
    BY <2>1, <2>2, <2>3, <2>4, Elements DEF Written, Asks, TypeInv, TypeOK
  <2>6. QED
    BY <1>1, <2>5 DEF AsksOnce, Asks, NoRequest
<1>3. CASE SendAck
  <2>1. lis.out \in Frames /\ lis.out.kind = "ACK"
    BY <1>3 DEF SendAck, Listening, TypeInv, Control
  <2>2. PICK part \in {"head", "rest"} : Written(Half(lis.out, part))
    BY <1>3 DEF SendAck, SendFirst, SendRest
  <2>3. Half(lis.out, part) \in Halves /\ Half(lis.out, part).frame = lis.out
    BY <2>1 DEF Half, Halves
  <2>4. \A i \in DOMAIN up' : Asks(i)' => i \in DOMAIN up /\ up'[i] = up[i]
    BY <2>1, <2>2, <2>3, Elements DEF Written, Asks, Asking, TypeInv, TypeOK
  <2>5. QED
    BY <1>1, <2>4 DEF AsksOnce, Asks
<1>4. CASE ServeRequest \/ ServeAck
  <2>1. \A i \in DOMAIN up' : i \in Nat /\ i + 2 \in DOMAIN up /\ up'[i] = up[i + 2]
    BY <1>4, Rest DEF ServeRequest, ServeAck, TypeInv, TypeOK
  <2>2. \A i, j \in DOMAIN up' : i + 2 = j + 2 => i = j
    BY <2>1
  <2>3. QED
    BY <1>1, <2>1, <2>2 DEF AsksOnce, Asks
<1>5. CASE up' = up \/ up' = <<>>
  BY <1>1, <1>5 DEF AsksOnce, Asks
<1>6. QED
  BY <1>2, <1>3, <1>4, <1>5, UpSteps

\* The answer to a request comes after the request has been read.
LEMMA AnswerIsLaterKept ==
  ASSUME TypeInv, Owned, Stream, Acked, [Next]_vars, Connected'
  PROVE  AnswerIsLater'
<1>1. /\ Connected /\ ~stop /\ ~cut /\ MainAsks /\ AsksOnce /\ AnswerIsLater
      /\ ~Violation
  BY ConnectedBefore DEF Acked
<1> DEFINE Open == main.pc = "send" \/ (main.pc \in {"sendRest", "wait"} /\ ~NoRequest)
<1> SUFFICES ASSUME Open' PROVE Unanswered'
  BY DEF AnswerIsLater
<1>2. CASE Begin("QUERY") \/ Begin("DOWNLOAD")
  <2>1. /\ main'.id = counter + 1 /\ down' = down /\ lis' = lis /\ box' = box /\ counter \in Nat
    BY <1>2 DEF Begin, threads, wire, TypeInv, TypeOK
  <2>2. \A i \in DOMAIN down : down[i].kind # "PUSH" => down[i].re.id < counter + 1
    BY <2>1, Ids DEF Owned, OwnId
  <2>3. lis.pc \in Handling /\ lis.frame.kind # "PUSH" => lis.frame.re.id < counter + 1
    BY <2>1, Ids DEF Owned, OwnId, TypeInv, Control
  <2>4. \A x \in box : x.msg # Closed => x.msg.re.id < counter + 1
    BY <2>1, Ids DEF Owned, OwnId
  <2>5. \A i \in DOMAIN down : down[i].kind # "PUSH" => down[i].re.id # counter + 1
    BY <2>1, <2>2, Ids
  <2>6. lis.pc \in Handling /\ lis.frame.kind # "PUSH" => lis.frame.re.id # counter + 1
    BY <2>1, <2>3, Ids DEF TypeInv, Control
  <2>7. \A x \in box : x.msg # Closed => x.msg.re.id # counter + 1
    BY <2>1, <2>4, Ids
  <2>8. QED
    BY <2>1, <2>5, <2>6, <2>7 DEF Unanswered, Closed
<1>3. ASSUME main'.id = main.id, main.pc \in Sending, Open, ~ServeRequest PROVE Unanswered'
  BY <1>1, <1>3, UnansweredKept DEF AnswerIsLater
<1>4. CASE MainSends
  <2>1. main.pc \in {"send", "sendRest"} /\ main'.id = main.id /\ ~ServeRequest
    BY <1>4 DEF MainSends, ServeRequest, ServerOnly, threads, Mains, TypeInv, TypeOK
  <2>2. main.pc = "sendRest" => ~NoRequest
    BY <1>1, HalfSent DEF NoRequest
  <2>3. QED
    BY <1>3, <2>1, <2>2 DEF Sending
<1>5. CASE main' = main /\ ~MainSends
  <2>1. CASE main.pc = "send"
    <3>1. ~ServeRequest
      <4> SUFFICES ASSUME ServeRequest PROVE FALSE
        OBVIOUS
      <4>1. 1 \in DOMAIN up /\ Asks(1)
        BY Elements DEF ServeRequest, Whole, Next1, Asks, Asking, TypeInv, TypeOK
      <4>2. QED
        BY <1>1, <2>1, <4>1 DEF MainAsks, GaveUp
    <3>2. QED
      BY <1>3, <1>5, <2>1, <3>1 DEF Sending
  <2>2. CASE main.pc \in {"sendRest", "wait"} /\ ~NoRequest'
    <3>1. ~NoRequest
      BY <1>5, <2>2, Sent DEF NoRequest, Asks
    <3>2. ~ServeRequest
      <4> SUFFICES ASSUME ServeRequest PROVE FALSE
        OBVIOUS
      <4>1. Whole /\ Consumed /\ Asks(1)
        BY DEF ServeRequest, Next1, Asks, Asking
      <4>2. QED
        BY <1>1, <2>2, <4>1, OneRequest
    <3>3. QED
      BY <1>3, <1>5, <2>2, <3>1, <3>2 DEF Sending
  <2>3. QED
    BY <1>5, <2>1, <2>2
<1>6. ~Answered /\ ~GaveUp'
  BY DEF Answered, GaveUp, Mains, TypeInv, TypeOK
<1>7. QED
  BY <1>2, <1>4, <1>5, <1>6, MainConnected

\* What the listener sends is the first thing in the stream, or comes after it.
LEMMA FirstStays ==
  ASSUME TypeInv, Connected, [Next]_vars, up # <<>>, ~Asks(1),
         ~ServeRequest, ~ServeAck, ~Violation, ~Close
  PROVE  up' # <<>> /\ ~Asks(1)'
<1>1. ASSUME NEW f \in Frames, NEW part \in {"head", "rest"}, Written(Half(f, part))
      PROVE  up' # <<>> /\ ~Asks(1)'
  <2>1. Half(f, part) \in Halves
    BY <1>1 DEF Half, Halves
  <2>2. up' = Append(up, Half(f, part)) /\ up \in Seq(Halves)
    BY <1>1 DEF Written, Connected, TypeInv, TypeOK
  <2>3. up' # <<>> /\ up'[1] = up[1]
    BY <2>1, <2>2
  <2>4. QED
    BY <2>3 DEF Asks
<1>2. CASE MainSends
  <2>1. Frame(main.kind, main.id, 0) \in Frames
    BY FrameTypes DEF TypeInv, TypeOK, Mains
  <2>2. QED
    BY <1>1, <1>2, <2>1 DEF MainSends, SendFirst, SendRest
<1>3. CASE SendAck
  <2>1. lis.out \in Frames
    BY <1>3 DEF SendAck, Listening, TypeInv, Control
  <2>2. QED
    BY <1>1, <1>3, <2>1 DEF SendAck, SendFirst, SendRest
<1>4. CASE up' = up
  BY <1>4 DEF Asks
<1>5. up' = up \/ MainSends \/ SendAck
  BY DEF Next, MainSteps, Console, Listener, Server, vars, threads, wire, Begin, MainSendFails,
         SendFails, Answered, TimeOut, Withdraw, Leave, Goodbye, Stop, Join, CheckStop,
         SelectTimesOut, Receive, Store, AckFails, Deliver, Put, Hangup, SetStop, FailAll,
         PutClosed, CloseSocket, Push
<1>6. QED
  BY <1>2, <1>3, <1>4, <1>5

\* An ACK that is sent when main has no request in the stream is not behind one.
LEMMA AckStarts ==
  ASSUME TypeInv, Connected, SendAck, NoRequest
  PROVE  up' # <<>> /\ ~Asks(1)'
<1>1. lis.out \in Frames /\ lis.out.kind = "ACK"
  BY DEF SendAck, Listening, TypeInv, Control
<1>2. PICK part \in {"head", "rest"} : Written(Half(lis.out, part))
  BY DEF SendAck, SendFirst, SendRest
<1> DEFINE h == Half(lis.out, part)
<1>3. h \in Halves /\ h.frame.kind = "ACK"
  BY <1>1 DEF Half, Halves
<1>4. up' = Append(up, h) /\ up \in Seq(Halves)
  BY <1>2 DEF Written, Connected, TypeInv, TypeOK
<1> HIDE DEF h
<1>5. up' # <<>> /\ 1 \in DOMAIN up'
  BY <1>3, <1>4
<1>6. up'[1] = h \/ (1 \in DOMAIN up /\ up'[1] = up[1])
  BY <1>3, <1>4, <1>5, Elements
<1>7. QED
  BY <1>3, <1>5, <1>6 DEF NoRequest, Asks, Asking

\* The ACK of a transfer comes before main's next request.
LEMMA AckIsFirstKept ==
  ASSUME TypeInv, Owned, Stream, Acked, [Next]_vars, Connected'
  PROVE  AckIsFirst'
<1>1. /\ Connected /\ ~stop /\ ~cut
      /\ MainAsks /\ AsksOnce /\ AnswerIsLater /\ AckIsFirst
      /\ ~Violation /\ ~Close
  BY ConnectedBefore DEF Acked
<1>2. CASE ServeRequest
  <2>1. Whole /\ Consumed /\ Asks(1) /\ 1 \in DOMAIN up /\ Next1 = up[1].frame
    BY <1>2, Elements DEF ServeRequest, Whole, Next1, Asks, Asking, TypeInv, TypeOK
  <2>2. NoRequest'
    BY <1>1, <2>1, OneRequest
  <2>3. main' = main /\ lis' = lis /\ box' = box
    BY <1>2 DEF ServeRequest, ServerOnly, threads
  <2>4. CASE srv' = srv
    BY <1>2, <2>4 DEF ServeRequest, AckIsFirst
  <2>5. CASE Replies("TRANSFER") /\ srv' = [srv EXCEPT !.pending = Answer("TRANSFER", Next1)]
    <3> DEFINE m == Answer("TRANSFER", Next1)
    <3>1. m \in Answers /\ m.kind = "TRANSFER" /\ m.re = Next1
      BY <2>1, ReadTypes, FrameTypes DEF Answer, TypeInv, TypeOK
    <3>2. srv'.pending = m /\ down' = Append(down, m)
      BY <2>5 DEF Replies, Servers, TypeInv, TypeOK
    <3>3. GaveUp \/ (main.pc = "wait" /\ Next1.id = main.id)
      BY <1>1, <2>1, HalfSent DEF MainAsks
    <3>4. main.pc = "wait" => Unanswered
      BY <1>1, <2>1 DEF AnswerIsLater, NoRequest
    <3> HIDE DEF m
    <3>5. \A i \in DOMAIN down' : (i \in DOMAIN down /\ down'[i] = down[i]) \/ down'[i] = m
      BY <3>1, <3>2, Elements DEF TypeInv, TypeOK
    <3>6. Unanswered => Undelivered'
      BY <2>3, <3>1, <3>5 DEF Unanswered, Undelivered, Handling, Closed
    <3>7. QED
      BY <2>2, <2>3, <3>1, <3>2, <3>3, <3>4, <3>6 DEF AckIsFirst, GaveUp
  <2>6. QED
    BY <1>2, <2>4, <2>5 DEF ServeRequest
<1>3. CASE ServeAck
  <2>1. srv'.pending = None
    BY <1>3 DEF ServeAck, Servers, TypeInv, TypeOK
  <2>2. QED
    BY <2>1 DEF AckIsFirst
<1>4. CASE Push
  <2>1. srv'.pending.kind = "PUSH"
    BY <1>4 DEF Push, Answer
  <2>2. QED
    BY <2>1 DEF AckIsFirst
<1>5. CASE ~ServeRequest /\ ~ServeAck /\ ~Push
  <2>1. srv' = srv /\ refused \subseteq refused'
    BY <1>1, <1>5
    DEF Next, MainSteps, Console, Listener, Server, vars, threads, wire, Begin, MainSends,
        MainSendFails, Answered, TimeOut, Withdraw, Leave, Goodbye, Stop, Join, CheckStop,
        SelectTimesOut, Receive, Store, SendAck, AckFails, Deliver, Put, Hangup, SetStop,
        FailAll, PutClosed, CloseSocket
  <2> SUFFICES ASSUME srv.pending # None, srv.pending.kind = "TRANSFER",
                      srv.pending.re.id \notin refused'
               PROVE  \/ up' # <<>> /\ ~Asks(1)'
                      \/ NoRequest' /\ GaveUp'
                      \/ /\ NoRequest' /\ main'.pc = "wait" /\ main'.id = srv.pending.re.id
                         /\ Undelivered'
    BY <2>1 DEF AckIsFirst
  <2>2. CASE up # <<>> /\ ~Asks(1)
    BY <1>1, <1>5, <2>2, FirstStays
  <2>3. CASE SendAck /\ NoRequest
    BY <1>1, <2>3, AckStarts
  <2>4. NoRequest /\ main.pc \notin {"send", "sendRest"} => NoRequest'
    BY Sent DEF NoRequest, Asks
  <2>5. CASE NoRequest /\ GaveUp /\ ~SendAck
    <3>1. ~Begin("QUERY") /\ ~Begin("DOWNLOAD") /\ ~Answered
      BY <2>5 DEF Begin, Answered, GaveUp
    <3>2. MainSends => GaveUp'
      BY <2>5 DEF MainSends, GaveUp, Mains, TypeInv, TypeOK
    <3>3. GaveUp'
      BY <2>5, <3>1, <3>2, MainConnected DEF GaveUp
    <3>4. QED
      BY <2>4, <2>5, <3>3 DEF GaveUp
  <2>6. CASE NoRequest /\ main.pc = "wait" /\ main.id = srv.pending.re.id /\ Undelivered /\ ~SendAck
    <3>1. NoRequest'
      BY <2>4, <2>6
    <3>2. ~Answered /\ ~Begin("QUERY") /\ ~Begin("DOWNLOAD") /\ ~MainSends
      BY <1>1, <2>6, NotAnswered DEF Begin, MainSends
    <3>3. main' = main \/ GaveUp'
      BY <3>2, MainConnected
    <3>4. main' = main => Undelivered'
      BY <1>1, <1>5, <2>6, UndeliveredKept DEF Sending
    <3>5. QED
      BY <2>6, <3>1, <3>3, <3>4
  <2>7. QED
    BY <1>1, <2>1, <2>2, <2>3, <2>5, <2>6 DEF AckIsFirst
<1>6. QED
  BY <1>2, <1>3, <1>4, <1>5

\* All of it together.
LEMMA AckInvariant == Spec => []Acked
<1>1. Init => Acked
  BY DEF Init, Acked, MainAsks, AsksOnce, AnswerIsLater, AckIsFirst
<1>2. TypeInv /\ Owned /\ Stream /\ Acked /\ [Next]_vars => Acked'
  BY MainAsksKept, AsksOnceKept, AnswerIsLaterKept, AckIsFirstKept DEF Acked
<1>3. QED
  BY <1>1, <1>2, TypeInvariant, OwnedInvariant, StreamInvariant, PTL DEF Spec

\* While the server waits for the ACK of a stored download, the next frame it
\* reads is that ACK, or main's farewell: main's next request never overtakes
\* the listener's ACK.
THEOREM AcksComeNext == Spec => []AckComesNext
<1>1. TypeInv /\ Acked => AckComesNext
  <2> SUFFICES ASSUME TypeInv, Acked, srv.pending # None, srv.pending.kind = "TRANSFER", Whole,
                      ~cut, ~stop, srv.pending.re.id \notin refused
               PROVE  Next1.kind \in {"ACK", "DISCONNECT"}
    BY DEF AckComesNext
  <2>1. Connected /\ 1 \in DOMAIN up
    BY Elements DEF Connected, Whole, TypeInv, TypeOK
  <2>2. ~Asks(1)
    BY <2>1 DEF Acked, AckIsFirst, NoRequest
  <2>3. Next1.kind \in Kinds
    BY ReadTypes DEF Frames, TypeInv, TypeOK
  <2>4. QED
    BY <2>2, <2>3 DEF Asks, Asking, Next1, Kinds
<1>2. QED
  BY <1>1, TypeInvariant, AckInvariant, PTL
=============================================================================
