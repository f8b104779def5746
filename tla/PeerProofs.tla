---------------------------- MODULE PeerProofs -----------------------------
(***************************************************************************)
(* Theorems about Peer, for every value of its constants.                  *)
(***************************************************************************)
EXTENDS Peer, TLAPS

\* Updating one entry of a table of tables keeps its type.
LEMMA UpdateType ==
  ASSUME NEW S, NEW T, NEW U, NEW f \in [S -> [T -> U]], NEW p \in S, NEW x, NEW v \in U
  PROVE  [f EXCEPT ![p][x] = v] \in [S -> [T -> U]]
OBVIOUS

\* What a peer queues is a frame.
LEMMA FrameTypes ==
  ASSUME NEW p \in Peers, NEW n \in Nat
  PROVE  /\ \A m \in Methods : RequestFrame(p, n, m) \in Frame
         /\ CancelFrame(p, n) \in Frame
         /\ \A a \in Answers \cup {"none"} : ResponseFrame(p, n, a) \in Frame
         /\ EventFrame(p, n) \in Frame
<1>1. Other(p) \in Peers
  BY DEF Peers, Other
<1>2. \A m \in Methods : RequestFrame(p, n, m) \in Frame
  BY DEF RequestFrame, Frame
<1>3. \A a \in Answers \cup {"none"} : ResponseFrame(p, n, a) \in Frame
  BY <1>1 DEF ResponseFrame, Frame
<1> QED
  BY <1>2, <1>3 DEF CancelFrame, EventFrame, Frame

\* Queueing a frame, or nothing, keeps the types of the queues.
LEMMA EnqueueTypes ==
  ASSUME WiresTypeOK, NEW p \in Peers, NEW f \in Frame, Enqueue(p, f),
         UNCHANGED <<hand, net>>
  PROVE  WiresTypeOK'
BY DEF WiresTypeOK, Enqueue

LEMMA ReserveTypes ==
  ASSUME CallsTypeOK, NEW p \in Peers, next[p] < MaxSerial,
         NEW b \in 0 .. EventLoop, NEW state \in CallStates, Reserve(p, b, state)
  PROVE  /\ next' \in [Peers -> 0 .. MaxSerial]
         /\ call' \in [Peers -> [Serials -> CallStates]]
         /\ by' \in [Peers -> [Serials -> 0 .. EventLoop]]
<1> USE PeerAssumption
<1>1. next' \in [Peers -> 0 .. MaxSerial]
  BY DEF CallsTypeOK, Reserve
<1>2. call' \in [Peers -> [Serials -> CallStates]]
  BY DEF CallsTypeOK, Reserve
<1>3. by' \in [Peers -> [Serials -> 0 .. EventLoop]]
  BY DEF CallsTypeOK, Reserve
<1> QED BY <1>1, <1>2, <1>3

LEMMA SettleTypes ==
  ASSUME CallsTypeOK, NEW p \in Peers, NEW s \in Serials, NEW state \in CallStates,
         call' = [call EXCEPT ![p][s] = state],
         pending' = [pending EXCEPT ![p] = @ \ {s}] \/ pending' = pending,
         UNCHANGED <<next, by, reply>>
  PROVE  CallsTypeOK'
BY DEF CallsTypeOK

LEMMA EndTypes ==
  ASSUME TypeOK, NEW p \in Peers, NEW why \in {"closed", "failed", "refused"}, End(p, why)
  PROVE  err' \in [Peers -> {"none", "closed", "failed", "refused"}]
BY DEF TypeOK, End

\* The groups of variables a step leaves alone keep their types.
LEMMA UnchangedTypes ==
  ASSUME TypeOK
  PROVE  /\ UNCHANGED callVars => CallsTypeOK'
         /\ UNCHANGED bodyVars => BodiesTypeOK'
         /\ UNCHANGED eventVars => EventsTypeOK'
         /\ UNCHANGED wireVars => WiresTypeOK'
         /\ UNCHANGED err => err' \in [Peers -> {"none", "closed", "failed", "refused"}]
BY DEF TypeOK, CallsTypeOK, BodiesTypeOK, EventsTypeOK, WiresTypeOK,
       callVars, bodyVars, eventVars, wireVars

LEMMA TypeCalling ==
  ASSUME TypeOK, NEW p \in Peers, Calling(p)
  PROVE  TypeOK'
<1> USE UnchangedTypes DEF TypeOK
<1>1. ASSUME NEW b \in 0 .. EventLoop, NEW m \in Methods, CallAdmit(p, m, b)
      PROVE  TypeOK'
  <2>1. next[p] + 1 \in Serials /\ next[p] + 1 \in Nat /\ next[p] < MaxSerial
    BY <1>1, PeerAssumption DEF CallAdmit, CallsTypeOK, Serials
  <2>2. "waiting" \in CallStates /\ "publishing" \in CallStates
    BY DEF CallStates
  <2>3. CallsTypeOK'
    <3>1. pending' \in [Peers -> SUBSET Serials]
      BY <1>1, <2>1 DEF CallAdmit, CallsTypeOK
    <3>2. UNCHANGED reply
      BY <1>1 DEF CallAdmit
    <3>3. Reserve(p, b, "waiting") \/ Reserve(p, b, "publishing")
      BY <1>1 DEF CallAdmit
    <3> QED BY <2>1, <2>2, <3>1, <3>2, <3>3, ReserveTypes DEF CallsTypeOK
  <2>4. WiresTypeOK'
    <3>1. RequestFrame(p, next[p] + 1, m) \in Frame
      BY <2>1, FrameTypes
    <3>2. CASE Enqueue(p, RequestFrame(p, next[p] + 1, m))
      BY <1>1, <3>1, <3>2, EnqueueTypes DEF CallAdmit
    <3>3. CASE UNCHANGED outputs
      BY <1>1, <3>3 DEF CallAdmit, wireVars
    <3> QED BY <1>1, <3>2, <3>3 DEF CallAdmit
  <2> QED BY <1>1, <2>3, <2>4 DEF CallAdmit
<1>2. ASSUME NEW b \in 0 .. EventLoop, CallRefused(p, b) PROVE TypeOK'
  <2>1. CallsTypeOK'
    <3>1. "unpublished" \in CallStates
      BY DEF CallStates
    <3>2. next[p] < MaxSerial /\ Reserve(p, b, "unpublished") /\ UNCHANGED <<pending, reply>>
      BY <1>2 DEF CallRefused
    <3> QED BY <3>1, <3>2, ReserveTypes DEF CallsTypeOK
  <2> QED BY <1>2, <2>1 DEF CallRefused
<1>3. ASSUME NEW b \in 0 .. EventLoop, CallExhausted(p, b) PROVE TypeOK'
  BY <1>3, EndTypes DEF CallExhausted
<1>4. ASSUME NEW s \in Serials, NEW m \in Methods, PublishRoom(p, s, m) PROVE TypeOK'
  <2>1. RequestFrame(p, s, m) \in Frame
    BY FrameTypes, PeerAssumption DEF Serials
  <2>2. WiresTypeOK'
    BY <1>4, <2>1, EnqueueTypes DEF PublishRoom
  <2>3. CallsTypeOK'
    BY <1>4, SettleTypes DEF PublishRoom, CallStates
  <2> QED BY <1>4, <2>2, <2>3 DEF PublishRoom
<1>5. ASSUME NEW s \in Serials, PublishWithdrawn(p, s) PROVE TypeOK'
  <2>1. CallsTypeOK'
    BY <1>5, SettleTypes DEF PublishWithdrawn, CallStates
  <2> QED BY <1>5, <2>1 DEF PublishWithdrawn
<1>6. ASSUME NEW s \in Serials, PublishTimeout(p, s) PROVE TypeOK'
  <2>1. CallsTypeOK'
    BY <1>6, SettleTypes DEF PublishTimeout, CallStates
  <2> QED BY <1>6, <2>1, EndTypes DEF PublishTimeout
<1>7. ASSUME NEW s \in Serials, AwaitReply(p, s) PROVE TypeOK'
  <2>1. reply[p][s] \in CallStates
    BY <1>7 DEF AwaitReply, CallsTypeOK, CallStates
  <2>2. CallsTypeOK'
    BY <1>7, <2>1, SettleTypes DEF AwaitReply
  <2> QED BY <1>7, <2>2 DEF AwaitReply
<1>8. ASSUME NEW s \in Serials, AwaitExpires(p, s) PROVE TypeOK'
  <2>1. CallsTypeOK'
    BY <1>8, SettleTypes DEF AwaitExpires, CallStates
  <2>2. WiresTypeOK'
    <3>1. CancelFrame(p, s) \in Frame
      BY FrameTypes, PeerAssumption DEF Serials
    <3>2. CASE Enqueue(p, CancelFrame(p, s))
      BY <1>8, <3>1, <3>2, EnqueueTypes DEF AwaitExpires
    <3>3. CASE UNCHANGED outputs
      BY <1>8, <3>3 DEF AwaitExpires, wireVars
    <3> QED BY <1>8, <3>2, <3>3 DEF AwaitExpires
  <2> QED BY <1>8, <2>1, <2>2 DEF AwaitExpires
<1>9. ASSUME NEW s \in Serials, AwaitEnded(p, s) PROVE TypeOK'
  <2>1. CallsTypeOK'
    BY <1>9, SettleTypes DEF AwaitEnded, CallStates
  <2> QED BY <1>9, <2>1 DEF AwaitEnded
<1> QED
  BY <1>1, <1>2, <1>3, <1>4, <1>5, <1>6, <1>7, <1>8, <1>9 DEF Calling

LEMMA TypeWriting ==
  ASSUME TypeOK, NEW p \in Peers, Writing(p)
  PROVE  TypeOK'
<1> USE UnchangedTypes DEF TypeOK
<1>1. CASE WriterTake(p)
  <2>1. outputs[p] \in Seq(Frame) /\ outputs[p] # <<>>
    BY <1>1 DEF WriterTake, WiresTypeOK
  <2>2. Tail(outputs[p]) \in Seq(Frame) /\ Head(outputs[p]) \in Frame
    BY <2>1
  <2>3. WiresTypeOK'
    BY <1>1, <2>2 DEF WriterTake, WiresTypeOK
  <2> QED BY <1>1, <2>3 DEF WriterTake
<1>2. CASE WriterSend(p)
  <2>1. hand[p][1] \in Frame
    BY <1>2 DEF WriterSend, WiresTypeOK
  <2>2. WiresTypeOK'
    BY <1>2, <2>1 DEF WriterSend, WiresTypeOK
  <2> QED BY <1>2, <2>2 DEF WriterSend
<1>3. CASE WriterFails(p)
  BY <1>3, EndTypes DEF WriterFails
<1> QED BY <1>1, <1>2, <1>3 DEF Writing

\* A reader takes a frame off the other side's end of the connection.
LEMMA ReceivedTypes ==
  ASSUME TypeOK, NEW p \in Peers, NEW kind, Receives(p, kind)
  PROVE  /\ Other(p) \in Peers
         /\ Received(p) \in Frame
         /\ Received(p).id \in Nat
         /\ Received(p).kind = kind
         /\ kind = "response" => Received(p).load \in Answers \cup {"none"}
         /\ Consume(p) => net' \in [Peers -> Seq(Frame)]
<1>1. Other(p) \in Peers
  BY DEF Other, Peers
<1>2. net[Other(p)] \in Seq(Frame) /\ net[Other(p)] # <<>>
  BY <1>1 DEF TypeOK, WiresTypeOK, Receives
<1>3. Received(p) \in Frame /\ Tail(net[Other(p)]) \in Seq(Frame)
  BY <1>2 DEF Received
<1>4. Received(p).id \in Nat /\ Received(p).kind = kind
  BY <1>3 DEF Frame, Receives, Received
<1>5. kind = "response" => Received(p).load \in Answers \cup {"none"}
  BY <1>3, <1>4 DEF Frame
<1>6. Consume(p) => net' \in [Peers -> Seq(Frame)]
  BY <1>1, <1>3 DEF Consume, TypeOK, WiresTypeOK
<1> QED BY <1>1, <1>3, <1>4, <1>5, <1>6

LEMMA TypeReading ==
  ASSUME TypeOK, NEW p \in Peers, Reading(p)
  PROVE  TypeOK'
<1> USE UnchangedTypes, ReceivedTypes DEF TypeOK
<1>1. CASE ReadRefused(p)
  <2>1. \E kind : Receives(p, kind)
    BY <1>1 DEF ReadRefused
  <2>2. WiresTypeOK'
    BY <1>1, <2>1 DEF ReadRefused, WiresTypeOK
  <2> QED BY <1>1, <2>2, EndTypes DEF ReadRefused
<1>2. CASE ReadRequest(p)
  <2>1. WiresTypeOK'
    BY <1>2 DEF ReadRequest, WiresTypeOK
  <2>2. BodiesTypeOK'
    <3> HIDE UnchangedTypes, ReceivedTypes
    <3>1. Received(p).id \in Nat
      BY <1>2, ReceivedTypes DEF ReadRequest
    <3> DEFINE n == Received(p).id
    <3>2. /\ admitted' = [admitted EXCEPT ![p] = n]
          /\ body' = [body EXCEPT ![p][n] = "running"]
          /\ slots' = [slots EXCEPT ![p] = @ + 1]
          /\ UNCHANGED <<ctx, answer, value>>
      BY <1>2 DEF ReadRequest
    <3> HIDE DEF n
    <3>3. body' \in [Peers -> [Serials -> {"none", "running", "returned", "done", "rejected"}]]
      BY <3>2, UpdateType DEF BodiesTypeOK
    <3>4. admitted' \in [Peers -> Nat] /\ slots' \in [Peers -> Int]
      BY <3>1, <3>2 DEF BodiesTypeOK, n
    <3> QED BY <3>2, <3>3, <3>4 DEF BodiesTypeOK
  <2> QED BY <1>2, <2>1, <2>2 DEF ReadRequest
<1>3. CASE ReadRejected(p)
  <2> DEFINE why == IF Received(p).load \notin Handled THEN "method_not_found" ELSE "busy"
  <2>1. ResponseFrame(p, Received(p).id, why) \in Frame
    BY <1>3, FrameTypes DEF ReadRejected, Answers
  <2>2. net' \in [Peers -> Seq(Frame)]
    BY <1>3 DEF ReadRejected
  <2>3. outputs' \in [Peers -> Seq(Frame)]
    <3>1. CASE Enqueue(p, ResponseFrame(p, Received(p).id, why))
      BY <3>1, <2>1 DEF Enqueue, WiresTypeOK
    <3>2. CASE UNCHANGED outputs
      BY <3>2 DEF WiresTypeOK
    <3> QED BY <1>3, <3>1, <3>2 DEF ReadRejected
  <2>4. WiresTypeOK'
    BY <1>3, <2>2, <2>3 DEF ReadRejected, WiresTypeOK
  <2>5. BodiesTypeOK'
    BY <1>3 DEF ReadRejected, BodiesTypeOK
  <2> QED BY <1>3, <2>4, <2>5, EndTypes DEF ReadRejected
<1>4. CASE ReadResponse(p)
  <2>1. WiresTypeOK'
    BY <1>4 DEF ReadResponse, WiresTypeOK
  <2>2. Received(p).load \in Answers \cup {"none"}
    BY <1>4 DEF ReadResponse
  <2>3. CallsTypeOK'
    BY <1>4, <2>2 DEF ReadResponse, CallsTypeOK
  <2> QED BY <1>4, <2>1, <2>3 DEF ReadResponse
<1>5. CASE ReadCancel(p)
  <2>1. WiresTypeOK'
    BY <1>5 DEF ReadCancel, WiresTypeOK
  <2>2. BodiesTypeOK'
    BY <1>5 DEF ReadCancel, BodiesTypeOK
  <2> QED BY <1>5, <2>1, <2>2 DEF ReadCancel
<1>6. CASE ReadEvent(p)
  <2>1. WiresTypeOK'
    BY <1>6 DEF ReadEvent, WiresTypeOK
  <2>2. EventsTypeOK'
    <3>1. Received(p).id \in Nat
      BY <1>6 DEF ReadEvent
    <3> HIDE UnchangedTypes, ReceivedTypes
    <3>2. \/ events' = [events EXCEPT ![p] = Append(@, Received(p).id)] /\ UNCHANGED held
          \/ held' = [held EXCEPT ![p] = Received(p).id] /\ UNCHANGED events
      BY <1>6 DEF ReadEvent
    <3>3. UNCHANGED <<handling, emitted, delivered>>
      BY <1>6 DEF ReadEvent
    <3>4. events[p] \in Seq(Nat)
      BY DEF EventsTypeOK
    <3>5. Append(events[p], Received(p).id) \in Seq(Nat)
      BY <3>1, <3>4
    <3> QED BY <3>1, <3>2, <3>3, <3>5 DEF EventsTypeOK
  <2> QED BY <1>6, <2>1, <2>2 DEF ReadEvent
<1>7. CASE EventRoom(p)
  <2>1. EventsTypeOK'
    BY <1>7 DEF EventRoom, EventsTypeOK
  <2> QED BY <1>7, <2>1 DEF EventRoom
<1>8. CASE EventStall(p)
  BY <1>8, EndTypes DEF EventStall
<1>9. CASE ReaderFails(p)
  BY <1>9, EndTypes DEF ReaderFails
<1> QED
  BY <1>1, <1>2, <1>3, <1>4, <1>5, <1>6, <1>7, <1>8, <1>9 DEF Reading

LEMMA TypeServing ==
  ASSUME TypeOK, NEW p \in Peers, Serving(p)
  PROVE  TypeOK'
<1> USE UnchangedTypes DEF TypeOK
<1>1. ASSUME NEW s \in Serials, NEW o \in {"result", "error"}, HandlerReturns(p, s, o)
      PROVE  TypeOK'
  <2>1. BodiesTypeOK'
    <3>1. body' = [body EXCEPT ![p][s] = "returned"] /\ UNCHANGED <<admitted, ctx, slots>>
      BY <1>1 DEF HandlerReturns
    <3>2. \/ UNCHANGED <<answer, value>>
          \/ /\ answer' = [answer EXCEPT ![p][s] = "answering"]
             /\ \E a \in Answers : value' = [value EXCEPT ![p][s] = a]
      BY <1>1 DEF HandlerReturns, Answers
    <3> HIDE UnchangedTypes
    <3>3. CASE UNCHANGED <<answer, value>>
      BY <3>1, <3>3 DEF BodiesTypeOK
    <3>4. ASSUME NEW a \in Answers,
                 answer' = [answer EXCEPT ![p][s] = "answering"],
                 value' = [value EXCEPT ![p][s] = a]
          PROVE  BodiesTypeOK'
      <4>1. a \in Answers \cup {"none"}
        OBVIOUS
      <4> QED BY <3>1, <3>4, <4>1 DEF BodiesTypeOK
    <3> QED BY <3>2, <3>3, <3>4
  <2> QED BY <1>1, <2>1 DEF HandlerReturns
<1>2. ASSUME NEW s \in Serials, Deadline(p, s) PROVE TypeOK'
  <2>1. BodiesTypeOK'
    BY <1>2 DEF Deadline, BodiesTypeOK
  <2> QED BY <1>2, <2>1 DEF Deadline
<1>3. ASSUME NEW s \in Serials, DeadlineAnswers(p, s) PROVE TypeOK'
  <2>1. BodiesTypeOK'
    BY <1>3 DEF DeadlineAnswers, BodiesTypeOK, Answers
  <2> QED BY <1>3, <2>1 DEF DeadlineAnswers
<1>4. ASSUME NEW s \in Serials, Respond(p, s) PROVE TypeOK'
  <2>1. BodiesTypeOK'
    BY <1>4 DEF Respond, BodiesTypeOK
  <2>2. ResponseFrame(p, s, value[p][s]) \in Frame
    BY FrameTypes, PeerAssumption DEF BodiesTypeOK, Serials
  <2>3. WiresTypeOK'
    BY <1>4, <2>2, EnqueueTypes DEF Respond
  <2> QED BY <1>4, <2>1, <2>3 DEF Respond
<1>5. ASSUME NEW s \in Serials, RespondFails(p, s) PROVE TypeOK'
  <2>1. BodiesTypeOK'
    BY <1>5 DEF RespondFails, BodiesTypeOK
  <2> QED BY <1>5, <2>1, EndTypes DEF RespondFails
<1>6. ASSUME NEW s \in Serials, BodyEnds(p, s) PROVE TypeOK'
  <2>1. BodiesTypeOK'
    BY <1>6 DEF BodyEnds, BodiesTypeOK
  <2> QED BY <1>6, <2>1 DEF BodyEnds
<1> QED
  BY <1>1, <1>2, <1>3, <1>4, <1>5, <1>6 DEF Serving

LEMMA TypeEventing ==
  ASSUME TypeOK, NEW p \in Peers, Eventing(p)
  PROVE  TypeOK'
<1> USE UnchangedTypes DEF TypeOK
<1>1. CASE Emit(p)
  <2>1. emitted[p] + 1 \in Nat
    BY DEF EventsTypeOK
  <2>2. WiresTypeOK'
    BY <1>1, <2>1, FrameTypes, EnqueueTypes DEF Emit
  <2>3. EventsTypeOK'
    BY <1>1, PeerAssumption DEF Emit, EventsTypeOK
  <2> QED BY <1>1, <2>2, <2>3 DEF Emit
<1>2. CASE EmitTimeout(p)
  BY <1>2, EndTypes DEF EmitTimeout
<1>3. CASE EventTake(p)
  <2>1. events[p] \in Seq(Nat) /\ events[p] # <<>>
    BY <1>3 DEF EventTake, EventsTypeOK
  <2>2. Head(events[p]) \in Nat /\ Tail(events[p]) \in Seq(Nat)
    BY <2>1
  <2>3. EventsTypeOK'
    BY <1>3, <2>2 DEF EventTake, EventsTypeOK
  <2> QED BY <1>3, <2>3 DEF EventTake
<1>4. CASE EventHandled(p)
  <2>1. EventsTypeOK'
    BY <1>4 DEF EventHandled, EventsTypeOK
  <2> QED BY <1>4, <2>1 DEF EventHandled
<1>5. CASE EventPanics(p)
  <2>1. EventsTypeOK'
    BY <1>5 DEF EventPanics, EventsTypeOK
  <2> QED BY <1>5, <2>1, EndTypes DEF EventPanics
<1> QED BY <1>1, <1>2, <1>3, <1>4, <1>5 DEF Eventing

LEMMA TypeOthers ==
  ASSUME TypeOK, NEW p \in Peers,
         Ending(p) \/ \E f \in StrayFrames : Stray(p, f)
  PROVE  TypeOK'
<1> USE UnchangedTypes DEF TypeOK
<1>1. CASE Close(p)
  BY <1>1, EndTypes DEF Close
<1>2. CASE ContextEnds(p)
  BY <1>2, EndTypes DEF ContextEnds
<1>3. ASSUME NEW f \in StrayFrames, Stray(p, f) PROVE TypeOK'
  <2>1. PICK q \in Peers, n \in Serials, m \in Methods :
          f \in {RequestFrame(q, n, m), CancelFrame(q, n), ResponseFrame(q, n, "result")}
    BY DEF StrayFrames
  <2>2. f \in Frame
    BY <2>1, FrameTypes, PeerAssumption DEF Serials, Answers
  <2>3. WiresTypeOK'
    BY <1>3, <2>2 DEF Stray, WiresTypeOK
  <2> QED BY <1>3, <2>3 DEF Stray
<1> QED BY <1>1, <1>2, <1>3 DEF Ending

LEMMA InitTypes == Init => TypeOK
<1> SUFFICES ASSUME Init PROVE TypeOK
  OBVIOUS
<1> USE PeerAssumption DEF Init, PerPeer, PerSerial
<1>1. CallsTypeOK
  BY DEF CallsTypeOK, CallStates, App, EventLoop
<1>2. BodiesTypeOK
  BY DEF BodiesTypeOK
<1>3. EventsTypeOK /\ WiresTypeOK
  BY DEF EventsTypeOK, WiresTypeOK
<1> QED BY <1>1, <1>2, <1>3 DEF TypeOK

LEMMA TypeStep == TypeOK /\ [Next]_vars => TypeOK'
<1> SUFFICES ASSUME TypeOK, [Next]_vars PROVE TypeOK'
  OBVIOUS
<1>1. CASE Next
  BY <1>1, TypeCalling, TypeWriting, TypeReading, TypeServing, TypeEventing, TypeOthers DEF Next
<1>2. CASE UNCHANGED vars
  BY <1>2, UnchangedTypes DEF vars, TypeOK
<1> QED BY <1>1, <1>2

\* Every variable of the two peers keeps its type: serials stay within the
\* range a sender may publish, and only frames are ever queued or sent.
THEOREM TypeCorrect == Spec => []TypeOK
BY InitTypes, TypeStep, PTL DEF Spec

-----------------------------------------------------------------------------
(* Order of serials.  Five facts about queues, one per thing that can      *)
(* happen to a direction of the wire.                                      *)

LEMMA UpToRaised ==
  ASSUME NEW q \in Seq(Frame), NEW hi \in Int, UpTo(q, hi)
  PROVE  UpTo(q, hi + 1)
<1>1. \A i \in 1 .. Len(q) : q[i] \in Frame
  OBVIOUS
<1>2. \A i \in 1 .. Len(q) : q[i].id \in Nat
  BY <1>1 DEF Frame
<1> QED BY <1>2 DEF UpTo

LEMMA QueueOther ==
  ASSUME NEW n \in Seq(Frame), NEW h \in Seq(Frame), NEW o \in Seq(Frame),
         NEW lo \in Nat, NEW hi \in Int, NEW p \in Peers, NEW f \in Frame,
         WireOrder(n, h, o, lo, hi, p), ~IsRequest(f),
         f.prefix = (IF f.kind = "response" THEN Other(p) ELSE p)
  PROVE  WireOrder(n, h, Append(o, f), lo, hi, p)
<1>1. /\ Len(Append(o, f)) = Len(o) + 1 /\ Len(o) \in Nat
      /\ \A i \in 1 .. Len(o) : Append(o, f)[i] = o[i]
      /\ Append(o, f)[Len(o) + 1] = f
  OBVIOUS
<1>2. \A i \in 1 .. Len(Append(o, f)) : i \in 1 .. Len(o) \/ i = Len(o) + 1
  BY <1>1
<1>3. Increasing(Append(o, f))
  BY <1>1, <1>2 DEF WireOrder, Increasing
<1>4. \A k : Above(o, k) => Above(Append(o, f), k)
  BY <1>1, <1>2 DEF Above
<1>5. Before(n, Append(o, f)) /\ Before(h, Append(o, f)) /\ Above(Append(o, f), lo)
  BY <1>4 DEF WireOrder, Before
<1>6. UpTo(Append(o, f), hi)
  BY <1>1, <1>2 DEF WireOrder, UpTo
<1>7. Owned(Append(o, f), p)
  BY <1>1, <1>2 DEF WireOrder, Owned
<1> QED BY <1>3, <1>5, <1>6, <1>7 DEF WireOrder

LEMMA QueueRequest ==
  ASSUME NEW n \in Seq(Frame), NEW h \in Seq(Frame), NEW o \in Seq(Frame),
         NEW lo \in Nat, NEW hi \in Int, NEW p \in Peers, NEW f \in Frame,
         WireOrder(n, h, o, lo, hi, p), IsRequest(f), f.prefix = p,
         f.id = hi + 1
  PROVE  WireOrder(n, h, Append(o, f), lo, hi + 1, p)
<1>1. /\ Len(Append(o, f)) = Len(o) + 1 /\ Len(o) \in Nat
      /\ \A i \in 1 .. Len(o) : Append(o, f)[i] = o[i]
      /\ Append(o, f)[Len(o) + 1] = f
  OBVIOUS
<1>2. \A i \in 1 .. Len(Append(o, f)) : i \in 1 .. Len(o) \/ i = Len(o) + 1
  BY <1>1
<1>4. \A i \in 1 .. Len(o) : o[i] \in Frame /\ o[i].id \in Nat
  BY DEF Frame
<1>5. Increasing(Append(o, f))
  BY <1>1, <1>2, <1>4 DEF WireOrder, Increasing, UpTo
<1>6. \A k \in Int : Above(o, k) /\ k <= hi => Above(Append(o, f), k)
  BY <1>1, <1>2 DEF Above
<1>7. \A q \in Seq(Frame) : UpTo(q, hi) /\ Before(q, o) => Before(q, Append(o, f))
  <2> SUFFICES ASSUME NEW q \in Seq(Frame), UpTo(q, hi), Before(q, o),
                      NEW i \in 1 .. Len(q), IsRequest(q[i])
               PROVE  Above(Append(o, f), q[i].id)
    BY DEF Before
  <2>1. q[i].id \in Nat /\ q[i].id <= hi /\ Above(o, q[i].id)
    BY DEF UpTo, Before, Frame
  <2> QED BY <2>1, <1>6
<1>8. UpTo(Append(o, f), hi + 1)
  BY <1>1, <1>2, <1>4 DEF WireOrder, UpTo
<1>9. UpTo(n, hi + 1) /\ UpTo(h, hi + 1)
  BY UpToRaised DEF WireOrder
<1>10. Owned(Append(o, f), p)
  BY <1>1, <1>2 DEF WireOrder, Owned, IsRequest
<1> QED BY <1>5, <1>6, <1>7, <1>8, <1>9, <1>10 DEF WireOrder

\* What holds of every frame of a queue holds of its first frame and of the
\* frames behind it.
LEMMA TailKeeps ==
  ASSUME NEW q \in Seq(Frame), q # <<>>, NEW k, NEW p
  PROVE  /\ Above(q, k) => Above(Tail(q), k) /\ (IsRequest(q[1]) => q[1].id > k)
         /\ UpTo(q, k) => UpTo(Tail(q), k) /\ (IsRequest(q[1]) => q[1].id <= k)
         /\ Owned(q, p) => /\ Owned(Tail(q), p)
                          /\ q[1].prefix = (IF q[1].kind = "response" THEN Other(p) ELSE p)
<1> DEFINE t == Tail(q)
<1>1. /\ 1 \in 1 .. Len(q)
      /\ \A i \in 1 .. Len(t) : t[i] = q[i + 1] /\ i + 1 \in 1 .. Len(q)
  OBVIOUS
<1> HIDE DEF t
<1>2. ASSUME Above(q, k) PROVE Above(t, k) /\ (IsRequest(q[1]) => q[1].id > k)
  <2>1. ASSUME NEW i \in 1 .. Len(t), IsRequest(t[i]) PROVE t[i].id > k
    <3>1. t[i] = q[i + 1] /\ i + 1 \in 1 .. Len(q)
      BY <1>1
    <3> QED BY <1>2, <2>1, <3>1 DEF Above
  <2>2. IsRequest(q[1]) => q[1].id > k
    BY <1>1, <1>2 DEF Above
  <2> QED BY <2>1, <2>2 DEF Above
<1>3. ASSUME UpTo(q, k) PROVE UpTo(t, k) /\ (IsRequest(q[1]) => q[1].id <= k)
  <2>1. ASSUME NEW i \in 1 .. Len(t), IsRequest(t[i]) PROVE t[i].id <= k
    <3>1. t[i] = q[i + 1] /\ i + 1 \in 1 .. Len(q)
      BY <1>1
    <3> QED BY <1>3, <2>1, <3>1 DEF UpTo
  <2>2. IsRequest(q[1]) => q[1].id <= k
    BY <1>1, <1>3 DEF UpTo
  <2> QED BY <2>1, <2>2 DEF UpTo
<1>4. ASSUME Owned(q, p)
      PROVE  /\ Owned(t, p)
             /\ q[1].prefix = (IF q[1].kind = "response" THEN Other(p) ELSE p)
  <2>1. ASSUME NEW i \in 1 .. Len(t)
        PROVE  t[i].prefix = (IF t[i].kind = "response" THEN Other(p) ELSE p)
    <3>1. t[i] = q[i + 1] /\ i + 1 \in 1 .. Len(q)
      BY <1>1
    <3> QED BY <1>4, <3>1 DEF Owned
  <2>2. q[1].prefix = (IF q[1].kind = "response" THEN Other(p) ELSE p)
    BY <1>1, <1>4 DEF Owned
  <2> QED BY <2>1, <2>2 DEF Owned
<1> QED BY <1>2, <1>3, <1>4 DEF t

\* The same of a queue of one frame.
LEMMA SingleKeeps ==
  ASSUME NEW f \in Frame, NEW k, NEW p
  PROVE  /\ (IsRequest(f) => f.id > k) => Above(<<f>>, k)
         /\ (IsRequest(f) => f.id <= k) => UpTo(<<f>>, k)
         /\ f.prefix = (IF f.kind = "response" THEN Other(p) ELSE p) => Owned(<<f>>, p)
<1> DEFINE h == <<f>>
<1>1. Len(h) = 1 /\ h[1] = f
  OBVIOUS
<1> HIDE DEF h
<1>2. \A i \in 1 .. Len(h) : h[i] = f
  BY <1>1
<1>3. (IsRequest(f) => f.id > k) => Above(h, k)
  BY <1>2 DEF Above
<1>4. (IsRequest(f) => f.id <= k) => UpTo(h, k)
  BY <1>2 DEF UpTo
<1>5. f.prefix = (IF f.kind = "response" THEN Other(p) ELSE p) => Owned(h, p)
  BY <1>2 DEF Owned
<1> QED BY <1>3, <1>4, <1>5 DEF h

\* And of a queue with one more frame.
LEMMA AppendKeeps ==
  ASSUME NEW q \in Seq(Frame), NEW f \in Frame, NEW k, NEW p
  PROVE  /\ Above(q, k) /\ (IsRequest(f) => f.id > k) => Above(Append(q, f), k)
         /\ UpTo(q, k) /\ (IsRequest(f) => f.id <= k) => UpTo(Append(q, f), k)
         /\ Owned(q, p) /\ f.prefix = (IF f.kind = "response" THEN Other(p) ELSE p)
              => Owned(Append(q, f), p)
<1> DEFINE a == Append(q, f)
<1>1. Len(a) = Len(q) + 1 /\ (\A i \in 1 .. Len(q) : a[i] = q[i]) /\ a[Len(q) + 1] = f
  OBVIOUS
<1>2. \A i \in 1 .. Len(a) : i \in 1 .. Len(q) \/ i = Len(q) + 1
  BY <1>1
<1> HIDE DEF a
<1>3. \A i \in 1 .. Len(a) : a[i] = f \/ (i \in 1 .. Len(q) /\ a[i] = q[i])
  BY <1>1, <1>2
<1>4. Above(q, k) /\ (IsRequest(f) => f.id > k) => Above(a, k)
  BY <1>3 DEF Above
<1>5. UpTo(q, k) /\ (IsRequest(f) => f.id <= k) => UpTo(a, k)
  BY <1>3 DEF UpTo
<1>6. Owned(q, p) /\ f.prefix = (IF f.kind = "response" THEN Other(p) ELSE p) => Owned(a, p)
  BY <1>3 DEF Owned
<1> QED BY <1>4, <1>5, <1>6 DEF a

LEMMA TakeOrder ==
  ASSUME NEW n \in Seq(Frame), NEW o \in Seq(Frame),
         NEW lo \in Nat, NEW hi \in Int, NEW p \in Peers,
         WireOrder(n, <<>>, o, lo, hi, p), o # <<>>
  PROVE  WireOrder(n, <<Head(o)>>, Tail(o), lo, hi, p)
<1> DEFINE h == <<Head(o)>>
           t == Tail(o)
<1>1. /\ Len(o) \in Nat /\ Len(o) >= 1 /\ Len(t) = Len(o) - 1
      /\ \A i \in 1 .. Len(t) : t[i] = o[i + 1] /\ i + 1 \in 1 .. Len(o)
      /\ Len(h) = 1 /\ h[1] = o[1] /\ 1 \in 1 .. Len(o)
  OBVIOUS
<1>a. \A i \in 1 .. Len(o) : o[i].id \in Nat
  BY DEF Frame
<1> HIDE DEF h, t
<1>2. Increasing(t) /\ Before(h, t)
  <2>1. Increasing(o)
    BY DEF WireOrder
  <2>2. Increasing(t)
    <3> SUFFICES ASSUME NEW i \in 1 .. Len(t), NEW j \in 1 .. Len(t), i < j,
                        IsRequest(t[i]), IsRequest(t[j])
                 PROVE  t[i].id < t[j].id
      BY DEF Increasing
    <3>1. /\ i + 1 \in 1 .. Len(o) /\ j + 1 \in 1 .. Len(o) /\ i + 1 < j + 1
          /\ t[i] = o[i + 1] /\ t[j] = o[j + 1]
      BY <1>1
    <3> QED BY <3>1, <2>1 DEF Increasing
  <2>3. Before(h, t)
    <3>1. ASSUME IsRequest(o[1]) PROVE Above(t, o[1].id)
      <4>1. ASSUME NEW i \in 1 .. Len(t), IsRequest(t[i]) PROVE t[i].id > o[1].id
        <5>1. 1 \in 1 .. Len(o) /\ i + 1 \in 1 .. Len(o) /\ 1 < i + 1 /\ t[i] = o[i + 1]
          BY <1>1
        <5>2. o[1].id < o[i + 1].id
          BY <2>1, <3>1, <4>1, <5>1 DEF Increasing
        <5> QED BY <1>a, <5>1, <5>2
      <4> QED BY <4>1 DEF Above
    <3>2. \A i \in 1 .. Len(h) : h[i] = o[1]
      BY <1>1
    <3> QED BY <3>1, <3>2 DEF Before
  <2> QED BY <2>2, <2>3
<1>b. o[1] \in Frame /\ h = <<o[1]>> /\ t = Tail(o)
  BY DEF h, t
<1>3. ASSUME NEW k, Above(o, k) PROVE Above(h, k) /\ Above(t, k)
  <2>1. Above(t, k) /\ (IsRequest(o[1]) => o[1].id > k)
    BY <1>3, <1>b, TailKeeps
  <2>2. Above(<<o[1]>>, k)
    BY <1>b, <2>1, SingleKeeps
  <2> QED BY <1>b, <2>1, <2>2
<1>4. Before(n, h) /\ Before(n, t) /\ Above(h, lo) /\ Above(t, lo)
  BY <1>3 DEF WireOrder, Before
<1>5. UpTo(h, hi) /\ UpTo(t, hi) /\ Owned(h, p) /\ Owned(t, p)
  <2>1. UpTo(o, hi) /\ Owned(o, p)
    BY DEF WireOrder
  <2> QED BY <1>b, <2>1, TailKeeps, SingleKeeps
<1>6. WireOrder(n, h, t, lo, hi, p)
  BY <1>1, <1>2, <1>4, <1>5 DEF WireOrder
<1> QED BY <1>6 DEF h, t

LEMMA SendOrder ==
  ASSUME NEW n \in Seq(Frame), NEW h \in Seq(Frame), NEW o \in Seq(Frame),
         NEW lo \in Nat, NEW hi \in Int, NEW p \in Peers,
         WireOrder(n, h, o, lo, hi, p), h # <<>>
  PROVE  WireOrder(Append(n, h[1]), <<>>, o, lo, hi, p)
<1> DEFINE a == Append(n, h[1])
           e == <<>>
<1>1. /\ Len(n) \in Nat /\ Len(a) = Len(n) + 1 /\ Len(e) = 0
      /\ \A i \in 1 .. Len(n) : a[i] = n[i]
      /\ a[Len(n) + 1] = h[1] /\ 1 \in 1 .. Len(h)
  BY DEF WireOrder
<1> HIDE DEF a, e
<1>2. \A i \in 1 .. Len(a) : i \in 1 .. Len(n) \/ i = Len(n) + 1
  BY <1>1
<1>3. Increasing(a)
  BY <1>1, <1>2 DEF WireOrder, Increasing, Before, Above
<1>4. Before(a, o)
  BY <1>1, <1>2 DEF WireOrder, Before
<1>5. Above(a, lo) /\ UpTo(a, hi) /\ Owned(a, p)
  <2>1. Above(n, lo) /\ UpTo(n, hi) /\ Owned(n, p) /\ Above(h, lo) /\ UpTo(h, hi) /\ Owned(h, p)
    BY DEF WireOrder
  <2>2. /\ h[1] \in Frame /\ (IsRequest(h[1]) => h[1].id > lo /\ h[1].id <= hi)
        /\ h[1].prefix = (IF h[1].kind = "response" THEN Other(p) ELSE p)
    <3>1. h[1] \in Frame
      BY <1>1
    <3>2. IsRequest(h[1]) => h[1].id > lo /\ h[1].id <= hi
      BY <2>1, TailKeeps
    <3>3. h[1].prefix = (IF h[1].kind = "response" THEN Other(p) ELSE p)
      BY <2>1, TailKeeps
    <3> QED BY <3>1, <3>2, <3>3
  <2> QED BY <2>1, <2>2, AppendKeeps DEF a
<1>6. Before(a, e) /\ Before(e, o) /\ Above(e, lo) /\ UpTo(e, hi) /\ Owned(e, p)
  BY <1>1 DEF Before, Above, UpTo, Owned
<1>7. WireOrder(a, e, o, lo, hi, p)
  BY <1>1, <1>3, <1>4, <1>5, <1>6 DEF WireOrder
<1> QED BY <1>7 DEF a, e

LEMMA ReadOrder ==
  ASSUME NEW n \in Seq(Frame), NEW h \in Seq(Frame), NEW o \in Seq(Frame),
         NEW lo \in Nat, NEW hi \in Int, NEW p \in Peers,
         WireOrder(n, h, o, lo, hi, p), n # <<>>
  PROVE  /\ WireOrder(Tail(n), h, o, IF IsRequest(Head(n)) THEN Head(n).id ELSE lo, hi, p)
         /\ IsRequest(Head(n)) => Head(n).id > lo /\ Head(n).id <= hi
         /\ Head(n).prefix = (IF Head(n).kind = "response" THEN Other(p) ELSE p)
<1> DEFINE t == Tail(n)
           l == IF IsRequest(n[1]) THEN n[1].id ELSE lo
<1>1. /\ Len(n) \in Nat /\ Len(n) >= 1 /\ Len(t) = Len(n) - 1 /\ Head(n) = n[1]
      /\ \A i \in 1 .. Len(t) : t[i] = n[i + 1] /\ i + 1 \in 1 .. Len(n)
      /\ 1 \in 1 .. Len(n)
  OBVIOUS
<1> HIDE DEF t
<1>a. \A i \in 1 .. Len(n) : n[i].id \in Nat
  BY DEF Frame
<1>b. Increasing(n) /\ Before(n, h) /\ Before(n, o)
  BY DEF WireOrder
<1>2. Increasing(t) /\ Before(t, h) /\ Before(t, o)
  <2>1. Increasing(t)
    <3> SUFFICES ASSUME NEW i \in 1 .. Len(t), NEW j \in 1 .. Len(t), i < j,
                        IsRequest(t[i]), IsRequest(t[j])
                 PROVE  t[i].id < t[j].id
      BY DEF Increasing
    <3>1. /\ i + 1 \in 1 .. Len(n) /\ j + 1 \in 1 .. Len(n) /\ i + 1 < j + 1
          /\ t[i] = n[i + 1] /\ t[j] = n[j + 1]
      BY <1>1
    <3> QED BY <3>1, <1>b DEF Increasing
  <2>2. Before(t, h) /\ Before(t, o)
    BY <1>1, <1>b DEF Before
  <2> QED BY <2>1, <2>2
<1>3. Above(t, l) /\ Above(h, l) /\ Above(o, l)
  <2>1. CASE IsRequest(n[1])
    <3>1. Above(t, n[1].id)
      <4> SUFFICES ASSUME NEW i \in 1 .. Len(t), IsRequest(t[i])
                   PROVE  t[i].id > n[1].id
        BY DEF Above
      <4>1. i + 1 \in 1 .. Len(n) /\ 1 < i + 1 /\ t[i] = n[i + 1]
        BY <1>1
      <4>2. n[1].id < n[i + 1].id
        BY <1>1, <1>b, <2>1, <4>1 DEF Increasing
      <4> QED BY <1>1, <1>a, <4>1, <4>2
    <3>2. Above(h, n[1].id) /\ Above(o, n[1].id)
      BY <1>1, <1>b, <2>1 DEF Before
    <3> QED BY <2>1, <3>1, <3>2
  <2>2. CASE ~IsRequest(n[1])
    <3>1. Above(n, lo) /\ Above(h, lo) /\ Above(o, lo)
      BY DEF WireOrder
    <3>2. Above(t, lo)
      BY <3>1, TailKeeps DEF t
    <3> QED BY <2>2, <3>1, <3>2
  <2> QED BY <2>1, <2>2
<1>c. Above(n, lo) /\ UpTo(n, hi) /\ Owned(n, p)
  BY DEF WireOrder
<1>4. UpTo(t, hi) /\ Owned(t, p)
  BY <1>c, TailKeeps DEF t
<1>6. IsRequest(n[1]) => n[1].id > lo /\ n[1].id <= hi
  BY <1>c, TailKeeps
<1>5. WireOrder(t, h, o, l, hi, p)
  BY <1>2, <1>3, <1>4, <1>6 DEF WireOrder
<1>7. n[1].prefix = (IF n[1].kind = "response" THEN Other(p) ELSE p)
  BY <1>c, TailKeeps
<1> QED BY <1>1, <1>5, <1>6, <1>7 DEF t

-----------------------------------------------------------------------------
\* A step that leaves the wires, the reservations and the tables alone, and
\* refuses nobody, keeps the order.
LEMMA OrderUnchanged ==
  ASSUME SerialOrder, UNCHANGED <<next, call, admitted, body, outputs, hand, net>>,
         \A q \in Peers : err'[q] # "refused"
  PROVE  SerialOrder'
BY DEF SerialOrder, LastQueued, GateFree

\* A step of p that queues one frame that is not a request.
LEMMA OrderQueueOther ==
  ASSUME TypeOK, SerialOrder, NEW p \in Peers, NEW f \in Frame, Enqueue(p, f),
         ~IsRequest(f), f.prefix = (IF f.kind = "response" THEN Other(p) ELSE p),
         UNCHANGED <<hand, net>>
  PROVE  \A q \in Peers :
           WireOrder(net'[q], hand'[q], outputs'[q], admitted[Other(q)], LastQueued(q), q)
<1> SUFFICES ASSUME NEW q \in Peers
             PROVE  WireOrder(net'[q], hand'[q], outputs'[q], admitted[Other(q)], LastQueued(q), q)
  OBVIOUS
<1>1. WireOrder(net[q], hand[q], outputs[q], admitted[Other(q)], LastQueued(q), q)
  BY DEF SerialOrder
<1>2. CASE q # p
  BY <1>1, <1>2 DEF Enqueue, TypeOK, WiresTypeOK
<1>3. CASE q = p
  <2>1. /\ net[p] \in Seq(Frame) /\ hand[p] \in Seq(Frame) /\ outputs[p] \in Seq(Frame)
        /\ outputs'[p] = Append(outputs[p], f)
    BY DEF TypeOK, WiresTypeOK, Enqueue
  <2>2. admitted[Other(p)] \in Nat /\ LastQueued(p) \in Int
    BY DEF TypeOK, CallsTypeOK, BodiesTypeOK, LastQueued, Other, Peers
  <2> QED BY <1>1, <1>3, <2>1, <2>2, QueueOther
<1> QED BY <1>2, <1>3

\* A serial reserved and never queued only raises the bound.
LEMMA RaiseBound ==
  ASSUME NEW n \in Seq(Frame), NEW h \in Seq(Frame), NEW o \in Seq(Frame),
         NEW lo \in Nat, NEW hi \in Int, NEW p \in Peers,
         WireOrder(n, h, o, lo, hi, p)
  PROVE  WireOrder(n, h, o, lo, hi + 1, p)
<1>1. UpTo(n, hi + 1) /\ UpTo(h, hi + 1) /\ UpTo(o, hi + 1)
  BY UpToRaised DEF WireOrder
<1> QED BY <1>1 DEF WireOrder

\* The values the queue lemmas are about have the types they ask for.
LEMMA OrderTypes ==
  ASSUME TypeOK, NEW p \in Peers
  PROVE  /\ net[p] \in Seq(Frame) /\ hand[p] \in Seq(Frame) /\ outputs[p] \in Seq(Frame)
         /\ Other(p) \in Peers /\ Other(Other(p)) = p
         /\ admitted[Other(p)] \in Nat /\ next[p] \in Nat /\ LastQueued(p) \in Int
BY PeerAssumption DEF TypeOK, WiresTypeOK, CallsTypeOK, BodiesTypeOK, LastQueued, Other, Peers

\* A call that did not hold the gate returns: the gate and the bound stay.
LEMMA OrderSettle ==
  ASSUME TypeOK, SerialOrder, NEW p \in Peers, NEW s \in Serials, NEW state,
         call[p][s] # "publishing", state # "publishing",
         call' = [call EXCEPT ![p][s] = state], UNCHANGED next
  PROVE  \A q \in Peers :
           /\ LastQueued(q)' = LastQueued(q)
           /\ \A c \in Serials : call'[q][c] = "publishing" => c = next'[q]
<1>1. \A q \in Peers, c \in Serials :
        call'[q][c] = "publishing" <=> call[q][c] = "publishing"
  BY DEF TypeOK, CallsTypeOK
<1> QED BY <1>1 DEF SerialOrder, LastQueued, GateFree

\* Only the gate's holder is publishing, so its return frees the gate.
LEMMA OrderFreeGate ==
  ASSUME TypeOK, SerialOrder, NEW p \in Peers, NEW s \in Serials, NEW state,
         call[p][s] = "publishing", state # "publishing",
         call' = [call EXCEPT ![p][s] = state], UNCHANGED next
  PROVE  /\ s = next[p] /\ LastQueued(p) = next[p] - 1 /\ LastQueued(p)' = next[p]
         /\ \A q \in Peers : q # p => LastQueued(q)' = LastQueued(q)
         /\ \A q \in Peers : \A c \in Serials : call'[q][c] = "publishing" => c = next'[q]
<1>1. s = next[p]
  BY DEF SerialOrder
<1>2. \A q \in Peers, c \in Serials :
        call'[q][c] = "publishing" => call[q][c] = "publishing" /\ <<q, c>> # <<p, s>>
  BY DEF TypeOK, CallsTypeOK
<1>3. \A q \in Peers, c \in Serials :
        q # p => (call'[q][c] = "publishing" <=> call[q][c] = "publishing")
  BY DEF TypeOK, CallsTypeOK
<1>4. ~GateFree(p)
  BY DEF GateFree
<1>5. GateFree(p)'
  BY <1>1, <1>2 DEF GateFree, SerialOrder
<1>6. \A q \in Peers : q # p => GateFree(q)' = GateFree(q)
  BY <1>3 DEF GateFree
<1> QED BY <1>1, <1>2, <1>4, <1>5, <1>6 DEF LastQueued, SerialOrder

\* No step but ReadRefused records a refusal.
LEMMA EndNotRefused ==
  ASSUME TypeOK, SerialOrder, NEW p \in Peers,
         UNCHANGED err \/ (\E why \in {"closed", "failed"} : End(p, why))
  PROVE  \A q \in Peers : err'[q] # "refused"
BY DEF End, SerialOrder, TypeOK

LEMMA OrderCalling ==
  ASSUME TypeOK, SerialOrder, NEW p \in Peers, Calling(p)
  PROVE  SerialOrder'
<1> DEFINE Wires(q) == WireOrder(net[q], hand[q], outputs[q], admitted[Other(q)], LastQueued(q), q)
<1>0. \A q \in Peers : Wires(q)
  BY DEF SerialOrder
<1>1. ASSUME NEW b \in 0 .. EventLoop, NEW m \in Methods, CallAdmit(p, m, b)
      PROVE  SerialOrder'
  <2> DEFINE s == next[p] + 1
             f == RequestFrame(p, s, m)
  <2>1. /\ GateFree(p) /\ next[p] \in Nat /\ s \in Serials
        /\ LastQueued(p) = next[p]
    BY <1>1, PeerAssumption DEF CallAdmit, MayCall, TypeOK, CallsTypeOK, Serials, LastQueued
  <2>2. /\ UNCHANGED <<admitted, body, hand, net, err>>
        /\ next' = [next EXCEPT ![p] = s]
        /\ \/ call' = [call EXCEPT ![p][s] = "waiting"] /\ Enqueue(p, f)
           \/ call' = [call EXCEPT ![p][s] = "publishing"] /\ UNCHANGED outputs
    BY <1>1 DEF CallAdmit, Reserve, bodyVars
  <2>3. \A q \in Peers : next'[q] = (IF q = p THEN s ELSE next[q])
    BY <2>2 DEF TypeOK, CallsTypeOK
  <2>4. ASSUME NEW q \in Peers, q # p
        PROVE  LastQueued(q)' = LastQueued(q) /\ outputs'[q] = outputs[q]
    <3>1. \A c \in Serials : call'[q][c] = call[q][c]
      BY <2>2, <2>4 DEF TypeOK, CallsTypeOK
    <3>2. next'[q] = next[q] /\ outputs'[q] = outputs[q]
      BY <2>2, <2>3, <2>4 DEF Enqueue, TypeOK, WiresTypeOK
    <3> QED BY <3>1, <3>2 DEF LastQueued, GateFree
  <2>5. f \in Frame /\ IsRequest(f) /\ f.prefix = p /\ f.id = next[p] + 1
    <3>1. s \in Nat
      BY <2>1
    <3> QED BY <3>1, FrameTypes DEF RequestFrame, IsRequest
  <2>6. CASE call' = [call EXCEPT ![p][s] = "waiting"] /\ Enqueue(p, f)
    <3>1. \A c \in Serials : call'[p][c] # "publishing"
      BY <2>1, <2>6 DEF TypeOK, CallsTypeOK, GateFree
    <3>2. LastQueued(p)' = next[p] + 1
      BY <2>3, <3>1 DEF LastQueued, GateFree
    <3>3. outputs'[p] = Append(outputs[p], f)
      BY <2>6 DEF Enqueue, TypeOK, WiresTypeOK
    <3>4. Wires(p)
      BY <1>0
    <3>5. Wires(p)'
      <4> HIDE DEF f
      <4>1. WireOrder(net[p], hand[p], Append(outputs[p], f), admitted[Other(p)], next[p] + 1, p)
        <5>1. /\ net[p] \in Seq(Frame) /\ hand[p] \in Seq(Frame) /\ outputs[p] \in Seq(Frame)
              /\ admitted[Other(p)] \in Nat /\ next[p] \in Int
          BY OrderTypes
        <5>2. WireOrder(net[p], hand[p], outputs[p], admitted[Other(p)], next[p], p)
          BY <2>1, <3>4
        <5> QED BY <2>5, <5>1, <5>2, QueueRequest
      <4> QED BY <2>2, <3>2, <3>3, <4>1
    <3>6. \A q \in Peers : \A c \in Serials : call'[q][c] = "publishing" => c = next'[q]
      BY <2>3, <2>6, <3>1 DEF TypeOK, CallsTypeOK, SerialOrder
    <3>7. \A q \in Peers : Wires(q)'
      BY <1>0, <2>2, <2>4, <3>5
    <3> QED BY <2>2, <3>6, <3>7 DEF SerialOrder
  <2>7. CASE call' = [call EXCEPT ![p][s] = "publishing"] /\ UNCHANGED outputs
    <3>1. \A c \in Serials : call'[p][c] = "publishing" <=> c = s
      BY <2>1, <2>7 DEF TypeOK, CallsTypeOK, GateFree
    <3>2. LastQueued(p)' = next[p]
      BY <2>1, <2>3, <3>1 DEF LastQueued, GateFree
    <3>3. \A q \in Peers : Wires(q)'
      BY <1>0, <2>1, <2>2, <2>4, <2>7, <3>2
    <3>4. \A q \in Peers : \A c \in Serials : call'[q][c] = "publishing" => c = next'[q]
      BY <2>3, <2>7, <3>1 DEF TypeOK, CallsTypeOK, SerialOrder
    <3> QED BY <2>2, <3>3, <3>4 DEF SerialOrder
  <2> QED BY <2>2, <2>6, <2>7
<1>2. ASSUME NEW b \in 0 .. EventLoop, CallRefused(p, b) PROVE SerialOrder'
  <2> DEFINE s == next[p] + 1
  <2>1. /\ GateFree(p) /\ next[p] \in Nat /\ s \in Serials
        /\ LastQueued(p) = next[p]
    BY <1>2, PeerAssumption DEF CallRefused, MayCall, TypeOK, CallsTypeOK, Serials, LastQueued
  <2>2. /\ UNCHANGED <<admitted, body, outputs, hand, net, err>>
        /\ next' = [next EXCEPT ![p] = s]
        /\ call' = [call EXCEPT ![p][s] = "unpublished"]
    BY <1>2 DEF CallRefused, Reserve, bodyVars, wireVars
  <2>3. \A q \in Peers : next'[q] = (IF q = p THEN s ELSE next[q])
    BY <2>2 DEF TypeOK, CallsTypeOK
  <2>4. \A q \in Peers, c \in Serials :
          /\ q = p => call'[q][c] # "publishing"
          /\ q # p => call'[q][c] = call[q][c]
    BY <2>1, <2>2 DEF TypeOK, CallsTypeOK, GateFree
  <2>5. LastQueued(p)' = next[p] + 1
    BY <2>3, <2>4 DEF LastQueued, GateFree
  <2>6. \A q \in Peers : q # p => LastQueued(q)' = LastQueued(q)
    BY <2>3, <2>4 DEF LastQueued, GateFree
  <2>7. Wires(p)'
    <3>1. WireOrder(net[p], hand[p], outputs[p], admitted[Other(p)], next[p], p)
      BY <1>0, <2>1
    <3>2. WireOrder(net[p], hand[p], outputs[p], admitted[Other(p)], next[p] + 1, p)
      <4>1. /\ net[p] \in Seq(Frame) /\ hand[p] \in Seq(Frame) /\ outputs[p] \in Seq(Frame)
            /\ admitted[Other(p)] \in Nat /\ next[p] \in Int
        BY OrderTypes
      <4> QED BY <3>1, <4>1, RaiseBound
    <3> QED BY <2>2, <2>5, <3>2
  <2>8. \A q \in Peers : Wires(q)'
    BY <1>0, <2>2, <2>6, <2>7
  <2> QED BY <2>2, <2>3, <2>4, <2>8 DEF SerialOrder
<1>3. ASSUME NEW b \in 0 .. EventLoop, CallExhausted(p, b) PROVE SerialOrder'
  BY <1>3, EndNotRefused, OrderUnchanged DEF CallExhausted, callVars, bodyVars, wireVars
<1>4. ASSUME NEW s \in Serials, NEW m \in Methods, PublishRoom(p, s, m) PROVE SerialOrder'
  <2> DEFINE f == RequestFrame(p, s, m)
  <2>1. /\ call[p][s] = "publishing" /\ call' = [call EXCEPT ![p][s] = "waiting"]
        /\ Enqueue(p, f) /\ UNCHANGED <<next, admitted, body, hand, net, err>>
    BY <1>4 DEF PublishRoom, bodyVars
  <2>2. /\ s = next[p] /\ LastQueued(p) = next[p] - 1 /\ LastQueued(p)' = next[p]
        /\ \A q \in Peers : q # p => LastQueued(q)' = LastQueued(q)
        /\ \A q \in Peers : \A c \in Serials : call'[q][c] = "publishing" => c = next'[q]
    BY <2>1, OrderFreeGate
  <2>3. s \in Nat /\ f \in Frame /\ IsRequest(f) /\ f.prefix = p /\ f.id = s
    BY FrameTypes, PeerAssumption DEF Serials, RequestFrame, IsRequest
  <2>4. f.id = LastQueued(p) + 1 /\ LastQueued(p)' = LastQueued(p) + 1
    BY <2>2, <2>3
  <2>5. /\ outputs'[p] = Append(outputs[p], f)
        /\ \A q \in Peers : q # p => outputs'[q] = outputs[q]
    BY <2>1 DEF Enqueue, TypeOK, WiresTypeOK
  <2>6. Wires(p)'
    <3>1. Wires(p)
      BY <1>0
    <3> HIDE DEF f
    <3>2. WireOrder(net[p], hand[p], Append(outputs[p], f), admitted[Other(p)],
                    LastQueued(p) + 1, p)
      BY <2>3, <2>4, <3>1, OrderTypes, QueueRequest
    <3> QED BY <2>1, <2>4, <2>5, <3>2
  <2>7. \A q \in Peers : Wires(q)'
    BY <1>0, <2>1, <2>2, <2>5, <2>6
  <2> QED BY <2>1, <2>2, <2>7 DEF SerialOrder
<1>5. ASSUME NEW s \in Serials, PublishWithdrawn(p, s) \/ PublishTimeout(p, s) PROVE SerialOrder'
  <2>1. /\ call[p][s] = "publishing" /\ call' = [call EXCEPT ![p][s] = "unpublished"]
        /\ UNCHANGED <<next, admitted, body, outputs, hand, net>>
        /\ UNCHANGED err \/ End(p, "failed")
    BY <1>5 DEF PublishWithdrawn, PublishTimeout, bodyVars, wireVars
  <2>2. /\ s = next[p] /\ LastQueued(p) = next[p] - 1 /\ LastQueued(p)' = next[p]
        /\ \A q \in Peers : q # p => LastQueued(q)' = LastQueued(q)
        /\ \A q \in Peers : \A c \in Serials : call'[q][c] = "publishing" => c = next'[q]
    BY <2>1, OrderFreeGate
  <2>3. LastQueued(p)' = LastQueued(p) + 1
    BY <2>2, OrderTypes
  <2>4. Wires(p)'
    <3>1. Wires(p)
      BY <1>0
    <3> QED BY <2>1, <2>3, <3>1, OrderTypes, RaiseBound
  <2>5. \A q \in Peers : Wires(q)'
    BY <1>0, <2>1, <2>2, <2>4
  <2>6. \A q \in Peers : err'[q] # "refused"
    BY <2>1, EndNotRefused
  <2> QED BY <2>1, <2>2, <2>5, <2>6 DEF SerialOrder
<1>6. ASSUME NEW s \in Serials, AwaitReply(p, s) \/ AwaitEnded(p, s) PROVE SerialOrder'
  <2>1. \E state : /\ call[p][s] # "publishing" /\ state # "publishing"
                   /\ call' = [call EXCEPT ![p][s] = state]
    <3>1. reply[p][s] # "publishing"
      BY DEF TypeOK, CallsTypeOK, Answers
    <3>2. CASE AwaitReply(p, s)
      BY <3>1, <3>2 DEF AwaitReply
    <3>3. CASE AwaitEnded(p, s)
      BY <3>3 DEF AwaitEnded
    <3> QED BY <1>6, <3>2, <3>3
  <2>2. UNCHANGED <<next, admitted, body, outputs, hand, net, err>>
    BY <1>6 DEF AwaitReply, AwaitEnded, bodyVars, wireVars
  <2>3. \A q \in Peers :
           /\ LastQueued(q)' = LastQueued(q)
           /\ \A c \in Serials : call'[q][c] = "publishing" => c = next'[q]
    BY <2>1, <2>2, OrderSettle
  <2> QED BY <1>0, <2>2, <2>3 DEF SerialOrder
<1>7. ASSUME NEW s \in Serials, AwaitExpires(p, s) PROVE SerialOrder'
  <2> DEFINE f == CancelFrame(p, s)
  <2>1. /\ call[p][s] # "publishing" /\ call' = [call EXCEPT ![p][s] = "expired"]
        /\ UNCHANGED <<next, admitted, body, hand, net, err>>
        /\ Enqueue(p, f) \/ UNCHANGED outputs
    BY <1>7 DEF AwaitExpires, bodyVars
  <2>2. \A q \in Peers :
           /\ LastQueued(q)' = LastQueued(q)
           /\ \A c \in Serials : call'[q][c] = "publishing" => c = next'[q]
    BY <2>1, OrderSettle
  <2>3. f \in Frame /\ ~IsRequest(f) /\ f.prefix = p /\ f.kind # "response"
    BY FrameTypes, PeerAssumption DEF Serials, CancelFrame, IsRequest
  <2>4. \A q \in Peers :
          WireOrder(net'[q], hand'[q], outputs'[q], admitted[Other(q)], LastQueued(q), q)
    <3>1. CASE Enqueue(p, f)
      BY <2>1, <2>3, <3>1, OrderQueueOther
    <3>2. CASE UNCHANGED outputs
      BY <1>0, <2>1, <3>2
    <3> QED BY <2>1, <3>1, <3>2
  <2> QED BY <2>1, <2>2, <2>4 DEF SerialOrder
<1> QED
  BY <1>1, <1>2, <1>3, <1>4, <1>5, <1>6, <1>7 DEF Calling

LEMMA OrderWriting ==
  ASSUME TypeOK, SerialOrder, NEW p \in Peers, Writing(p)
  PROVE  SerialOrder'
<1> DEFINE Wires(q) == WireOrder(net[q], hand[q], outputs[q], admitted[Other(q)], LastQueued(q), q)
<1>0. \A q \in Peers : Wires(q)
  BY DEF SerialOrder
<1>1. CASE WriterTake(p)
  <2>1. /\ UNCHANGED <<next, call, admitted, body, net, err>>
        /\ hand[p] = <<>> /\ outputs[p] # <<>>
    BY <1>1 DEF WriterTake, callVars, bodyVars
  <2>2. \A q \in Peers : LastQueued(q)' = LastQueued(q)
    BY <2>1 DEF LastQueued, GateFree
  <2>3. /\ hand'[p] = <<Head(outputs[p])>> /\ outputs'[p] = Tail(outputs[p])
        /\ \A q \in Peers : q # p => hand'[q] = hand[q] /\ outputs'[q] = outputs[q]
    BY <1>1 DEF WriterTake, TypeOK, WiresTypeOK
  <2>4. WireOrder(net[p], <<Head(outputs[p])>>, Tail(outputs[p]), admitted[Other(p)],
                  LastQueued(p), p)
    <3>1. WireOrder(net[p], <<>>, outputs[p], admitted[Other(p)], LastQueued(p), p)
      BY <1>0, <2>1
    <3> QED BY <2>1, <3>1, OrderTypes, TakeOrder
  <2>5. \A q \in Peers : Wires(q)'
    BY <1>0, <2>1, <2>2, <2>3, <2>4
  <2> QED BY <2>1, <2>5 DEF SerialOrder
<1>2. CASE WriterSend(p)
  <2>1. UNCHANGED <<next, call, admitted, body, outputs, err>> /\ hand[p] # <<>>
    BY <1>2 DEF WriterSend, callVars, bodyVars
  <2>2. \A q \in Peers : LastQueued(q)' = LastQueued(q)
    BY <2>1 DEF LastQueued, GateFree
  <2>3. /\ hand'[p] = <<>> /\ net'[p] = Append(net[p], hand[p][1])
        /\ \A q \in Peers : q # p => hand'[q] = hand[q] /\ net'[q] = net[q]
    BY <1>2 DEF WriterSend, TypeOK, WiresTypeOK
  <2>4. WireOrder(Append(net[p], hand[p][1]), <<>>, outputs[p], admitted[Other(p)],
                  LastQueued(p), p)
    <3>1. Wires(p)
      BY <1>0
    <3> QED BY <2>1, <3>1, OrderTypes, SendOrder
  <2>5. \A q \in Peers : Wires(q)'
    BY <1>0, <2>1, <2>2, <2>3, <2>4
  <2> QED BY <2>1, <2>5 DEF SerialOrder
<1>3. CASE WriterFails(p)
  BY <1>3, EndNotRefused, OrderUnchanged DEF WriterFails, callVars, bodyVars, wireVars
<1> QED BY <1>1, <1>2, <1>3 DEF Writing

\* What a reader finds at the head of the connection: the right prefix and, in
\* a request, a serial above every one admitted, so no body of that serial.
LEMMA ReceivedOrder ==
  ASSUME TypeOK, SerialOrder, NEW p \in Peers, NEW kind, Receives(p, kind)
  PROVE  /\ ValidID(p, Received(p))
         /\ kind = "request" => Admits(p, Received(p)) /\ Received(p).id \notin Active(p)
<1> DEFINE q == Other(p)
<1>1. q \in Peers /\ Other(q) = p
  BY OrderTypes
<1>2. WireOrder(net[q], hand[q], outputs[q], admitted[p], LastQueued(q), q)
  BY <1>1 DEF SerialOrder
<1>3. net[q] # <<>> /\ Received(p) = Head(net[q]) /\ Received(p).kind = kind
  BY DEF Receives, Received
<1>4. /\ net[q] \in Seq(Frame) /\ hand[q] \in Seq(Frame) /\ outputs[q] \in Seq(Frame)
      /\ admitted[p] \in Nat /\ LastQueued(q) \in Int
  BY <1>1, OrderTypes
<1> HIDE DEF q
<1>5. /\ IsRequest(Head(net[q])) => Head(net[q]).id > admitted[p]
      /\ Head(net[q]).prefix = (IF Head(net[q]).kind = "response" THEN Other(q) ELSE q)
  BY <1>1, <1>2, <1>3, <1>4, ReadOrder
<1>6. ValidID(p, Received(p))
  BY <1>1, <1>3, <1>5 DEF ValidID, q
<1>7. ASSUME kind = "request" PROVE Received(p).id > admitted[p]
  BY <1>3, <1>5, <1>7 DEF IsRequest
<1>8. ASSUME kind = "request" PROVE Received(p).id \notin Active(p)
  <2>1. SUFFICES ASSUME Received(p).id \in Active(p) PROVE FALSE
    OBVIOUS
  <2>2. Received(p).id \in Serials /\ body[p][Received(p).id] # "none"
    BY <2>1 DEF Active
  <2>3. Received(p).id <= admitted[p]
    BY <2>2 DEF SerialOrder
  <2>4. Received(p).id \in Nat
    BY ReceivedTypes
  <2> QED BY <1>4, <1>7, <1>8, <2>3, <2>4
<1> QED BY <1>6, <1>7, <1>8 DEF Admits

\* Reading a frame moves the order along: a request raises what is admitted.
LEMMA OrderConsume ==
  ASSUME TypeOK, SerialOrder, NEW p \in Peers, NEW kind, Receives(p, kind), Consume(p),
         UNCHANGED <<next, call, hand>>,
         admitted' = (IF kind = "request" THEN [admitted EXCEPT ![p] = Received(p).id]
                                          ELSE admitted)
  PROVE  /\ \A q \in Peers :
              WireOrder(net'[q], hand'[q], outputs[q], admitted'[Other(q)], LastQueued(q), q)
         /\ \A q \in Peers : LastQueued(q)' = LastQueued(q)
<1> DEFINE r == Other(p)
<1>1. r \in Peers /\ Other(r) = p /\ r # p
  BY OrderTypes DEF Other, Peers
<1>2. net[r] # <<>> /\ Received(p) = Head(net[r]) /\ Received(p).kind = kind
  BY DEF Receives, Received
<1>3. /\ net'[r] = Tail(net[r])
      /\ \A q \in Peers : q # r => net'[q] = net[q]
  BY <1>1 DEF Consume, TypeOK, WiresTypeOK
<1>4. /\ net[r] \in Seq(Frame) /\ hand[r] \in Seq(Frame) /\ outputs[r] \in Seq(Frame)
      /\ admitted[p] \in Nat /\ LastQueued(r) \in Int
  BY <1>1, OrderTypes
<1>5. /\ admitted'[p] = (IF IsRequest(Head(net[r])) THEN Head(net[r]).id ELSE admitted[p])
      /\ \A q \in Peers : q # p => admitted'[q] = admitted[q]
  BY <1>2 DEF TypeOK, BodiesTypeOK, IsRequest
<1>6. WireOrder(net[r], hand[r], outputs[r], admitted[p], LastQueued(r), r)
  BY <1>1 DEF SerialOrder
<1> HIDE DEF r
<1>7. WireOrder(Tail(net[r]), hand[r], outputs[r], admitted'[p], LastQueued(r), r)
  BY <1>1, <1>2, <1>4, <1>5, <1>6, ReadOrder
<1>8. ASSUME NEW q \in Peers
      PROVE  WireOrder(net'[q], hand'[q], outputs[q], admitted'[Other(q)], LastQueued(q), q)
  <2>1. CASE q = r
    BY <1>1, <1>3, <1>7, <2>1
  <2>2. CASE q # r
    <3>1. q = p /\ Other(q) # p /\ Other(q) \in Peers
      BY <1>1, <2>2 DEF Peers, Other, r
    <3>2. WireOrder(net[q], hand[q], outputs[q], admitted[Other(q)], LastQueued(q), q)
      BY DEF SerialOrder
    <3> QED BY <1>3, <1>5, <2>2, <3>1, <3>2
  <2> QED BY <2>1, <2>2
<1>9. \A q \in Peers : LastQueued(q)' = LastQueued(q)
  BY DEF LastQueued, GateFree
<1> QED BY <1>8, <1>9

\* A request read gives its serial a body, and no serial above it has one.
LEMMA OrderBodies ==
  ASSUME TypeOK, SerialOrder, NEW p \in Peers, Receives(p, "request"), NEW state,
         admitted' = [admitted EXCEPT ![p] = Received(p).id],
         body' = [body EXCEPT ![p][Received(p).id] = state]
  PROVE  \A q \in Peers : \A s \in Serials : body'[q][s] # "none" => s <= admitted'[q]
<1>1. Received(p).id > admitted[p] /\ Received(p).id \in Nat /\ admitted[p] \in Nat
  BY ReceivedOrder, ReceivedTypes DEF Admits, TypeOK, BodiesTypeOK
<1> SUFFICES ASSUME NEW q \in Peers, NEW s \in Serials, body'[q][s] # "none"
             PROVE  s <= admitted'[q]
  OBVIOUS
<1> DEFINE n == Received(p).id
<1> HIDE DEF n
<1>2. CASE q = p /\ s = n
  <2>1. admitted'[p] = n
    BY DEF TypeOK, BodiesTypeOK, n
  <2> QED BY <1>1, <1>2, <2>1 DEF n
<1>3. CASE q = p /\ s # n
  <2>1. body'[p][s] = body[p][s] /\ admitted'[p] = n
    BY <1>3 DEF TypeOK, BodiesTypeOK, n
  <2>2. s <= admitted[p]
    BY <1>3, <2>1 DEF SerialOrder
  <2> QED BY <1>1, <1>3, <2>1, <2>2, PeerAssumption DEF Serials, n
<1>4. CASE q # p
  <2>1. body'[q][s] = body[q][s] /\ admitted'[q] = admitted[q]
    BY <1>4 DEF TypeOK, BodiesTypeOK
  <2> QED BY <2>1 DEF SerialOrder
<1> QED BY <1>2, <1>3, <1>4

LEMMA OrderReading ==
  ASSUME TypeOK, SerialOrder, NEW p \in Peers, Reading(p)
  PROVE  SerialOrder'
<1>1. CASE ReadRefused(p)
  BY <1>1, ReceivedOrder DEF ReadRefused
<1>2. CASE ReadRequest(p)
  <2>1. /\ Receives(p, "request") /\ Consume(p)
        /\ UNCHANGED <<next, call, outputs, hand, err>>
        /\ admitted' = [admitted EXCEPT ![p] = Received(p).id]
        /\ body' = [body EXCEPT ![p][Received(p).id] = "running"]
    BY <1>2 DEF ReadRequest, callVars
  <2>2. /\ \A q \in Peers :
             WireOrder(net'[q], hand'[q], outputs[q], admitted'[Other(q)], LastQueued(q), q)
        /\ \A q \in Peers : LastQueued(q)' = LastQueued(q)
    BY <2>1, OrderConsume
  <2>3. \A q \in Peers : \A s \in Serials : body'[q][s] # "none" => s <= admitted'[q]
    BY <2>1, OrderBodies
  <2> QED BY <2>1, <2>2, <2>3 DEF SerialOrder
<1>3. CASE ReadRejected(p)
  <2>1. /\ Receives(p, "request") /\ Consume(p)
        /\ UNCHANGED <<next, call, hand>>
        /\ admitted' = [admitted EXCEPT ![p] = Received(p).id]
        /\ body' = [body EXCEPT ![p][Received(p).id] = "rejected"]
        /\ UNCHANGED err \/ End(p, "failed")
        /\ \/ UNCHANGED outputs
           \/ \E a \in Answers : Enqueue(p, ResponseFrame(p, Received(p).id, a))
    BY <1>3 DEF ReadRejected, callVars, Answers
  <2>2. /\ \A q \in Peers :
             WireOrder(net'[q], hand'[q], outputs[q], admitted'[Other(q)], LastQueued(q), q)
        /\ \A q \in Peers : LastQueued(q)' = LastQueued(q)
    BY <2>1, OrderConsume
  <2>3. \A q \in Peers : \A s \in Serials : body'[q][s] # "none" => s <= admitted'[q]
    BY <2>1, OrderBodies
  <2>4. \A q \in Peers : err'[q] # "refused"
    BY <2>1, EndNotRefused
  <2>5. \A q \in Peers :
          WireOrder(net'[q], hand'[q], outputs'[q], admitted'[Other(q)], LastQueued(q)', q)
    <3>1. CASE UNCHANGED outputs
      BY <2>2, <3>1
    <3>2. ASSUME NEW a \in Answers, Enqueue(p, ResponseFrame(p, Received(p).id, a))
          PROVE  \A q \in Peers : WireOrder(net'[q], hand'[q], outputs'[q],
                                           admitted'[Other(q)], LastQueued(q)', q)
      <4> DEFINE f == ResponseFrame(p, Received(p).id, a)
      <4>1. f \in Frame /\ ~IsRequest(f) /\ f.prefix = Other(p) /\ f.kind = "response"
        <5>1. Received(p).id \in Nat
          BY <2>1, ReceivedTypes
        <5> QED BY <5>1, FrameTypes DEF ResponseFrame, IsRequest
      <4>2. /\ net'[p] \in Seq(Frame) /\ hand'[p] \in Seq(Frame) /\ outputs[p] \in Seq(Frame)
            /\ admitted'[Other(p)] \in Nat /\ LastQueued(p) \in Int
        <5>1. net' \in [Peers -> Seq(Frame)]
          BY <2>1, ReceivedTypes
        <5>2. admitted'[Other(p)] = admitted[Other(p)]
          BY <2>1 DEF TypeOK, BodiesTypeOK, Other, Peers
        <5> QED BY <2>1, <5>1, <5>2, OrderTypes
      <4>3. /\ outputs'[p] = Append(outputs[p], f)
            /\ \A q \in Peers : q # p => outputs'[q] = outputs[q]
        BY <3>2 DEF Enqueue, TypeOK, WiresTypeOK
      <4> HIDE DEF f
      <4>4. WireOrder(net'[p], hand'[p], Append(outputs[p], f), admitted'[Other(p)], LastQueued(p), p)
        BY <2>2, <4>1, <4>2, QueueOther
      <4> QED BY <2>2, <4>3, <4>4
    <3> QED BY <2>1, <3>1, <3>2
  <2> QED BY <2>1, <2>2, <2>3, <2>4, <2>5 DEF SerialOrder
<1>4. CASE ReadResponse(p) \/ ReadCancel(p) \/ ReadEvent(p)
  <2>1. /\ \E kind : Receives(p, kind) /\ kind # "request"
        /\ Consume(p) /\ UNCHANGED <<next, call, admitted, body, outputs, hand, err>>
    BY <1>4 DEF ReadResponse, ReadCancel, ReadEvent, callVars, bodyVars
  <2>2. /\ \A q \in Peers :
             WireOrder(net'[q], hand'[q], outputs[q], admitted'[Other(q)], LastQueued(q), q)
        /\ \A q \in Peers : LastQueued(q)' = LastQueued(q)
    BY <2>1, OrderConsume
  <2> QED BY <2>1, <2>2 DEF SerialOrder
<1>5. CASE EventRoom(p) \/ EventStall(p) \/ ReaderFails(p)
  <2>1. UNCHANGED <<next, call, admitted, body, outputs, hand, net>>
    BY <1>5 DEF EventRoom, EventStall, ReaderFails, callVars, bodyVars, wireVars
  <2>2. UNCHANGED err \/ End(p, "failed")
    BY <1>5 DEF EventRoom, EventStall, ReaderFails
  <2> QED BY <2>1, <2>2, EndNotRefused, OrderUnchanged
<1> QED BY <1>1, <1>2, <1>3, <1>4, <1>5 DEF Reading

LEMMA OrderServing ==
  ASSUME TypeOK, SerialOrder, NEW p \in Peers, Serving(p)
  PROVE  SerialOrder'
<1>1. PICK s \in Serials :
        \/ \E o \in {"result", "error"} : HandlerReturns(p, s, o)
        \/ Deadline(p, s) \/ DeadlineAnswers(p, s)
        \/ Respond(p, s) \/ RespondFails(p, s) \/ BodyEnds(p, s)
  BY DEF Serving
<1>2. CASE Respond(p, s)
  <2> DEFINE f == ResponseFrame(p, s, value[p][s])
  <2>1. UNCHANGED <<next, call, admitted, body, hand, net, err>> /\ Enqueue(p, f)
    BY <1>2 DEF Respond, callVars
  <2>2. f \in Frame /\ ~IsRequest(f) /\ f.prefix = Other(p) /\ f.kind = "response"
    <3>1. s \in Nat /\ value[p][s] \in Answers \cup {"none"}
      BY PeerAssumption DEF Serials, TypeOK, BodiesTypeOK
    <3> QED BY <3>1, FrameTypes DEF ResponseFrame, IsRequest
  <2>3. \A q \in Peers :
          WireOrder(net'[q], hand'[q], outputs'[q], admitted[Other(q)], LastQueued(q), q)
    BY <2>1, <2>2, OrderQueueOther
  <2>4. \A q \in Peers : LastQueued(q)' = LastQueued(q)
    BY <2>1 DEF LastQueued, GateFree
  <2> QED BY <2>1, <2>3, <2>4 DEF SerialOrder
<1>3. CASE Deadline(p, s) \/ DeadlineAnswers(p, s) \/ RespondFails(p, s)
  <2>1. UNCHANGED <<next, call, admitted, body, outputs, hand, net>>
    BY <1>3 DEF Deadline, DeadlineAnswers, RespondFails, callVars, wireVars
  <2>2. UNCHANGED err \/ End(p, "failed")
    BY <1>3 DEF Deadline, DeadlineAnswers, RespondFails
  <2> QED BY <2>1, <2>2, EndNotRefused, OrderUnchanged
<1>4. CASE (\E o \in {"result", "error"} : HandlerReturns(p, s, o)) \/ BodyEnds(p, s)
  <2>1. UNCHANGED <<next, call, admitted, outputs, hand, net, err>>
    BY <1>4 DEF HandlerReturns, BodyEnds, callVars, wireVars
  <2>2. body[p][s] # "none" /\ \E state : body' = [body EXCEPT ![p][s] = state]
    BY <1>4 DEF HandlerReturns, BodyEnds
  <2>3. \A q \in Peers, c \in Serials : body'[q][c] # "none" => body[q][c] # "none"
    BY <2>2 DEF TypeOK, BodiesTypeOK
  <2>4. \A q \in Peers : LastQueued(q)' = LastQueued(q)
    BY <2>1 DEF LastQueued, GateFree
  <2> QED BY <2>1, <2>3, <2>4 DEF SerialOrder
<1> QED BY <1>1, <1>2, <1>3, <1>4

LEMMA OrderEventing ==
  ASSUME TypeOK, SerialOrder, NEW p \in Peers, Eventing(p) \/ Ending(p)
  PROVE  SerialOrder'
<1>1. CASE Emit(p)
  <2> DEFINE f == EventFrame(p, emitted[p] + 1)
  <2>1. UNCHANGED <<next, call, admitted, body, hand, net, err>> /\ Enqueue(p, f)
    BY <1>1 DEF Emit, callVars, bodyVars
  <2>2. f \in Frame /\ ~IsRequest(f) /\ f.prefix = p /\ f.kind # "response"
    <3>1. emitted[p] + 1 \in Nat
      BY DEF TypeOK, EventsTypeOK
    <3> QED BY <3>1, FrameTypes DEF EventFrame, IsRequest
  <2>3. \A q \in Peers :
          WireOrder(net'[q], hand'[q], outputs'[q], admitted[Other(q)], LastQueued(q), q)
    BY <2>1, <2>2, OrderQueueOther
  <2>4. \A q \in Peers : LastQueued(q)' = LastQueued(q)
    BY <2>1 DEF LastQueued, GateFree
  <2> QED BY <2>1, <2>3, <2>4 DEF SerialOrder
<1>2. CASE EmitTimeout(p) \/ EventTake(p) \/ EventHandled(p) \/ EventPanics(p) \/ Ending(p)
  <2>1. UNCHANGED <<next, call, admitted, body, outputs, hand, net>>
    BY <1>2 DEF EmitTimeout, EventTake, EventHandled, EventPanics, Ending, Close, ContextEnds,
                callVars, bodyVars, wireVars
  <2>2. UNCHANGED err \/ (\E why \in {"closed", "failed"} : End(p, why))
    BY <1>2 DEF EmitTimeout, EventTake, EventHandled, EventPanics, Ending, Close, ContextEnds
  <2> QED BY <2>1, <2>2, EndNotRefused, OrderUnchanged
<1> QED BY <1>1, <1>2 DEF Eventing

LEMMA InitOrder == Init => SerialOrder
<1> SUFFICES ASSUME Init PROVE SerialOrder
  OBVIOUS
<1> USE DEF Init, PerPeer, PerSerial
<1>1. \A q \in Peers : LastQueued(q) = 0 /\ Other(q) \in Peers
  BY DEF LastQueued, GateFree, Other, Peers
<1>2. \A q \in Peers : WireOrder(<<>>, <<>>, <<>>, 0, 0, q)
  BY DEF WireOrder, Increasing, Before, Above, UpTo, Owned
<1> QED BY <1>1, <1>2 DEF SerialOrder

LEMMA OrderStep ==
  ASSUME TypeOK, SerialOrder, [Next]_vars, Nonconforming = {}
  PROVE  SerialOrder'
<1>1. CASE UNCHANGED vars
  <2>1. UNCHANGED <<next, call, admitted, body, outputs, hand, net, err>>
    BY <1>1 DEF vars, callVars, bodyVars, wireVars
  <2> QED BY <2>1, OrderUnchanged DEF SerialOrder
<1>2. CASE Next
  <2>1. PICK p \in Peers :
          \/ Calling(p) \/ Writing(p) \/ Reading(p) \/ Serving(p) \/ Eventing(p) \/ Ending(p)
          \/ \E f \in StrayFrames : Stray(p, f)
    BY <1>2 DEF Next
  <2>2. ~\E f \in StrayFrames : Stray(p, f)
    BY DEF Stray
  <2> QED BY <2>1, <2>2, OrderCalling, OrderWriting, OrderReading, OrderServing, OrderEventing
<1> QED BY <1>1, <1>2

\* Two conforming peers never refuse each other's frames, for every number of
\* calls and every capacity of their queues.  NeverRefuses alone is not
\* inductive: SerialOrder says why the next frame read can never be out of
\* order, namely that the gate keeps reservation and queueing in one order.
THEOREM ConformingPeersNeverRefuse == Spec => []NeverRefuses
<1> DEFINE Inv == TypeOK /\ (Nonconforming = {} => SerialOrder)
<1>1. Init => Inv
  BY InitTypes, InitOrder
<1>2. Inv /\ [Next]_vars => Inv'
  BY TypeStep, OrderStep
<1>3. Inv => NeverRefuses
  BY DEF NeverRefuses, SerialOrder
<1> QED BY <1>1, <1>2, <1>3, PTL DEF Spec
=============================================================================
