--------------------------- MODULE PromiseProofs ---------------------------
(***************************************************************************)
(* What two peers promise the applications on them, for every value of     *)
(* the constants of Peer.  Calls: conforming peers implement RequestReply, *)
(* each of their steps being one step of it, or none.  Events: whatever    *)
(* else a peer sends, the handlers see the events in order, none skipped.  *)
(***************************************************************************)
EXTENDS PeerCallProofs

\* How a caller's step may move the outcome of one of its calls.
Moves(p, s, v) ==
  \/ Outcome(p, s) = "none" /\ v = "open"
  \/ Outcome(p, s) \in {"none", "open"} /\ ~Published(p, s) /\ v = "unpublished"
  \/ Outcome(p, s) = "open" /\ reply[p][s] = "result" /\ v = "result"
  \/ Outcome(p, s) = "open" /\ v \in Abstract!Refusals

\* The promise's tables follow one entry of the peers'.
LEMMA OutcomeFollows ==
  ASSUME NEW p \in Peers, NEW s \in Serials, NEW v, Outcome(p, s)' = v,
         \A q \in Peers, c \in Serials : q # p \/ c # s => Outcome(q, c)' = Outcome(q, c)
  PROVE  Outcomes' = [Outcomes EXCEPT ![<<p, s>>] = v]
<1> DEFINE new == [c \in Peers \X Serials |-> Outcome(c[1], c[2])']
           old == [c \in Peers \X Serials |-> Outcome(c[1], c[2])]
<1>1. \A c \in Peers \X Serials : Outcome(c[1], c[2])' = IF c = <<p, s>> THEN v ELSE Outcome(c[1], c[2])
  OBVIOUS
<1>2. new = [old EXCEPT ![<<p, s>>] = v]
  BY <1>1
<1> QED BY <1>2 DEF Outcomes

LEMMA RunFollows ==
  ASSUME NEW p \in Peers, NEW s \in Serials, NEW v, FarRun(p, s)' = v,
         \A q \in Peers, c \in Serials : q # p \/ c # s => FarRun(q, c)' = FarRun(q, c)
  PROVE  FarRuns' = [FarRuns EXCEPT ![<<p, s>>] = v]
<1> DEFINE new == [c \in Peers \X Serials |-> FarRun(c[1], c[2])']
           old == [c \in Peers \X Serials |-> FarRun(c[1], c[2])]
<1>1. \A c \in Peers \X Serials : FarRun(c[1], c[2])' = IF c = <<p, s>> THEN v ELSE FarRun(c[1], c[2])
  OBVIOUS
<1>2. new = [old EXCEPT ![<<p, s>>] = v]
  BY <1>1
<1> QED BY <1>2 DEF FarRuns

LEMMA NothingMoves ==
  /\ UNCHANGED call => UNCHANGED Outcomes
  /\ UNCHANGED body => UNCHANGED FarRuns
BY DEF Outcomes, Outcome, Live, FarRuns, FarRun

\* A caller's step moves at most one outcome.
LEMMA CallingMoves ==
  ASSUME TypeOK, Unreserved, NEW p \in Peers, Calling(p)
  PROVE  /\ UNCHANGED body
         /\ \/ UNCHANGED call
            \/ \E s \in Serials : \E v : 
                 /\ Moves(p, s, v) \/ v = Outcome(p, s)
                 /\ Outcome(p, s)' = v
                 /\ \A q \in Peers, c \in Serials : q # p \/ c # s => Outcome(q, c)' = Outcome(q, c)
<1>0. ASSUME NEW s \in Serials, NEW state, call' = [call EXCEPT ![p][s] = state],
             NEW v, v = IF state \in {"publishing", "waiting"} THEN "open" ELSE state
      PROVE  /\ Outcome(p, s)' = v
             /\ \A q \in Peers, c \in Serials : q # p \/ c # s => Outcome(q, c)' = Outcome(q, c)
  BY <1>0 DEF Outcome, Live, TypeOK, CallsTypeOK
<1>1. ASSUME NEW s \in Serials, NEW state, call' = [call EXCEPT ![p][s] = state], UNCHANGED body,
             NEW v, v = IF state \in {"publishing", "waiting"} THEN "open" ELSE state,
             Moves(p, s, v) \/ v = Outcome(p, s)
      PROVE  /\ UNCHANGED body
             /\ \E c \in Serials : \E w :
                  /\ Moves(p, c, w) \/ w = Outcome(p, c)
                  /\ Outcome(p, c)' = w
                  /\ \A q \in Peers, d \in Serials : q # p \/ d # c => Outcome(q, d)' = Outcome(q, d)
  BY <1>0, <1>1
<1> DEFINE n == next[p] + 1
<1>2. ASSUME next[p] < MaxSerial
      PROVE  n \in Serials /\ Outcome(p, n) = "none" /\ ~Published(p, n)
  <2>1. n \in Serials /\ n > next[p]
    BY <1>2, PeerAssumption DEF Serials, TypeOK, CallsTypeOK
  <2> QED BY <2>1 DEF Unreserved, Outcome, Live, Published
<1>3. ASSUME NEW b \in 0 .. EventLoop, NEW m \in Methods, CallAdmit(p, m, b)
      PROVE  /\ n \in Serials /\ UNCHANGED body /\ Moves(p, n, "open")
             /\ \E state \in {"waiting", "publishing"} : call' = [call EXCEPT ![p][n] = state]
  BY <1>2, <1>3 DEF CallAdmit, Reserve, bodyVars, Moves
<1>4. ASSUME NEW b \in 0 .. EventLoop, CallRefused(p, b)
      PROVE  /\ n \in Serials /\ UNCHANGED body /\ Moves(p, n, "unpublished")
             /\ call' = [call EXCEPT ![p][n] = "unpublished"]
  BY <1>2, <1>4 DEF CallRefused, Reserve, bodyVars, Moves
<1>5. ASSUME NEW b \in 0 .. EventLoop, CallExhausted(p, b)
      PROVE  UNCHANGED <<body, call>>
  BY <1>5 DEF CallExhausted, callVars, bodyVars
<1>6. ASSUME NEW s \in Serials, NEW m \in Methods, PublishRoom(p, s, m)
      PROVE  UNCHANGED body /\ call' = [call EXCEPT ![p][s] = "waiting"] /\ Outcome(p, s) = "open"
  BY <1>6 DEF PublishRoom, bodyVars, Outcome, Live
<1>7. ASSUME NEW s \in Serials, PublishWithdrawn(p, s) \/ PublishTimeout(p, s)
      PROVE  /\ UNCHANGED body /\ call' = [call EXCEPT ![p][s] = "unpublished"]
             /\ Moves(p, s, "unpublished")
  BY <1>7 DEF PublishWithdrawn, PublishTimeout, bodyVars, Outcome, Live, Published, Moves
<1>8. ASSUME NEW s \in Serials, AwaitReply(p, s)
      PROVE  /\ UNCHANGED body /\ call' = [call EXCEPT ![p][s] = reply[p][s]]
             /\ reply[p][s] \notin {"publishing", "waiting"} /\ Moves(p, s, reply[p][s])
  <2>1. Outcome(p, s) = "open" /\ reply[p][s] \in Answers
    BY <1>8 DEF AwaitReply, Outcome, Live, TypeOK, CallsTypeOK
  <2> QED BY <1>8, <2>1 DEF AwaitReply, bodyVars, Moves, Answers, Abstract!Refusals
<1>9. ASSUME NEW s \in Serials, AwaitExpires(p, s)
      PROVE  /\ UNCHANGED body /\ call' = [call EXCEPT ![p][s] = "expired"]
             /\ Moves(p, s, "expired")
  BY <1>9 DEF AwaitExpires, bodyVars, Outcome, Live, Moves, Abstract!Refusals
<1>10. ASSUME NEW s \in Serials, AwaitEnded(p, s)
      PROVE  /\ UNCHANGED body /\ call' = [call EXCEPT ![p][s] = "ended"]
             /\ Moves(p, s, "ended")
  BY <1>10 DEF AwaitEnded, bodyVars, Outcome, Live, Moves, Abstract!Refusals
<1> HIDE DEF n
<1>11. ASSUME NEW b \in 0 .. EventLoop, NEW m \in Methods, CallAdmit(p, m, b)
       PROVE  UNCHANGED body /\ \E s \in Serials : \E v :
                /\ Moves(p, s, v) \/ v = Outcome(p, s)
                /\ Outcome(p, s)' = v
                /\ \A q \in Peers, c \in Serials : q # p \/ c # s => Outcome(q, c)' = Outcome(q, c)
  <2>1. PICK state \in {"waiting", "publishing"} : call' = [call EXCEPT ![p][n] = state]
    BY <1>3, <1>11
  <2> QED BY <1>1, <1>3, <1>11, <2>1
<1>12. CASE \E b \in 0 .. EventLoop : CallRefused(p, b)
  BY <1>1, <1>4, <1>12
<1>13. CASE \E s \in Serials, m \in Methods : PublishRoom(p, s, m)
  BY <1>1, <1>6, <1>13
<1>14. CASE \E s \in Serials : PublishWithdrawn(p, s) \/ PublishTimeout(p, s)
  BY <1>1, <1>7, <1>14
<1>15. CASE \E s \in Serials : AwaitReply(p, s)
  BY <1>1, <1>8, <1>15
<1>16. CASE \E s \in Serials : AwaitExpires(p, s)
  BY <1>1, <1>9, <1>16
<1>17. CASE \E s \in Serials : AwaitEnded(p, s)
  BY <1>1, <1>10, <1>17
<1> QED
  BY <1>5, <1>11, <1>12, <1>13, <1>14, <1>15, <1>16, <1>17 DEF Calling

\* Reading a request that is admitted starts the far handler of a call that was
\* published; reading anything else starts none.
LEMMA ReadingRuns ==
  ASSUME ConformInv, NEW p \in Peers, Reading(p)
  PROVE  /\ UNCHANGED call
         /\ \/ UNCHANGED FarRuns
            \/ \E s \in Serials :
                 /\ Published(Other(p), s) /\ FarRun(Other(p), s) = "none"
                 /\ FarRuns' = [FarRuns EXCEPT ![<<Other(p), s>>] = "running"]
<1> USE DEF ConformInv
<1> DEFINE r == Other(p)
<1>0. PICK n : n = Received(p).id
  OBVIOUS
<1>1. r \in Peers /\ Other(r) = p /\ \A q \in Peers : q # r => Other(q) # p
  BY DEF Other, Peers
<1>2. ASSUME NEW state, Receives(p, "request"), n > admitted[p],
             body' = [body EXCEPT ![p][n] = state]
      PROVE  /\ n \in Serials /\ Published(r, n) /\ body[p][n] = "none" /\ body'[p][n] = state
             /\ \A q \in Peers, c \in Serials : q # p \/ c # n => body'[q][c] = body[q][c]
  <2>1. n \in Nat /\ admitted[p] \in Nat
    BY <1>0, <1>2, ReceivedTypes DEF TypeOK, BodiesTypeOK
  <2>2. net[r] # <<>> /\ net[r] \in Seq(Frame) /\ Received(p) = Head(net[r]) /\ IsRequest(Received(p))
    BY <1>1, <1>2 DEF Receives, Received, IsRequest, TypeOK, WiresTypeOK
  <2>3. /\ Path(r) \in Seq(Frame) /\ Path(r) # <<>> /\ Head(Path(r)) = Received(p)
    BY <1>1, <2>2, PathTypes, CatReads DEF Path, TypeOK, WiresTypeOK
  <2>4. Received(p) \in Carried(r)
    BY <2>3, Ahead DEF Carried
  <2>5. n \in Serials /\ Published(r, n)
    BY <1>0, <1>1, <2>2, <2>4 DEF RequestsMatch
  <2>6. body[p][n] = "none"
    BY <1>2, <2>1, <2>5 DEF SerialOrder
  <2> QED BY <1>2, <2>5, <2>6 DEF TypeOK, BodiesTypeOK
<1>3. CASE ReadRequest(p)
  <2>1. /\ Receives(p, "request") /\ n > admitted[p] /\ UNCHANGED call
        /\ body' = [body EXCEPT ![p][n] = "running"]
    BY <1>0, <1>3 DEF ReadRequest, Admits, callVars
  <2>2. /\ n \in Serials /\ Published(r, n) /\ body[p][n] = "none" /\ body'[p][n] = "running"
        /\ \A q \in Peers, c \in Serials : q # p \/ c # n => body'[q][c] = body[q][c]
    BY <1>2, <2>1
  <2> HIDE DEF r
  <2>3. FarRun(r, n) = "none" /\ FarRun(r, n)' = "running"
    BY <1>1, <2>2 DEF FarRun
  <2>4. \A q \in Peers, c \in Serials : q # r \/ c # n => FarRun(q, c)' = FarRun(q, c)
    <3>1. \A q \in Peers : Other(q) \in Peers
      BY DEF Other, Peers
    <3> QED BY <1>1, <2>2, <3>1 DEF FarRun
  <2>5. FarRuns' = [FarRuns EXCEPT ![<<r, n>>] = "running"]
    BY <1>1, <2>2, <2>3, <2>4, RunFollows
  <2> QED BY <2>1, <2>2, <2>3, <2>5 DEF r
<1>4. CASE ReadRejected(p)
  <2>1. /\ Receives(p, "request") /\ n > admitted[p] /\ UNCHANGED call
        /\ body' = [body EXCEPT ![p][n] = "rejected"]
    BY <1>0, <1>4 DEF ReadRejected, Admits, callVars
  <2>2. /\ n \in Serials /\ body[p][n] = "none" /\ body'[p][n] = "rejected"
        /\ \A q \in Peers, c \in Serials : q # p \/ c # n => body'[q][c] = body[q][c]
    BY <1>2, <2>1
  <2> HIDE DEF r
  <2>3. \A q \in Peers, c \in Serials : FarRun(q, c)' = FarRun(q, c)
    <3>1. \A q \in Peers : Other(q) \in Peers
      BY DEF Other, Peers
    <3> QED BY <2>2, <3>1 DEF FarRun
  <2> QED BY <2>1, <2>3 DEF FarRuns
<1>5. CASE UNCHANGED <<call, body>>
  BY <1>5, NothingMoves
<1>6. ReadResponse(p) => UNCHANGED <<call, body>>
  BY DEF ReadResponse, bodyVars
<1> QED BY <1>3, <1>4, <1>5, <1>6, ReadingTakes DEF callVars, bodyVars

\* A handler that returns is the only step of a server the promise sees.
LEMMA ServingRuns ==
  ASSUME TypeOK, NEW p \in Peers, Serving(p)
  PROVE  /\ UNCHANGED call
         /\ \/ UNCHANGED FarRuns
            \/ \E s \in Serials :
                 /\ FarRun(Other(p), s) = "running"
                 /\ FarRuns' = [FarRuns EXCEPT ![<<Other(p), s>>] = "returned"]
<1> DEFINE r == Other(p)
<1>1. /\ r \in Peers /\ Other(r) = p /\ \A q \in Peers : q # r => Other(q) # p
      /\ \A q \in Peers : Other(q) \in Peers
  BY DEF Other, Peers
<1>2. UNCHANGED call
  BY DEF Serving, HandlerReturns, Deadline, DeadlineAnswers, Respond, RespondFails, BodyEnds, callVars
<1>3. PICK s \in Serials :
        \/ \E o \in {"result", "error"} : HandlerReturns(p, s, o)
        \/ Deadline(p, s) \/ DeadlineAnswers(p, s)
        \/ Respond(p, s) \/ RespondFails(p, s) \/ BodyEnds(p, s)
  BY DEF Serving
<1> HIDE DEF r
<1>4. CASE \E o \in {"result", "error"} : HandlerReturns(p, s, o)
  <2>1. body[p][s] = "running" /\ body' = [body EXCEPT ![p][s] = "returned"]
    BY <1>4 DEF HandlerReturns
  <2>2. /\ body'[p][s] = "returned"
        /\ \A q \in Peers, c \in Serials : q # p \/ c # s => body'[q][c] = body[q][c]
    BY <2>1 DEF TypeOK, BodiesTypeOK
  <2>3. FarRun(r, s) = "running" /\ FarRun(r, s)' = "returned"
    BY <1>1, <2>1, <2>2 DEF FarRun
  <2>4. \A q \in Peers, c \in Serials : q # r \/ c # s => FarRun(q, c)' = FarRun(q, c)
    BY <1>1, <2>2 DEF FarRun
  <2>5. FarRuns' = [FarRuns EXCEPT ![<<r, s>>] = "returned"]
    BY <1>1, <2>3, <2>4, RunFollows
  <2> QED BY <1>2, <2>3, <2>5 DEF r
<1>5. CASE BodyEnds(p, s)
  <2>1. body[p][s] = "returned" /\ body' = [body EXCEPT ![p][s] = "done"]
    BY <1>5 DEF BodyEnds
  <2>2. /\ body'[p][s] = "done"
        /\ \A q \in Peers, c \in Serials : q # p \/ c # s => body'[q][c] = body[q][c]
    BY <2>1 DEF TypeOK, BodiesTypeOK
  <2>3. \A q \in Peers, c \in Serials : FarRun(q, c)' = FarRun(q, c)
    BY <1>1, <2>1, <2>2 DEF FarRun
  <2> QED BY <1>2, <2>3 DEF FarRuns
<1>6. CASE UNCHANGED body
  BY <1>2, <1>6, NothingMoves
<1> QED BY <1>3, <1>4, <1>5, <1>6 DEF Deadline, DeadlineAnswers, Respond, RespondFails

-----------------------------------------------------------------------------
\* Every step of two conforming peers is a step of the promise.
LEMMA PromiseStep ==
  ASSUME ConformInv, [Next]_vars, Nonconforming = {}
  PROVE  [Abstract!Next]_<<Outcomes, FarRuns>>
<1> USE DEF ConformInv
<1>1. \A q \in Peers, c \in Serials :
        /\ <<q, c>> \in Peers \X Serials
        /\ Outcomes[<<q, c>>] = Outcome(q, c) /\ FarRuns[<<q, c>>] = FarRun(q, c)
  BY DEF Outcomes, FarRuns
<1>2. \A q \in Peers, c \in Serials : ~Published(q, c) => FarRun(q, c) = "none"
  <2>1. \A q \in Peers, c \in Serials : ~Published(q, c) => body[Other(q)][c] = "none"
    BY DEF RequestsMatch
  <2> QED BY <2>1 DEF FarRun
<1>3. \A q \in Peers, c \in Serials : FarRun(q, c) = "returned" <=> Ran(Other(q), c)
  BY DEF FarRun, Ran
<1>4. ASSUME NEW p \in Peers, Calling(p) PROVE [Abstract!Next]_<<Outcomes, FarRuns>>
  <2>1. CASE UNCHANGED <<call, body>>
    BY <2>1, NothingMoves
  <2>2. ASSUME NEW s \in Serials, NEW v, UNCHANGED body, Moves(p, s, v) \/ v = Outcome(p, s),
               Outcome(p, s)' = v,
               \A q \in Peers, c \in Serials : q # p \/ c # s => Outcome(q, c)' = Outcome(q, c)
        PROVE  [Abstract!Next]_<<Outcomes, FarRuns>>
    <3> DEFINE c == <<p, s>>
    <3>1. Outcomes' = [Outcomes EXCEPT ![c] = v] /\ UNCHANGED FarRuns
      BY <2>2, OutcomeFollows, NothingMoves
    <3>2. /\ c \in Peers \X Serials
          /\ Outcomes[c] = Outcome(p, s) /\ FarRuns[c] = FarRun(p, s)
      BY <1>1
    <3>3. CASE v = Outcome(p, s)
      <4>1. \A q \in Peers, d \in Serials : Outcome(q, d)' = Outcome(q, d)
        BY <2>2, <3>3
      <4>2. UNCHANGED Outcomes
        BY <4>1 DEF Outcomes
      <4> QED BY <3>1, <4>2
    <3> HIDE DEF c
    <3>4. CASE Outcome(p, s) = "none" /\ v = "open"
      <4>1. Abstract!Begin(c)
        BY <3>1, <3>2, <3>4 DEF Abstract!Begin
      <4> QED BY <3>2, <4>1 DEF Abstract!Next
    <3>5. CASE Outcome(p, s) \in {"none", "open"} /\ ~Published(p, s) /\ v = "unpublished"
      <4>1. Abstract!NeverPublished(c)
        BY <1>2, <3>1, <3>2, <3>5 DEF Abstract!NeverPublished
      <4> QED BY <3>2, <4>1 DEF Abstract!Next
    <3>6. CASE Outcome(p, s) = "open" /\ reply[p][s] = "result" /\ v = "result"
      <4>1. FarRun(p, s) = "returned"
        BY <1>3, <3>6 DEF AnswersMatch, Other, Peers
      <4>2. Abstract!Succeed(c)
        BY <3>1, <3>2, <3>6, <4>1 DEF Abstract!Succeed
      <4> QED BY <3>2, <4>2 DEF Abstract!Next
    <3>7. CASE Outcome(p, s) = "open" /\ v \in Abstract!Refusals
      <4>1. Abstract!Fail(c)
        BY <3>1, <3>2, <3>7 DEF Abstract!Fail
      <4> QED BY <3>2, <4>1 DEF Abstract!Next
    <3> QED BY <2>2, <3>3, <3>4, <3>5, <3>6, <3>7 DEF Moves
  <2> QED BY <1>4, <2>1, <2>2, CallingMoves, NothingMoves
<1>5. ASSUME NEW p \in Peers, Reading(p) PROVE [Abstract!Next]_<<Outcomes, FarRuns>>
  <2>1. UNCHANGED Outcomes
    BY <1>5, ReadingRuns, NothingMoves
  <2>2. ASSUME NEW s \in Serials, Published(Other(p), s), FarRun(Other(p), s) = "none",
               FarRuns' = [FarRuns EXCEPT ![<<Other(p), s>>] = "running"]
        PROVE  [Abstract!Next]_<<Outcomes, FarRuns>>
    <3> DEFINE c == <<Other(p), s>>
    <3>1. /\ c \in Peers \X Serials
          /\ Outcomes[c] = Outcome(Other(p), s) /\ FarRuns[c] = "none"
      BY <1>1, <2>2 DEF Other, Peers
    <3>2. Outcome(Other(p), s) \notin {"none", "unpublished"}
      BY <2>2 DEF Published, Outcome, Live
    <3>3. FarRuns' = [FarRuns EXCEPT ![c] = "running"]
      BY <2>2
    <3> HIDE DEF c
    <3>4. Abstract!Start(c)
      BY <2>1, <3>1, <3>2, <3>3 DEF Abstract!Start
    <3> QED BY <3>1, <3>4 DEF Abstract!Next
  <2> QED BY <1>5, <2>1, <2>2, ReadingRuns
<1>6. ASSUME NEW p \in Peers, Serving(p) PROVE [Abstract!Next]_<<Outcomes, FarRuns>>
  <2>1. UNCHANGED Outcomes
    BY <1>6, ServingRuns, NothingMoves
  <2>2. ASSUME NEW s \in Serials, FarRun(Other(p), s) = "running",
               FarRuns' = [FarRuns EXCEPT ![<<Other(p), s>>] = "returned"]
        PROVE  [Abstract!Next]_<<Outcomes, FarRuns>>
    <3> DEFINE c == <<Other(p), s>>
    <3>1. c \in Peers \X Serials /\ FarRuns[c] = "running"
      BY <1>1, <2>2 DEF Other, Peers
    <3>2. FarRuns' = [FarRuns EXCEPT ![c] = "returned"]
      BY <2>2
    <3> HIDE DEF c
    <3>3. Abstract!Return(c)
      BY <2>1, <3>1, <3>2 DEF Abstract!Return
    <3> QED BY <3>1, <3>3 DEF Abstract!Next
  <2> QED BY <1>6, <2>1, <2>2, ServingRuns
<1>7. ASSUME NEW p \in Peers, Writing(p) \/ Eventing(p) \/ Ending(p)
      PROVE  [Abstract!Next]_<<Outcomes, FarRuns>>
  <2>1. UNCHANGED <<callVars, bodyVars>>
    BY <1>7 DEF Writing, WriterTake, WriterSend, WriterFails, Eventing, Emit, EmitTimeout, EventTake,
                EventHandled, EventPanics, Ending, Close, ContextEnds
  <2> QED BY <2>1, NothingMoves DEF callVars, bodyVars
<1>8. CASE UNCHANGED vars
  BY <1>8, NothingMoves DEF vars, callVars, bodyVars
<1>9. ASSUME NEW p \in Peers, NEW f \in StrayFrames, Stray(p, f) PROVE FALSE
  BY <1>9 DEF Stray
<1> QED BY <1>4, <1>5, <1>6, <1>7, <1>8, <1>9 DEF Next

LEMMA PromiseInit == Init => Abstract!Init
<1> SUFFICES ASSUME Init PROVE Abstract!Init
  OBVIOUS
<1>1. \A p \in Peers : Other(p) \in Peers
  BY DEF Other, Peers
<1>2. \A p \in Peers, s \in Serials : Outcome(p, s) = "none" /\ FarRun(p, s) = "none"
  BY <1>1 DEF Init, PerSerial, Outcome, Live, FarRun
<1> QED BY <1>2 DEF Abstract!Init, Outcomes, FarRuns

\* Two conforming peers keep the promise of RequestReply: a handler runs at most
\* once for a call, success is reported only after it returned, and an error marked
\* Unpublished is a proof that it never runs.  The invariant carries the three:
\* a body exists only for a call that was published, and a result is on the way, or
\* in, only for a body that returned.
THEOREM PeersKeepThePromise == ASSUME Nonconforming = {} PROVE Spec => KeepsPromise
<1>1. Init => ConformInv /\ Abstract!Init
  BY InitConform, PromiseInit
<1>2. ConformInv /\ [Next]_vars => ConformInv'
  BY ConformStep
<1>3. ConformInv /\ [Next]_vars => [Abstract!Next]_<<Outcomes, FarRuns>>
  BY PromiseStep
<1> QED BY <1>1, <1>2, <1>3, PTL DEF Spec, KeepsPromise, Abstract!Spec

-----------------------------------------------------------------------------
(* Events.                                                                 *)

\* The events in a sequence of frames are lo + 1, ..., hi, in this order.
IsEvent(f) == f.kind = "event"
Runs(q, lo, hi) ==
  /\ lo <= hi
  /\ \A i \in 1 .. Len(q) : IsEvent(q[i]) => lo < q[i].id /\ q[i].id <= hi
  /\ \A k \in lo + 1 .. hi : \E i \in 1 .. Len(q) : IsEvent(q[i]) /\ q[i].id = k
  /\ \A i, j \in 1 .. Len(q) : i < j /\ IsEvent(q[i]) /\ IsEvent(q[j]) => q[i].id < q[j].id

\* d is q with f put in behind the first m frames.
Around(d, q, m, f) ==
  /\ Len(d) = Len(q) + 1
  /\ \A i \in 1 .. m : d[i] = q[i]
  /\ d[m + 1] = f
  /\ \A i \in m + 1 .. Len(q) : d[i + 1] = q[i]

\* A frame that is no event, put in anywhere, changes nothing about the events.
LEMMA RunsAround ==
  ASSUME NEW q \in Seq(Frame), NEW d \in Seq(Frame), NEW f, ~IsEvent(f), NEW m \in 0 .. Len(q),
         NEW lo \in Int, NEW hi \in Int, Runs(q, lo, hi), Around(d, q, m, f)
  PROVE  Runs(d, lo, hi)
<1>0. /\ Len(d) = Len(q) + 1 /\ d[m + 1] = f
      /\ \A i \in 1 .. m : d[i] = q[i]
      /\ \A i \in m + 1 .. Len(q) : d[i + 1] = q[i]
  BY DEF Around
<1> DEFINE back(i) == IF i <= m THEN i ELSE i - 1
<1>1. Len(q) \in Nat /\ Len(d) \in Nat /\ m \in Nat /\ m <= Len(q)
  BY <1>0
<1>2. \A i \in 1 .. Len(d) : i # m + 1 => back(i) \in 1 .. Len(q) /\ d[i] = q[back(i)]
  <2> SUFFICES ASSUME NEW i \in 1 .. Len(d), i # m + 1
               PROVE  back(i) \in 1 .. Len(q) /\ d[i] = q[back(i)]
    OBVIOUS
  <2>1. CASE i <= m
    BY <1>0, <1>1, <2>1
  <2>2. CASE i > m
    <3>1. i - 1 \in m + 1 .. Len(q) /\ (i - 1) + 1 = i
      BY <1>0, <1>1, <2>2
    <3>2. d[(i - 1) + 1] = q[i - 1]
      BY <1>0, <3>1
    <3> QED BY <1>0, <1>1, <2>2, <3>1, <3>2
  <2> QED BY <1>0, <1>1, <2>1, <2>2
<1>3. \A i \in 1 .. Len(d) : IsEvent(d[i]) => i # m + 1 /\ back(i) \in 1 .. Len(q) /\ d[i] = q[back(i)]
  BY <1>0, <1>2
<1>4. \A i, j \in 1 .. Len(d) : i < j /\ i # m + 1 /\ j # m + 1 => back(i) < back(j)
  BY <1>0, <1>1
<1>5. \A k \in 1 .. Len(q) : \E i \in 1 .. Len(d) : d[i] = q[k]
  <2> SUFFICES ASSUME NEW k \in 1 .. Len(q) PROVE \E i \in 1 .. Len(d) : d[i] = q[k]
    OBVIOUS
  <2>1. CASE k <= m
    BY <1>0, <1>1, <2>1
  <2>2. CASE k > m
    <3>1. k \in m + 1 .. Len(q) /\ k + 1 \in 1 .. Len(d)
      BY <1>0, <1>1, <2>2
    <3> QED BY <1>0, <3>1
  <2> QED BY <1>0, <1>1, <2>1, <2>2
<1> HIDE DEF back
<1>6. \A i \in 1 .. Len(d) : IsEvent(d[i]) => lo < d[i].id /\ d[i].id <= hi
  BY <1>3 DEF Runs
<1>7. \A k \in lo + 1 .. hi : \E i \in 1 .. Len(d) : IsEvent(d[i]) /\ d[i].id = k
  <2> SUFFICES ASSUME NEW k \in lo + 1 .. hi
               PROVE  \E i \in 1 .. Len(d) : IsEvent(d[i]) /\ d[i].id = k
    OBVIOUS
  <2>1. PICK j \in 1 .. Len(q) : IsEvent(q[j]) /\ q[j].id = k
    BY DEF Runs
  <2>2. PICK i \in 1 .. Len(d) : d[i] = q[j]
    BY <1>5
  <2> QED BY <2>1, <2>2
<1>8. \A i, j \in 1 .. Len(d) : i < j /\ IsEvent(d[i]) /\ IsEvent(d[j]) => d[i].id < d[j].id
  BY <1>3, <1>4 DEF Runs
<1> QED BY <1>6, <1>7, <1>8 DEF Runs

LEMMA RunsBehind ==
  ASSUME NEW q \in Seq(Frame), NEW f \in Frame, NEW lo \in Int, NEW hi \in Int, Runs(q, lo, hi)
  PROVE  /\ ~IsEvent(f) => Runs(Append(q, f), lo, hi)
         /\ IsEvent(f) /\ f.id = hi + 1 => Runs(Append(q, f), lo, hi + 1)
<1> DEFINE a == Append(q, f)
<1>1. /\ Len(q) \in Nat /\ Len(a) = Len(q) + 1
      /\ \A i \in 1 .. Len(q) : a[i] = q[i]
      /\ a[Len(q) + 1] = f
      /\ \A i \in 1 .. Len(a) : i \in 1 .. Len(q) \/ i = Len(q) + 1
  BY Behind
<1>2. a \in Seq(Frame)
  OBVIOUS
<1> HIDE DEF a
<1>3. ASSUME ~IsEvent(f) PROVE Runs(a, lo, hi)
  <2>1. Len(q) \in 0 .. Len(q) /\ \A i \in Len(q) + 1 .. Len(q) : a[i + 1] = q[i]
    BY <1>1
  <2>2. Around(a, q, Len(q), f)
    BY <1>1, <1>2, <1>3, <2>1 DEF Around
  <2> QED BY <1>1, <1>2, <1>3, <2>1, <2>2, RunsAround
<1>4. ASSUME IsEvent(f), f.id = hi + 1 PROVE Runs(a, lo, hi + 1)
  <2>1. \A i \in 1 .. Len(q) : i \in 1 .. Len(a)
    BY <1>1
  <2>2. Len(q) + 1 \in 1 .. Len(a)
    BY <1>1
  <2>3. \A i \in 1 .. Len(a) : IsEvent(a[i]) => lo < a[i].id /\ a[i].id <= hi + 1
    <3> SUFFICES ASSUME NEW i \in 1 .. Len(a), IsEvent(a[i])
                 PROVE  lo < a[i].id /\ a[i].id <= hi + 1
      OBVIOUS
    <3>1. CASE i \in 1 .. Len(q)
      <4>1. lo < q[i].id /\ q[i].id <= hi /\ a[i] = q[i] /\ q[i] \in Frame
        BY <1>1, <3>1 DEF Runs
      <4>2. q[i].id \in Nat
        BY <4>1 DEF Frame
      <4> QED BY <4>1, <4>2
    <3> QED BY <1>1, <1>4, <3>1 DEF Runs
  <2>4. \A k \in lo + 1 .. hi + 1 : \E i \in 1 .. Len(a) : IsEvent(a[i]) /\ a[i].id = k
    <3> SUFFICES ASSUME NEW k \in lo + 1 .. hi + 1
                 PROVE  \E i \in 1 .. Len(a) : IsEvent(a[i]) /\ a[i].id = k
      OBVIOUS
    <3>1. CASE k = hi + 1
      BY <1>1, <1>4, <2>2, <3>1
    <3>2. CASE k # hi + 1
      <4>1. k \in lo + 1 .. hi
        BY <3>2
      <4>2. PICK i \in 1 .. Len(q) : IsEvent(q[i]) /\ q[i].id = k
        BY <4>1 DEF Runs
      <4> QED BY <1>1, <2>1, <4>2
    <3> QED BY <3>1, <3>2
  <2>5. \A i, j \in 1 .. Len(a) : i < j /\ IsEvent(a[i]) /\ IsEvent(a[j]) => a[i].id < a[j].id
    <3> SUFFICES ASSUME NEW i \in 1 .. Len(a), NEW j \in 1 .. Len(a), i < j,
                        IsEvent(a[i]), IsEvent(a[j])
                 PROVE  a[i].id < a[j].id
      OBVIOUS
    <3>1. i \in 1 .. Len(q) /\ a[i] = q[i]
      BY <1>1
    <3>2. CASE j \in 1 .. Len(q)
      BY <1>1, <3>1, <3>2 DEF Runs
    <3>3. CASE j = Len(q) + 1
      <4>1. q[i].id <= hi /\ q[i] \in Frame
        BY <3>1 DEF Runs
      <4>2. q[i].id \in Nat
        BY <4>1 DEF Frame
      <4> QED BY <1>1, <1>4, <3>1, <3>3, <4>1, <4>2
    <3> QED BY <1>1, <3>2, <3>3
  <2> QED BY <2>3, <2>4, <2>5 DEF Runs
<1> QED BY <1>3, <1>4 DEF a

LEMMA RunsAhead ==
  ASSUME NEW q \in Seq(Frame), q # <<>>, NEW lo \in Int, NEW hi \in Int, Runs(q, lo, hi)
  PROVE  /\ ~IsEvent(Head(q)) => Runs(Tail(q), lo, hi)
         /\ IsEvent(Head(q)) => Head(q).id = lo + 1 /\ Runs(Tail(q), lo + 1, hi)
<1> DEFINE t == Tail(q)
<1>1. /\ Len(q) \in Nat /\ 1 \in 1 .. Len(q) /\ Head(q) = q[1]
      /\ \A i \in 1 .. Len(t) : t[i] = q[i + 1] /\ i + 1 \in 1 .. Len(q)
      /\ \A i \in 1 .. Len(q) : i = 1 \/ (i - 1 \in 1 .. Len(t) /\ q[i] = t[i - 1])
  BY Ahead
<1>2. \A i \in 1 .. Len(q) : q[i] \in Frame /\ q[i].id \in Nat
  <2>1. \A i \in 1 .. Len(q) : q[i] \in Frame
    OBVIOUS
  <2> QED BY <2>1 DEF Frame
<1> HIDE DEF t
<1>3. \A i, j \in 1 .. Len(t) : i < j /\ IsEvent(t[i]) /\ IsEvent(t[j]) => t[i].id < t[j].id
  <2> SUFFICES ASSUME NEW i \in 1 .. Len(t), NEW j \in 1 .. Len(t), i < j, IsEvent(t[i]), IsEvent(t[j])
               PROVE  t[i].id < t[j].id
    OBVIOUS
  <2>1. /\ t[i] = q[i + 1] /\ i + 1 \in 1 .. Len(q) /\ t[j] = q[j + 1] /\ j + 1 \in 1 .. Len(q)
        /\ i + 1 < j + 1
    BY <1>1
  <2> QED BY <2>1 DEF Runs
<1>4. ASSUME ~IsEvent(Head(q)) PROVE Runs(t, lo, hi)
  <2>1. \A i \in 1 .. Len(t) : IsEvent(t[i]) => lo < t[i].id /\ t[i].id <= hi
    BY <1>1 DEF Runs
  <2>2. \A k \in lo + 1 .. hi : \E i \in 1 .. Len(t) : IsEvent(t[i]) /\ t[i].id = k
    <3> SUFFICES ASSUME NEW k \in lo + 1 .. hi PROVE \E i \in 1 .. Len(t) : IsEvent(t[i]) /\ t[i].id = k
      OBVIOUS
    <3>1. PICK j \in 1 .. Len(q) : IsEvent(q[j]) /\ q[j].id = k
      BY DEF Runs
    <3>2. j # 1
      BY <1>1, <1>4, <3>1
    <3> QED BY <1>1, <3>1, <3>2
  <2> QED BY <1>3, <2>1, <2>2 DEF Runs
<1>5. ASSUME IsEvent(Head(q)) PROVE Head(q).id = lo + 1 /\ Runs(t, lo + 1, hi)
  <2>1. lo < q[1].id /\ q[1].id <= hi /\ q[1].id \in Nat
    BY <1>1, <1>2, <1>5 DEF Runs
  <2>2. PICK i \in 1 .. Len(q) : IsEvent(q[i]) /\ q[i].id = lo + 1
    <3>1. lo + 1 \in lo + 1 .. hi
      BY <2>1
    <3> QED BY <3>1 DEF Runs
  <2>3. i = 1
    <3>1. ASSUME 1 < i PROVE FALSE
      <4>1. q[1].id < q[i].id
        BY <1>1, <1>5, <2>2, <3>1 DEF Runs
      <4> QED BY <2>1, <2>2, <4>1
    <3> QED BY <3>1
  <2>4. q[1].id = lo + 1
    BY <2>2, <2>3
  <2>5. \A j \in 1 .. Len(t) : IsEvent(t[j]) => lo + 1 < t[j].id /\ t[j].id <= hi
    <3> SUFFICES ASSUME NEW j \in 1 .. Len(t), IsEvent(t[j]) PROVE lo + 1 < t[j].id /\ t[j].id <= hi
      OBVIOUS
    <3>1. t[j] = q[j + 1] /\ j + 1 \in 1 .. Len(q) /\ 1 < j + 1
      BY <1>1
    <3>2. q[1].id < q[j + 1].id
      BY <1>1, <1>5, <3>1 DEF Runs
    <3> QED BY <2>4, <3>1, <3>2 DEF Runs
  <2>6. \A k \in lo + 1 + 1 .. hi : \E j \in 1 .. Len(t) : IsEvent(t[j]) /\ t[j].id = k
    <3> SUFFICES ASSUME NEW k \in lo + 1 + 1 .. hi PROVE \E j \in 1 .. Len(t) : IsEvent(t[j]) /\ t[j].id = k
      OBVIOUS
    <3>1. k \in lo + 1 .. hi /\ k # lo + 1
      OBVIOUS
    <3>2. PICK j \in 1 .. Len(q) : IsEvent(q[j]) /\ q[j].id = k
      BY <3>1 DEF Runs
    <3> QED BY <1>1, <2>4, <3>1, <3>2
  <2>7. lo + 1 <= hi
    BY <2>1
  <2> QED BY <1>1, <1>3, <2>4, <2>5, <2>6, <2>7 DEF Runs
<1> QED BY <1>4, <1>5 DEF t

\* A stray frame lands on the connection, ahead of what the writer still holds.
LEMMA RunsStray ==
  ASSUME NEW n \in Seq(Frame), NEW h \in Seq(Frame), NEW o \in Seq(Frame), NEW f \in Frame,
         ~IsEvent(f), NEW lo \in Int, NEW hi \in Int, Runs(n \o h \o o, lo, hi)
  PROVE  Runs(Append(n, f) \o h \o o, lo, hi)
<1>0. PICK a \in Seq(Frame) : a = Append(n, f)
  BY AppendProperties
<1> DEFINE r == h \o o
           q == n \o r
           d == a \o r
<1>1. r \in Seq(Frame) /\ q = n \o h \o o /\ d = a \o h \o o
  <2>1. r \in Seq(Frame)
    BY ConcatProperties
  <2>2. (n \o h) \o o = n \o (h \o o)
    BY ConcatAssociative, SMTT(30)
  <2>3. (a \o h) \o o = a \o (h \o o)
    BY <2>1, ConcatAssociative, SMTT(30)
  <2> QED BY <2>1, <2>2, <2>3
<1>2. /\ Len(n) \in Nat /\ Len(a) = Len(n) + 1 /\ \A i \in 1 .. Len(n) : a[i] = n[i]
      /\ a[Len(n) + 1] = f /\ Len(r) \in Nat
  BY <1>0, <1>1, Behind, LenProperties
<1>3. /\ q \in Seq(Frame) /\ Len(q) = Len(n) + Len(r)
      /\ \A i \in 1 .. Len(n) + Len(r) : q[i] = IF i <= Len(n) THEN n[i] ELSE r[i - Len(n)]
  BY <1>1, ConcatProperties
<1>4. /\ d \in Seq(Frame) /\ Len(d) = Len(a) + Len(r)
      /\ \A i \in 1 .. Len(a) + Len(r) : d[i] = IF i <= Len(a) THEN a[i] ELSE r[i - Len(a)]
  BY <1>1, ConcatProperties
<1> HIDE DEF r, q, d
<1>5. /\ Len(n) \in 0 .. Len(q) /\ Len(d) = Len(q) + 1
      /\ \A i \in 1 .. Len(n) : d[i] = q[i]
      /\ d[Len(n) + 1] = f
  <2>1. Len(n) \in 0 .. Len(q) /\ Len(d) = Len(q) + 1
    BY <1>2, <1>3, <1>4
  <2>2. \A i \in 1 .. Len(n) : d[i] = a[i] /\ q[i] = n[i]
    BY <1>2, <1>3, <1>4
  <2>3. d[Len(n) + 1] = a[Len(n) + 1]
    <3>1. Len(n) + 1 \in 1 .. Len(a) + Len(r) /\ Len(n) + 1 <= Len(a)
      BY <1>2
    <3> QED BY <1>4, <3>1
  <2> QED BY <1>2, <2>1, <2>2, <2>3
<1>6. \A i \in Len(n) + 1 .. Len(q) : d[i + 1] = q[i]
  <2> SUFFICES ASSUME NEW i \in Len(n) + 1 .. Len(q) PROVE d[i + 1] = q[i]
    OBVIOUS
  <2>1. /\ i \in 1 .. Len(n) + Len(r) /\ ~(i <= Len(n))
        /\ i + 1 \in 1 .. Len(a) + Len(r) /\ ~(i + 1 <= Len(a)) /\ (i + 1) - Len(a) = i - Len(n)
    BY <1>2, <1>3
  <2>2. q[i] = r[i - Len(n)]
    BY <1>3, <2>1
  <2>3. d[i + 1] = r[(i + 1) - Len(a)]
    BY <1>4, <2>1
  <2> QED BY <2>1, <2>2, <2>3
<1>7. Runs(q, lo, hi)
  BY <1>1
<1>8. Runs(d, lo, hi)
  <2>1. PICK m \in 0 .. Len(q) : m = Len(n)
    BY <1>5
  <2>2. /\ \A i \in 1 .. m : d[i] = q[i]
        /\ \A i \in m + 1 .. Len(q) : d[i + 1] = q[i]
        /\ d[m + 1] = f /\ Len(d) = Len(q) + 1 /\ q \in Seq(Frame) /\ d \in Seq(Frame)
    BY <1>3, <1>4, <1>5, <1>6, <2>1
  <2>3. Around(d, q, m, f)
    BY <2>2 DEF Around
  <2> QED BY <1>7, <2>2, <2>3, RunsAround
<1> QED BY <1>0, <1>1, <1>8

\* What a peer has read of the other side's events: handed to a handler, in the
\* queue, or held by the reader.
Taken(p) == delivered[p] + Len(events[p]) + (IF held[p] = 0 THEN 0 ELSE 1)

\* The queue continues where the handlers are, the held event where the queue ends.
QueuedInOrder(p) ==
  /\ \A i \in 1 .. Len(events[p]) : events[p][i] = delivered[p] + i
  /\ held[p] # 0 => held[p] = Taken(p)

EventOrder == \A p \in Peers :
  Runs(Path(p), Taken(Other(p)), emitted[p]) /\ QueuedInOrder(p)

EventInv == TypeOK /\ HandHolds /\ EventOrder

LEMMA TakenTypes ==
  ASSUME TypeOK, NEW p \in Peers
  PROVE  /\ delivered[p] \in Nat /\ held[p] \in Nat /\ emitted[p] \in Nat
         /\ events[p] \in Seq(Nat) /\ Len(events[p]) \in Nat /\ Taken(p) \in Nat
BY PeerAssumption DEF TypeOK, EventsTypeOK, Taken

\* A step that touches no event: it moves nothing, or queues and reads other frames.
LEMMA EventsApart ==
  ASSUME TypeOK, EventOrder, UNCHANGED <<held, events, delivered, emitted>>,
         \A q \in Peers :
           \/ Path(q)' = Path(q)
           \/ \E f \in Frame : ~IsEvent(f) /\ Path(q)' = Append(Path(q), f)
           \/ Path(q) # <<>> /\ ~IsEvent(Head(Path(q))) /\ Path(q)' = Tail(Path(q))
  PROVE  EventOrder'
<1> SUFFICES ASSUME NEW q \in Peers
             PROVE  Runs(Path(q)', Taken(Other(q))', emitted'[q]) /\ QueuedInOrder(q)'
  BY DEF EventOrder
<1>1. \A p \in Peers : Taken(p)' = Taken(p)
  BY DEF Taken
<1>2. QueuedInOrder(q)'
  BY <1>1 DEF EventOrder, QueuedInOrder
<1>3. /\ Path(q) \in Seq(Frame) /\ Other(q) \in Peers
      /\ Runs(Path(q), Taken(Other(q)), emitted[q])
  BY PathTypes DEF EventOrder, Other, Peers
<1>4. Taken(Other(q)) \in Int /\ emitted[q] \in Int
  BY <1>3, TakenTypes
<1>5. Runs(Path(q)', Taken(Other(q)), emitted[q])
  <2>1. CASE \E f \in Frame : ~IsEvent(f) /\ Path(q)' = Append(Path(q), f)
    BY <1>3, <1>4, <2>1, RunsBehind
  <2>2. CASE Path(q) # <<>> /\ ~IsEvent(Head(Path(q))) /\ Path(q)' = Tail(Path(q))
    BY <1>3, <1>4, <2>2, RunsAhead
  <2> QED BY <1>3, <2>1, <2>2
<1> QED BY <1>1, <1>2, <1>3, <1>5

\* What a reader takes that is no event.
LEMMA EventsReadPast ==
  ASSUME TypeOK, EventOrder, NEW p \in Peers,
         NEW kind \in {"request", "response", "cancel"}, Receives(p, kind), Consume(p),
         UNCHANGED hand, UNCHANGED <<held, events, delivered, emitted>>,
         UNCHANGED outputs \/ \E f \in Frame : ~IsEvent(f) /\ Enqueue(p, f)
  PROVE  EventOrder'
<1> DEFINE r == Other(p)
<1>1. \A q \in Peers : q = p \/ q = r
  BY DEF Other, Peers
<1>2. /\ Path(r) # <<>> /\ Head(Path(r)) = Received(p) /\ Path(r)' = Tail(Path(r))
      /\ UNCHANGED outputs => Path(p)' = Path(p)
      /\ \A f \in Frame : Enqueue(p, f) => Path(p)' = Append(Path(p), f)
  BY PathReads
<1>3. ~IsEvent(Received(p))
  BY DEF Receives, Received, IsEvent
<1> HIDE DEF r
<1> QED BY <1>1, <1>2, <1>3, EventsApart

\* Numbers in sequence: one more behind, one less ahead.
LEMMA NumbersBehind ==
  ASSUME NEW e \in Seq(Nat), NEW d \in Nat, \A i \in 1 .. Len(e) : e[i] = d + i,
         NEW n \in Nat, n = d + Len(e) + 1
  PROVE  /\ Len(Append(e, n)) = Len(e) + 1
         /\ \A i \in 1 .. Len(Append(e, n)) : Append(e, n)[i] = d + i
<1>1. /\ Len(e) \in Nat /\ Len(Append(e, n)) = Len(e) + 1
      /\ \A i \in 1 .. Len(e) : Append(e, n)[i] = e[i]
      /\ Append(e, n)[Len(e) + 1] = n
  BY AppendProperties, LenProperties
<1>2. \A i \in 1 .. Len(Append(e, n)) : i \in 1 .. Len(e) \/ i = Len(e) + 1
  BY <1>1
<1> QED BY <1>1, <1>2

LEMMA NumbersAhead ==
  ASSUME NEW e \in Seq(Nat), e # <<>>, NEW d \in Nat, \A i \in 1 .. Len(e) : e[i] = d + i
  PROVE  /\ Head(e) = d + 1 /\ Len(Tail(e)) = Len(e) - 1
         /\ \A i \in 1 .. Len(Tail(e)) : Tail(e)[i] = d + 1 + i
<1>1. /\ Len(e) \in Nat /\ Len(e) >= 1 /\ Head(e) = e[1] /\ Len(Tail(e)) = Len(e) - 1
      /\ \A i \in 1 .. Len(Tail(e)) : Tail(e)[i] = e[i + 1]
  BY HeadTailProperties
<1>2. \A i \in 1 .. Len(Tail(e)) : i + 1 \in 1 .. Len(e) /\ d + (i + 1) = d + 1 + i
  BY <1>1
<1> QED BY <1>1, <1>2

\* An event leaves the connection for the queue, or for the reader's hand.
LEMMA EventsRead ==
  ASSUME TypeOK, EventOrder, NEW p \in Peers, ReadEvent(p)
  PROVE  EventOrder'
<1>0. PICK r \in Peers : r = Other(p)
  BY DEF Other, Peers
<1>1. r # p /\ Other(r) = p /\ \A q \in Peers : q = p \/ q = r
  BY <1>0 DEF Other, Peers
<1>2. Receives(p, "event") /\ Consume(p) /\ UNCHANGED <<delivered, emitted, outputs, hand>>
  BY DEF ReadEvent
<1>3. PICK n \in Nat : n = Received(p).id
  BY <1>2, ReceivedTypes
<1>4. IsEvent(Received(p)) /\ held[p] = 0
  BY <1>2 DEF Receives, Received, IsEvent
<1>5. /\ Path(r) # <<>> /\ Head(Path(r)) = Received(p) /\ Path(r)' = Tail(Path(r))
      /\ Path(p)' = Path(p)
  BY <1>0, <1>2, PathReads
<1>6. Path(r) \in Seq(Frame) /\ Runs(Path(r), Taken(p), emitted[r])
  BY <1>1, PathTypes DEF EventOrder
<1>7. /\ delivered[p] \in Nat /\ emitted[r] \in Nat /\ events[p] \in Seq(Nat)
      /\ Len(events[p]) \in Nat /\ Taken(p) \in Nat
  BY TakenTypes
<1>8. n = Taken(p) + 1 /\ Runs(Path(r)', Taken(p) + 1, emitted[r])
  <2>1. PICK q \in Seq(Frame) : q = Path(r)
    BY <1>6
  <2>2. q # <<>> /\ IsEvent(Head(q)) /\ Head(q).id = n /\ Path(r)' = Tail(q)
    BY <1>3, <1>4, <1>5, <2>1
  <2>3. Head(q).id = Taken(p) + 1 /\ Runs(Tail(q), Taken(p) + 1, emitted[r])
    BY <1>6, <1>7, <2>1, <2>2, RunsAhead
  <2> QED BY <2>2, <2>3
<1>9. Taken(p) = delivered[p] + Len(events[p])
  BY <1>4, <1>7 DEF Taken
<1>10. \A i \in 1 .. Len(events[p]) : events[p][i] = delivered[p] + i
  BY DEF EventOrder, QueuedInOrder
<1>11. Taken(p)' = Taken(p) + 1 /\ QueuedInOrder(p)'
  <2>1. CASE Len(events[p]) < QueueCapacity
    <3>1. events'[p] = Append(events[p], n) /\ held'[p] = 0 /\ delivered'[p] = delivered[p]
      BY <1>2, <1>3, <1>4, <2>1 DEF ReadEvent, TypeOK, EventsTypeOK
    <3>2. n = delivered[p] + Len(events[p]) + 1
      BY <1>8, <1>9
    <3>3. /\ Len(Append(events[p], n)) = Len(events[p]) + 1
          /\ \A i \in 1 .. Len(Append(events[p], n)) : Append(events[p], n)[i] = delivered[p] + i
      BY <1>7, <1>10, <3>2, NumbersBehind
    <3>4. /\ Taken(p)' = Taken(p) + 1
          /\ \A i \in 1 .. Len(events'[p]) : events'[p][i] = delivered'[p] + i
      BY <1>7, <1>9, <3>1, <3>3 DEF Taken
    <3> QED BY <3>1, <3>4 DEF QueuedInOrder
  <2>2. CASE ~(Len(events[p]) < QueueCapacity)
    <3>1. events'[p] = events[p] /\ held'[p] = n /\ delivered'[p] = delivered[p]
      BY <1>2, <1>3, <2>2 DEF ReadEvent, TypeOK, EventsTypeOK
    <3>2. Taken(p)' = Taken(p) + 1 /\ n # 0
      BY <1>7, <1>8, <1>9, <3>1 DEF Taken
    <3> QED BY <1>8, <1>10, <3>1, <3>2 DEF QueuedInOrder
  <2> QED BY <2>1, <2>2
<1>12. Taken(r)' = Taken(r) /\ QueuedInOrder(r)'
  <2>1. events'[r] = events[r] /\ held'[r] = held[r] /\ delivered'[r] = delivered[r]
    BY <1>1, <1>2 DEF ReadEvent, TypeOK, EventsTypeOK
  <2> QED BY <2>1 DEF EventOrder, QueuedInOrder, Taken
<1>13. Runs(Path(p), Taken(r), emitted[p])
  BY <1>0 DEF EventOrder
<1>14. Runs(Path(p)', Taken(r)', emitted'[p]) /\ Runs(Path(r)', Taken(p)', emitted'[r])
  BY <1>2, <1>5, <1>8, <1>11, <1>12, <1>13
<1>15. ASSUME NEW q \in Peers
       PROVE  Runs(Path(q)', Taken(Other(q))', emitted'[q]) /\ QueuedInOrder(q)'
  BY <1>0, <1>1, <1>11, <1>12, <1>14
<1> QED BY <1>15 DEF EventOrder

\* The queue moves on: the reader finds room, or the event loop takes the head.
LEMMA EventsQueued ==
  ASSUME TypeOK, EventOrder, NEW p \in Peers, EventRoom(p) \/ EventTake(p)
  PROVE  EventOrder'
<1>1. /\ delivered[p] \in Nat /\ held[p] \in Nat /\ events[p] \in Seq(Nat)
      /\ Len(events[p]) \in Nat /\ Taken(p) \in Nat
  BY TakenTypes
<1>2. /\ \A i \in 1 .. Len(events[p]) : events[p][i] = delivered[p] + i
      /\ held[p] # 0 => held[p] = Taken(p)
  BY DEF EventOrder, QueuedInOrder
<1>3. UNCHANGED <<emitted, wireVars>>
  BY DEF EventRoom, EventTake
<1>4. Taken(p)' = Taken(p) /\ QueuedInOrder(p)'
  <2>1. CASE EventRoom(p)
    <3>1. /\ held[p] # 0 /\ events'[p] = Append(events[p], held[p]) /\ held'[p] = 0
          /\ delivered'[p] = delivered[p]
      BY <2>1 DEF EventRoom, TypeOK, EventsTypeOK
    <3>2. Taken(p) = delivered[p] + Len(events[p]) + 1 /\ held[p] = Taken(p)
      BY <1>2, <3>1 DEF Taken
    <3>3. /\ Len(Append(events[p], held[p])) = Len(events[p]) + 1
          /\ \A i \in 1 .. Len(Append(events[p], held[p])) :
               Append(events[p], held[p])[i] = delivered[p] + i
      BY <1>1, <1>2, <3>2, NumbersBehind, SMTT(30)
    <3>4. /\ Taken(p)' = Taken(p)
          /\ \A i \in 1 .. Len(events'[p]) : events'[p][i] = delivered'[p] + i
      <4>1. Taken(p)' = delivered[p] + (Len(events[p]) + 1) + 0
        BY <3>1, <3>3 DEF Taken
      <4> QED BY <1>1, <3>1, <3>2, <3>3, <4>1, SMTT(30)
    <3> QED BY <3>1, <3>4 DEF QueuedInOrder
  <2>2. CASE EventTake(p)
    <3>1. /\ events[p] # <<>> /\ events'[p] = Tail(events[p]) /\ held'[p] = held[p]
          /\ delivered'[p] = Head(events[p])
      BY <2>2 DEF EventTake, TypeOK, EventsTypeOK
    <3>2. /\ Head(events[p]) = delivered[p] + 1 /\ Len(Tail(events[p])) = Len(events[p]) - 1
          /\ \A i \in 1 .. Len(Tail(events[p])) : Tail(events[p])[i] = delivered[p] + 1 + i
      BY <1>1, <1>2, <3>1, NumbersAhead
    <3>3. PICK k \in Nat : k = IF held[p] = 0 THEN 0 ELSE 1
      OBVIOUS
    <3>4. Taken(p)' = Taken(p)
      <4>1. Taken(p)' = delivered[p] + 1 + (Len(events[p]) - 1) + k
        BY <3>1, <3>2, <3>3 DEF Taken
      <4>2. Taken(p) = delivered[p] + Len(events[p]) + k
        BY <3>3 DEF Taken
      <4>3. \A a, b, c \in Nat : a + 1 + (b - 1) + c = a + b + c
        OBVIOUS
      <4> QED BY <1>1, <4>1, <4>2, <4>3, SMTT(30)
    <3>5. \A i \in 1 .. Len(events'[p]) : events'[p][i] = delivered'[p] + i
      BY <3>1, <3>2
    <3> QED BY <1>2, <3>1, <3>4, <3>5 DEF QueuedInOrder
  <2> QED BY <2>1, <2>2
<1>5. ASSUME NEW q \in Peers, q # p PROVE Taken(q)' = Taken(q) /\ QueuedInOrder(q)'
  <2>1. events'[q] = events[q] /\ held'[q] = held[q] /\ delivered'[q] = delivered[q]
    BY <1>5 DEF EventRoom, EventTake, TypeOK, EventsTypeOK
  <2> QED BY <2>1 DEF EventOrder, QueuedInOrder, Taken
<1>6. ASSUME NEW q \in Peers
      PROVE  Runs(Path(q)', Taken(Other(q))', emitted'[q]) /\ QueuedInOrder(q)'
  <2>1. Path(q)' = Path(q) /\ emitted'[q] = emitted[q] /\ Other(q) \in Peers
    BY <1>3, PathUnchanged DEF Other, Peers
  <2>2. Taken(Other(q))' = Taken(Other(q)) /\ QueuedInOrder(q)'
    BY <1>4, <1>5, <2>1
  <2> QED BY <2>1, <2>2 DEF EventOrder
<1> QED BY <1>6 DEF EventOrder

\* The writer's hand stays as it is, or takes what it had no frame for.
LEMMA HandStep == TypeOK /\ HandHolds /\ [Next]_vars => HandHolds'
<1> SUFFICES ASSUME TypeOK, HandHolds, [Next]_vars PROVE HandHolds'
  OBVIOUS
<1>1. CASE UNCHANGED hand
  BY <1>1 DEF HandHolds
<1>2. ASSUME NEW p \in Peers, NEW f \in Frame, hand' = [hand EXCEPT ![p] = <<f>>]
      PROVE  HandHolds'
  BY <1>2 DEF HandHolds, TypeOK, WiresTypeOK
<1>3. ASSUME NEW p \in Peers, hand' = [hand EXCEPT ![p] = <<>>]
      PROVE  HandHolds'
  BY <1>3 DEF HandHolds, TypeOK, WiresTypeOK
<1>4. ASSUME NEW p \in Peers, WriterTake(p)
      PROVE  \E f \in Frame : hand' = [hand EXCEPT ![p] = <<f>>]
  <2>1. outputs[p] \in Seq(Frame) /\ outputs[p] # <<>> /\ hand' = [hand EXCEPT ![p] = <<Head(outputs[p])>>]
    BY <1>4 DEF WriterTake, TypeOK, WiresTypeOK
  <2>2. Head(outputs[p]) \in Frame
    BY <2>1
  <2> QED BY <2>1, <2>2
<1>5. ASSUME NEW p \in Peers, Writing(p) PROVE HandHolds'
  <2>1. WriterSend(p) => hand' = [hand EXCEPT ![p] = <<>>]
    BY DEF WriterSend
  <2>2. WriterFails(p) => UNCHANGED hand
    BY DEF WriterFails, wireVars
  <2> QED BY <1>1, <1>2, <1>3, <1>4, <1>5, <2>1, <2>2 DEF Writing
<1>6. ASSUME NEW p \in Peers, Calling(p) PROVE UNCHANGED hand
  BY <1>6 DEF Calling, CallAdmit, CallRefused, CallExhausted, PublishRoom, PublishWithdrawn, PublishTimeout,
              AwaitReply, AwaitExpires, AwaitEnded, wireVars
<1>7. ASSUME NEW p \in Peers, Reading(p) PROVE UNCHANGED hand
  BY <1>7 DEF Reading, ReadRefused, ReadRequest, ReadRejected, ReadResponse, ReadCancel, ReadEvent,
              EventRoom, EventStall, ReaderFails, wireVars
<1>8. ASSUME NEW p \in Peers, Serving(p) PROVE UNCHANGED hand
  BY <1>8 DEF Serving, HandlerReturns, Deadline, DeadlineAnswers, Respond, RespondFails, BodyEnds, wireVars
<1>9. ASSUME NEW p \in Peers,
             Eventing(p) \/ Ending(p) \/ \E f \in StrayFrames : Stray(p, f)
      PROVE  UNCHANGED hand
  BY <1>9 DEF Eventing, Emit, EmitTimeout, EventTake, EventHandled, EventPanics, Ending, Close,
              ContextEnds, Stray, wireVars
<1> QED BY <1>1, <1>5, <1>6, <1>7, <1>8, <1>9 DEF Next, vars, wireVars

\* What a peer queues that is no event.
LEMMA OtherFrames ==
  /\ \A p, n, m : ~IsEvent(RequestFrame(p, n, m))
  /\ \A p, n : ~IsEvent(CancelFrame(p, n))
  /\ \A p, n, a : ~IsEvent(ResponseFrame(p, n, a))
BY DEF IsEvent, RequestFrame, CancelFrame, ResponseFrame

LEMMA EventsCalling ==
  ASSUME TypeOK, EventOrder, NEW p \in Peers, Calling(p)
  PROVE  EventOrder'
<1>1. UNCHANGED <<held, events, delivered, emitted, hand, net>>
  BY DEF Calling, CallAdmit, CallRefused, CallExhausted, PublishRoom, PublishWithdrawn, PublishTimeout,
         AwaitReply, AwaitExpires, AwaitEnded, wireVars, eventVars
<1>2. UNCHANGED outputs \/ \E f \in Frame : ~IsEvent(f) /\ Enqueue(p, f)
  <2>1. ASSUME NEW b \in 0 .. EventLoop, NEW m \in Methods, CallAdmit(p, m, b)
        PROVE  UNCHANGED outputs \/ \E f \in Frame : ~IsEvent(f) /\ Enqueue(p, f)
    <3>1. next[p] + 1 \in Nat
      BY PeerAssumption DEF TypeOK, CallsTypeOK
    <3>2. RequestFrame(p, next[p] + 1, m) \in Frame
      BY <3>1, FrameTypes
    <3> QED BY <2>1, <3>2, OtherFrames DEF CallAdmit
  <2>2. ASSUME NEW s \in Serials, NEW m \in Methods, PublishRoom(p, s, m)
        PROVE  \E f \in Frame : ~IsEvent(f) /\ Enqueue(p, f)
    <3>1. RequestFrame(p, s, m) \in Frame
      BY FrameTypes, PeerAssumption DEF Serials
    <3> QED BY <2>2, <3>1, OtherFrames DEF PublishRoom
  <2>3. ASSUME NEW s \in Serials, AwaitExpires(p, s)
        PROVE  UNCHANGED outputs \/ \E f \in Frame : ~IsEvent(f) /\ Enqueue(p, f)
    <3>1. CancelFrame(p, s) \in Frame
      BY FrameTypes, PeerAssumption DEF Serials
    <3> QED BY <2>3, <3>1, OtherFrames DEF AwaitExpires
  <2>4. ASSUME \/ \E b \in 0 .. EventLoop : CallRefused(p, b) \/ CallExhausted(p, b)
               \/ \E s \in Serials : \/ PublishWithdrawn(p, s) \/ PublishTimeout(p, s)
                                     \/ AwaitReply(p, s) \/ AwaitEnded(p, s)
        PROVE  UNCHANGED outputs
    BY <2>4 DEF CallRefused, CallExhausted, PublishWithdrawn, PublishTimeout, AwaitReply, AwaitEnded,
                wireVars
  <2> QED BY <2>1, <2>2, <2>3, <2>4 DEF Calling
<1>3. CASE UNCHANGED outputs
  BY <1>1, <1>3, PathUnchanged, EventsApart DEF wireVars
<1>4. ASSUME NEW f \in Frame, ~IsEvent(f), Enqueue(p, f) PROVE EventOrder'
  <2>1. Path(p)' = Append(Path(p), f) /\ \A q \in Peers : q # p => Path(q)' = Path(q)
    BY <1>1, <1>4, PathQueues
  <2> QED BY <1>1, <1>4, <2>1, EventsApart
<1> QED BY <1>2, <1>3, <1>4

LEMMA EventsReading ==
  ASSUME TypeOK, EventOrder, NEW p \in Peers, Reading(p)
  PROVE  EventOrder'
<1>1. CASE ReadRefused(p) \/ ReadRequest(p) \/ ReadResponse(p) \/ ReadCancel(p)
  <2>1. /\ \E kind \in {"request", "response", "cancel"} : Receives(p, kind)
        /\ Consume(p) /\ UNCHANGED <<held, events, delivered, emitted, outputs, hand>>
    BY <1>1 DEF ReadRefused, ReadRequest, ReadResponse, ReadCancel, eventVars
  <2> QED BY <2>1, EventsReadPast
<1>2. CASE ReadRejected(p)
  <2>1. /\ Receives(p, "request") /\ Consume(p) /\ UNCHANGED <<held, events, delivered, emitted, hand>>
    BY <1>2 DEF ReadRejected, eventVars
  <2>2. UNCHANGED outputs \/ \E f \in Frame : ~IsEvent(f) /\ Enqueue(p, f)
    BY <1>2, RejectionFrame, OtherFrames
  <2> QED BY <2>1, <2>2, EventsReadPast
<1>3. CASE EventStall(p) \/ ReaderFails(p)
  <2>1. UNCHANGED <<eventVars, wireVars>>
    BY <1>3 DEF EventStall, ReaderFails
  <2> QED BY <2>1, PathUnchanged, EventsApart DEF eventVars
<1> QED BY <1>1, <1>2, <1>3, EventsRead, EventsQueued DEF Reading

LEMMA EventsEmitted ==
  ASSUME TypeOK, EventOrder, NEW p \in Peers, Emit(p),
         NEW f \in Frame, f = EventFrame(p, emitted[p] + 1),
         Path(p)' = Append(Path(p), f), \A q \in Peers : q # p => Path(q)' = Path(q)
  PROVE  EventOrder'
<1>1. UNCHANGED <<held, events, delivered>> /\ emitted' = [emitted EXCEPT ![p] = @ + 1]
  BY DEF Emit
<1>2. emitted[p] \in Nat /\ emitted'[p] = emitted[p] + 1 /\ \A q \in Peers : q # p => emitted'[q] = emitted[q]
  BY <1>1, TakenTypes DEF TypeOK, EventsTypeOK
<1>3. \A q \in Peers : Taken(q)' = Taken(q) /\ QueuedInOrder(q)'
  BY <1>1 DEF EventOrder, QueuedInOrder, Taken
<1>4. Other(p) \in Peers /\ Path(p) \in Seq(Frame) /\ Runs(Path(p), Taken(Other(p)), emitted[p])
  BY PathTypes DEF EventOrder, Other, Peers
<1>5. IsEvent(f) /\ f.id = emitted[p] + 1 /\ Taken(Other(p)) \in Int /\ emitted[p] \in Int
  BY <1>2, <1>4, TakenTypes DEF IsEvent, EventFrame
<1>6. Runs(Path(p)', Taken(Other(p)), emitted[p] + 1)
  <2>1. Runs(Append(Path(p), f), Taken(Other(p)), emitted[p] + 1)
    BY <1>4, <1>5, RunsBehind
  <2> QED BY <2>1
<1>7. ASSUME NEW q \in Peers
      PROVE  Runs(Path(q)', Taken(Other(q))', emitted'[q]) /\ QueuedInOrder(q)'
  <2>1. Other(q) \in Peers
    BY DEF Other, Peers
  <2>2. CASE q = p
    BY <1>2, <1>3, <1>4, <1>6, <2>2
  <2>3. CASE q # p
    BY <1>2, <1>3, <2>1, <2>3 DEF EventOrder
  <2> QED BY <2>2, <2>3
<1> QED BY <1>7 DEF EventOrder

LEMMA EventsServing ==
  ASSUME TypeOK, EventOrder, NEW p \in Peers, Serving(p) \/ Eventing(p) \/ Ending(p)
  PROVE  EventOrder'
<1>1. CASE EventTake(p)
  BY <1>1, EventsQueued
<1>2. CASE Emit(p)
  <2>1. /\ EventFrame(p, emitted[p] + 1) \in Frame
        /\ Enqueue(p, EventFrame(p, emitted[p] + 1)) /\ UNCHANGED <<hand, net>>
    <3>1. emitted[p] + 1 \in Nat
      BY TakenTypes
    <3> QED BY <1>2, <3>1, FrameTypes DEF Emit
  <2>2. PICK f \in Frame : f = EventFrame(p, emitted[p] + 1)
    BY <2>1
  <2>3. Path(p)' = Append(Path(p), f) /\ \A q \in Peers : q # p => Path(q)' = Path(q)
    BY <2>1, <2>2, PathQueues
  <2> QED BY <1>2, <2>2, <2>3, EventsEmitted
<1>3. CASE ~EventTake(p) /\ ~Emit(p)
  <2>1. UNCHANGED <<held, events, delivered, emitted>>
    <3>1. Serving(p) => UNCHANGED <<held, events, delivered, emitted>>
      BY DEF Serving, HandlerReturns, Deadline, DeadlineAnswers, Respond, RespondFails, BodyEnds, eventVars
    <3>2. Eventing(p) \/ Ending(p) => UNCHANGED <<held, events, delivered, emitted>>
      BY <1>3 DEF Eventing, EmitTimeout, EventHandled, EventPanics, Ending, Close, ContextEnds, eventVars
    <3> QED BY <3>1, <3>2
  <2>2. CASE \A q \in Peers : Path(q)' = Path(q)
    BY <2>1, <2>2, EventsApart
  <2>3. ASSUME NEW s \in Serials, NEW f \in Frame, f = ResponseFrame(p, s, value[p][s]),
               Path(p)' = Append(Path(p), f), \A q \in Peers : q # p => Path(q)' = Path(q)
        PROVE  EventOrder'
    <3>1. ~IsEvent(f)
      BY <2>3, OtherFrames
    <3> QED BY <2>1, <2>3, <3>1, EventsApart
  <2> QED BY <1>3, <2>2, <2>3, PathServing
<1> QED BY <1>1, <1>2, <1>3

LEMMA EventsStray ==
  ASSUME TypeOK, EventOrder, NEW p \in Peers, NEW f \in StrayFrames, Stray(p, f)
  PROVE  EventOrder'
<1>1. f \in Frame /\ ~IsEvent(f)
  <2>1. PICK q \in Peers, n \in Serials, m \in Methods :
          f \in {RequestFrame(q, n, m), CancelFrame(q, n), ResponseFrame(q, n, "result")}
    BY DEF StrayFrames
  <2> QED BY <2>1, FrameTypes, OtherFrames, PeerAssumption DEF Serials, Answers
<1>2. UNCHANGED <<held, events, delivered, emitted, outputs, hand>>
  BY DEF Stray, eventVars
<1>3. net'[p] = Append(net[p], f) /\ \A q \in Peers : q # p => net'[q] = net[q]
  BY DEF Stray, TypeOK, WiresTypeOK
<1>4. ASSUME NEW q \in Peers
      PROVE  Runs(Path(q)', Taken(Other(q)), emitted[q])
  <2>1. Runs(Path(q), Taken(Other(q)), emitted[q])
    BY DEF EventOrder
  <2>2. CASE q = p
    <3>1. net[p] \in Seq(Frame) /\ hand[p] \in Seq(Frame) /\ outputs[p] \in Seq(Frame)
      BY OrderTypes
    <3>2. Taken(Other(p)) \in Int /\ emitted[p] \in Int
      BY TakenTypes DEF Other, Peers
    <3>3. Runs(net[p] \o hand[p] \o outputs[p], Taken(Other(p)), emitted[p])
      BY <2>1, <2>2 DEF Path
    <3>4. Runs(Append(net[p], f) \o hand[p] \o outputs[p], Taken(Other(p)), emitted[p])
      BY <1>1, <3>1, <3>2, <3>3, RunsStray
    <3> QED BY <1>2, <1>3, <2>2, <3>4 DEF Path
  <2>3. CASE q # p
    BY <1>2, <1>3, <2>1, <2>3 DEF Path
  <2> QED BY <2>2, <2>3
<1> QED BY <1>2, <1>4 DEF EventOrder, QueuedInOrder, Taken

LEMMA EventStep == EventInv /\ [Next]_vars => EventInv'
<1> SUFFICES ASSUME TypeOK, HandHolds, EventOrder, [Next]_vars PROVE EventOrder'
  BY TypeStep, HandStep DEF EventInv
<1>1. CASE UNCHANGED vars
  BY <1>1, PathUnchanged, EventsApart DEF vars, eventVars
<1>2. ASSUME NEW p \in Peers, Writing(p) PROVE EventOrder'
  <2>1. UNCHANGED eventVars
    BY <1>2 DEF Writing, WriterTake, WriterSend, WriterFails
  <2> QED BY <1>2, <2>1, PathWrites, EventsApart DEF eventVars
<1> QED BY <1>1, <1>2, EventsCalling, EventsReading, EventsServing, EventsStray DEF Next

LEMMA EventInit == Init => EventInv
<1> SUFFICES ASSUME Init PROVE HandHolds /\ EventOrder
  BY InitTypes DEF EventInv
<1>1. HandHolds
  BY DEF Init, PerPeer, HandHolds
<1>2. ASSUME NEW p \in Peers PROVE Path(p) = <<>> /\ Taken(p) = 0 /\ emitted[p] = 0 /\ QueuedInOrder(p)
  BY InitPaths DEF Init, PerPeer, Taken, QueuedInOrder
<1>3. \A p \in Peers : Other(p) \in Peers
  BY DEF Other, Peers
<1>4. Runs(<<>>, 0, 0)
  BY DEF Runs
<1> QED BY <1>1, <1>2, <1>3, <1>4 DEF EventOrder

\* Events reach the handlers in the order they were queued, none skipped and none
\* repeated, even when the reader had to wait for the event queue and whatever a
\* peer that breaks the profile puts between them.  What is under way must be
\* known for it: the events on one direction run from the last one taken to the
\* last one emitted, and the queue from the last one handled.
THEOREM EventsComeInOrder == Spec => EventsInOrder
<1>1. ASSUME EventInv, [Next]_vars, NEW p \in Peers
      PROVE  delivered'[p] \in {delivered[p], delivered[p] + 1}
  <2>1. ASSUME NEW q \in Peers, EventTake(q)
        PROVE  delivered'[p] \in {delivered[p], delivered[p] + 1}
    <3>1. /\ delivered' = [delivered EXCEPT ![q] = Head(events[q])] /\ events[q] # <<>>
          /\ delivered \in [Peers -> Nat] /\ events[q] \in Seq(Nat) /\ delivered[q] \in Nat
      BY <1>1, <2>1 DEF EventTake, EventInv, TypeOK, EventsTypeOK
    <3>2. Head(events[q]) = delivered[q] + 1
      BY <1>1, <3>1, NumbersAhead DEF EventInv, EventOrder, QueuedInOrder
    <3> QED BY <3>1, <3>2
  <2>2. ASSUME NEW q \in Peers, ~EventTake(q),
               \/ Calling(q) \/ Writing(q) \/ Reading(q) \/ Serving(q) \/ Eventing(q) \/ Ending(q)
               \/ \E f \in StrayFrames : Stray(q, f)
        PROVE  UNCHANGED delivered
    <3>1. Calling(q) => UNCHANGED delivered
      BY DEF Calling, CallAdmit, CallRefused, CallExhausted, PublishRoom, PublishWithdrawn, PublishTimeout,
             AwaitReply, AwaitExpires, AwaitEnded, eventVars
    <3>2. Reading(q) => UNCHANGED delivered
      BY DEF Reading, ReadRefused, ReadRequest, ReadRejected, ReadResponse, ReadCancel, ReadEvent,
             EventRoom, EventStall, ReaderFails, eventVars
    <3>3. Serving(q) => UNCHANGED delivered
      BY DEF Serving, HandlerReturns, Deadline, DeadlineAnswers, Respond, RespondFails, BodyEnds, eventVars
    <3> QED BY <2>2, <3>1, <3>2, <3>3
        DEF Writing, WriterTake, WriterSend, WriterFails, Eventing, Emit, EmitTimeout, EventHandled,
            EventPanics, Ending, Close, ContextEnds, Stray, eventVars
  <2> QED BY <1>1, <2>1, <2>2 DEF Next, vars, eventVars
<1>2. EventInv /\ [Next]_vars =>
        [\A p \in Peers : delivered'[p] \in {delivered[p], delivered[p] + 1}]_vars
  BY <1>1
<1> QED BY <1>2, EventInit, EventStep, PTL DEF Spec, EventsInOrder
=============================================================================
