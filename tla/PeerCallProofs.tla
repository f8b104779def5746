--------------------------- MODULE PeerCallProofs ---------------------------
(***************************************************************************)
(* What becomes of a call between two peers, for every value of the        *)
(* constants: its budgets, the one answer to it, the cancellation behind   *)
(* it, and the promise of RequestReply that its caller relies on.          *)
(***************************************************************************)
EXTENDS PeerProofs, FiniteSetTheorems, SequenceTheorems

-----------------------------------------------------------------------------
(* Budgets.                                                                *)

\* A slot is taken by a body before it is active and returned after.
Budgets == \A p \in Peers : Cardinality(Active(p)) <= slots[p] /\ slots[p] <= MaxHandlers

\* Serials that were not reserved have no caller, so none of them is pending.
Unreserved == \A p \in Peers : \A s \in Serials : s > next[p] => call[p][s] = "none"

BudgetInv == TypeOK /\ Budgets /\ Unreserved /\ NoPendingLeak

LEMMA ActiveFinite ==
  ASSUME TypeOK, NEW p \in Peers
  PROVE  IsFiniteSet(Active(p)) /\ Cardinality(Active(p)) \in Nat
<1>1. IsFiniteSet(Serials) /\ Active(p) \subseteq Serials
  BY FS_Interval, PeerAssumption DEF Serials, Active
<1> QED BY <1>1, FS_Subset, FS_CardinalityType

\* Bodies of other peers, and other bodies of this one, are as active as before.
LEMMA ActiveUpdate ==
  ASSUME TypeOK, NEW p \in Peers, NEW s \in Serials, NEW state,
         body' = [body EXCEPT ![p][s] = state]
  PROVE  /\ \A q \in Peers : q # p => Active(q)' = Active(q)
         /\ Active(p)' = IF state \in {"running", "returned"}
                           THEN Active(p) \cup {s} ELSE Active(p) \ {s}
BY DEF Active, TypeOK, BodiesTypeOK

\* A body that starts counts one more, one that ends one less.
LEMMA ActiveCount ==
  ASSUME TypeOK, NEW p \in Peers, NEW s \in Serials, NEW state,
         body' = [body EXCEPT ![p][s] = state]
  PROVE  /\ state = "running" /\ s \notin Active(p) =>
              Cardinality(Active(p)') = Cardinality(Active(p)) + 1
         /\ state = "returned" /\ s \in Active(p) => Active(p)' = Active(p)
         /\ state \notin {"running", "returned"} /\ s \in Active(p) =>
              Cardinality(Active(p)') = Cardinality(Active(p)) - 1
         /\ state \notin {"running", "returned"} /\ s \notin Active(p) => Active(p)' = Active(p)
<1>1. IsFiniteSet(Active(p)) /\ Cardinality(Active(p)) \in Nat
  BY ActiveFinite
<1>2. Active(p)' = IF state \in {"running", "returned"}
                     THEN Active(p) \cup {s} ELSE Active(p) \ {s}
  BY ActiveUpdate
<1>3. s \notin Active(p) => Cardinality(Active(p) \cup {s}) = Cardinality(Active(p)) + 1
  BY <1>1, FS_AddElement
<1>4. s \in Active(p) => Cardinality(Active(p) \ {s}) = Cardinality(Active(p)) - 1
  BY <1>1, FS_RemoveElement
<1> QED BY <1>2, <1>3, <1>4

LEMMA BudgetsUnchanged ==
  ASSUME TypeOK, Budgets, UNCHANGED <<body, slots>>
  PROVE  Budgets'
BY DEF Budgets, Active

LEMMA BudgetsReading ==
  ASSUME TypeOK, Budgets, NEW p \in Peers, Reading(p)
  PROVE  Budgets'
<1>1. CASE ReadRequest(p)
  <2> DEFINE n == Received(p).id
  <2>1. /\ n \notin Active(p) /\ slots[p] < MaxHandlers
        /\ body' = [body EXCEPT ![p][n] = "running"] /\ slots' = [slots EXCEPT ![p] = @ + 1]
    BY <1>1 DEF ReadRequest
  <2>2. slots'[p] = slots[p] + 1 /\ slots[p] \in Int /\ \A q \in Peers : q # p => slots'[q] = slots[q]
    BY <2>1 DEF TypeOK, BodiesTypeOK
  <2>3. MaxHandlers \in Nat
    BY PeerAssumption
  <2> HIDE DEF n
  <2>4. CASE n \in Serials
    <3>1. /\ Cardinality(Active(p)') = Cardinality(Active(p)) + 1
          /\ \A q \in Peers : q # p => Active(q)' = Active(q)
      BY <2>1, <2>4, ActiveCount, ActiveUpdate
    <3>2. Cardinality(Active(p)) \in Nat
      BY ActiveFinite
    <3> QED BY <2>1, <2>2, <2>3, <3>1, <3>2 DEF Budgets
  <2>5. CASE n \notin Serials
    <3>1. body' = body
      BY <2>1, <2>5 DEF TypeOK, BodiesTypeOK
    <3>2. \A q \in Peers : Active(q)' = Active(q)
      BY <3>1 DEF Active
    <3>3. Cardinality(Active(p)) \in Nat
      BY ActiveFinite
    <3> QED BY <2>1, <2>2, <2>3, <3>2, <3>3 DEF Budgets
  <2> QED BY <2>4, <2>5
<1>2. CASE ReadRejected(p)
  <2> DEFINE n == Received(p).id
  <2>1. n \notin Active(p) /\ body' = [body EXCEPT ![p][n] = "rejected"] /\ UNCHANGED slots
    BY <1>2 DEF ReadRejected
  <2> HIDE DEF n
  <2>2. \A q \in Peers : Active(q)' = Active(q)
    <3>1. CASE n \in Serials
      BY <2>1, <3>1, ActiveCount, ActiveUpdate
    <3>2. CASE n \notin Serials
      <4>1. body' = body
        BY <2>1, <3>2 DEF TypeOK, BodiesTypeOK
      <4> QED BY <4>1 DEF Active
    <3> QED BY <3>1, <3>2
  <2> QED BY <2>1, <2>2 DEF Budgets
<1>3. CASE ReadRefused(p) \/ ReadResponse(p) \/ ReadCancel(p) \/ ReadEvent(p)
             \/ EventRoom(p) \/ EventStall(p) \/ ReaderFails(p)
  <2>1. UNCHANGED <<body, slots>>
    BY <1>3 DEF ReadRefused, ReadResponse, ReadCancel, ReadEvent, EventRoom, EventStall,
                ReaderFails, bodyVars
  <2> QED BY <2>1, BudgetsUnchanged
<1> QED BY <1>1, <1>2, <1>3 DEF Reading

LEMMA BudgetsServing ==
  ASSUME TypeOK, Budgets, NEW p \in Peers, Serving(p)
  PROVE  Budgets'
<1>1. PICK s \in Serials :
        \/ \E o \in {"result", "error"} : HandlerReturns(p, s, o)
        \/ Deadline(p, s) \/ DeadlineAnswers(p, s)
        \/ Respond(p, s) \/ RespondFails(p, s) \/ BodyEnds(p, s)
  BY DEF Serving
<1>2. CASE \E o \in {"result", "error"} : HandlerReturns(p, s, o)
  <2>1. s \in Active(p) /\ body' = [body EXCEPT ![p][s] = "returned"] /\ UNCHANGED slots
    BY <1>2 DEF HandlerReturns, Active
  <2>2. \A q \in Peers : Active(q)' = Active(q)
    BY <2>1, ActiveCount, ActiveUpdate
  <2> QED BY <2>1, <2>2 DEF Budgets
<1>3. CASE BodyEnds(p, s)
  <2>1. /\ s \in Active(p) /\ body' = [body EXCEPT ![p][s] = "done"]
        /\ slots' = [slots EXCEPT ![p] = @ - 1]
    BY <1>3 DEF BodyEnds, Active
  <2>2. slots'[p] = slots[p] - 1 /\ slots[p] \in Int /\ \A q \in Peers : q # p => slots'[q] = slots[q]
    BY <2>1 DEF TypeOK, BodiesTypeOK
  <2>3. /\ Cardinality(Active(p)') = Cardinality(Active(p)) - 1
        /\ \A q \in Peers : q # p => Active(q)' = Active(q)
    BY <2>1, ActiveCount, ActiveUpdate
  <2>4. Cardinality(Active(p)) \in Nat /\ MaxHandlers \in Nat
    BY ActiveFinite, PeerAssumption
  <2> QED BY <2>2, <2>3, <2>4 DEF Budgets
<1>4. CASE Deadline(p, s) \/ DeadlineAnswers(p, s) \/ Respond(p, s) \/ RespondFails(p, s)
  <2>1. UNCHANGED <<body, slots>>
    BY <1>4 DEF Deadline, DeadlineAnswers, Respond, RespondFails
  <2> QED BY <2>1, BudgetsUnchanged
<1> QED BY <1>1, <1>2, <1>3, <1>4

LEMMA BudgetsStep == TypeOK /\ Budgets /\ [Next]_vars => Budgets'
<1> SUFFICES ASSUME TypeOK, Budgets, [Next]_vars PROVE Budgets'
  OBVIOUS
<1>1. ASSUME NEW p \in Peers,
             \/ Calling(p) \/ Writing(p) \/ Eventing(p) \/ Ending(p)
             \/ \E f \in StrayFrames : Stray(p, f)
      PROVE  UNCHANGED <<body, slots>>
  <2>1. CASE Calling(p)
    BY <2>1 DEF Calling, CallAdmit, CallRefused, CallExhausted, PublishRoom, PublishWithdrawn,
                PublishTimeout, AwaitReply, AwaitExpires, AwaitEnded, bodyVars
  <2>2. CASE Writing(p)
    BY <2>2 DEF Writing, WriterTake, WriterSend, WriterFails, bodyVars
  <2>3. CASE Eventing(p) \/ Ending(p)
    BY <2>3 DEF Eventing, Emit, EmitTimeout, EventTake, EventHandled, EventPanics,
                Ending, Close, ContextEnds, bodyVars
  <2>4. CASE \E f \in StrayFrames : Stray(p, f)
    BY <2>4 DEF Stray, bodyVars
  <2> QED BY <1>1, <2>1, <2>2, <2>3, <2>4
<1>2. UNCHANGED vars => UNCHANGED <<body, slots>>
  BY DEF vars, bodyVars
<1> QED BY <1>1, <1>2, BudgetsUnchanged, BudgetsReading, BudgetsServing DEF Next

\* A call settles, or waits: its own entries change, and no other call's.
LEMMA PendingSettles ==
  ASSUME TypeOK, Unreserved, NoPendingLeak, NEW p \in Peers, NEW s \in Serials, NEW state,
         Live(p, s), call' = [call EXCEPT ![p][s] = state], UNCHANGED next,
         \/ pending' = [pending EXCEPT ![p] = @ \ {s}]
         \/ state = "waiting" /\ UNCHANGED pending
  PROVE  Unreserved' /\ NoPendingLeak'
<1>1. \A q \in Peers, c \in Serials :
        call'[q][c] = IF q = p /\ c = s THEN state ELSE call[q][c]
  BY DEF TypeOK, CallsTypeOK
<1>2. s <= next[p]
  <2>1. ~(s > next[p])
    BY DEF Unreserved, Live
  <2>2. s \in Int /\ next[p] \in Int
    BY PeerAssumption DEF TypeOK, CallsTypeOK, Serials
  <2> QED BY <2>1, <2>2
<1>3. Unreserved'
  BY <1>1, <1>2 DEF Unreserved, TypeOK, CallsTypeOK, Serials
<1>4. \A q \in Peers : pending'[q] \subseteq pending[q]
  BY DEF TypeOK, CallsTypeOK
<1>5. \A q \in Peers : \A c \in pending'[q] : c \in Serials
  BY <1>4 DEF TypeOK, CallsTypeOK
<1>6. state # "waiting" => s \notin pending'[p]
  BY DEF TypeOK, CallsTypeOK
<1>7. NoPendingLeak'
  BY <1>1, <1>4, <1>5, <1>6 DEF NoPendingLeak, Live
<1> QED BY <1>3, <1>7

LEMMA PendingReserves ==
  ASSUME TypeOK, Unreserved, NoPendingLeak, NEW p \in Peers, NEW b, NEW state,
         next[p] < MaxSerial, Reserve(p, b, state),
         \/ UNCHANGED pending
         \/ state \in {"waiting", "publishing"} /\ pending' = [pending EXCEPT ![p] = @ \cup {next[p] + 1}]
  PROVE  Unreserved' /\ NoPendingLeak'
<1> DEFINE s == next[p] + 1
<1>1. s \in Serials /\ s > next[p] /\ next[p] \in Nat
  BY PeerAssumption DEF Serials, TypeOK, CallsTypeOK
<1>2. /\ \A q \in Peers, c \in Serials :
           call'[q][c] = IF q = p /\ c = s THEN state ELSE call[q][c]
      /\ \A q \in Peers : next'[q] = IF q = p THEN s ELSE next[q]
  BY <1>1 DEF Reserve, TypeOK, CallsTypeOK
<1>3. \A q \in Peers : next[q] \in Nat
  BY DEF TypeOK, CallsTypeOK
<1> HIDE DEF s
<1>4. Unreserved'
  BY <1>1, <1>2, <1>3 DEF Unreserved, Serials
<1>5. s \notin pending[p]
  BY <1>1 DEF NoPendingLeak, Unreserved, Live
<1>6. \A q \in Peers : pending[q] \subseteq Serials
  BY DEF TypeOK, CallsTypeOK
<1>7. \A q \in Peers : \A c \in pending'[q] :
        c \in pending[q] \/ (q = p /\ c = s /\ state \in {"waiting", "publishing"})
  BY DEF TypeOK, CallsTypeOK, s
<1>8. NoPendingLeak'
  BY <1>1, <1>2, <1>5, <1>6, <1>7 DEF NoPendingLeak, Live
<1> QED BY <1>4, <1>8

LEMMA PendingCalling ==
  ASSUME TypeOK, Unreserved, NoPendingLeak, NEW p \in Peers, Calling(p)
  PROVE  Unreserved' /\ NoPendingLeak'
<1>1. ASSUME NEW b \in 0 .. EventLoop, NEW m \in Methods, CallAdmit(p, m, b)
      PROVE  Unreserved' /\ NoPendingLeak'
  <2>1. /\ next[p] < MaxSerial /\ pending' = [pending EXCEPT ![p] = @ \cup {next[p] + 1}]
        /\ Reserve(p, b, "waiting") \/ Reserve(p, b, "publishing")
    BY <1>1 DEF CallAdmit
  <2> QED BY <2>1, PendingReserves
<1>2. ASSUME NEW b \in 0 .. EventLoop, CallRefused(p, b) PROVE Unreserved' /\ NoPendingLeak'
  <2>1. next[p] < MaxSerial /\ UNCHANGED pending /\ Reserve(p, b, "unpublished")
    BY <1>2 DEF CallRefused
  <2> QED BY <2>1, PendingReserves
<1>3. ASSUME NEW b \in 0 .. EventLoop, CallExhausted(p, b) PROVE Unreserved' /\ NoPendingLeak'
  BY <1>3 DEF CallExhausted, callVars, Unreserved, NoPendingLeak, Live
<1>4. ASSUME NEW s \in Serials, NEW m \in Methods, PublishRoom(p, s, m)
      PROVE  Unreserved' /\ NoPendingLeak'
  <2>1. Live(p, s) /\ call' = [call EXCEPT ![p][s] = "waiting"] /\ UNCHANGED <<next, pending>>
    BY <1>4 DEF PublishRoom, Live
  <2> QED BY <2>1, PendingSettles
<1>5. ASSUME NEW s \in Serials,
             \/ PublishWithdrawn(p, s) \/ PublishTimeout(p, s)
             \/ AwaitReply(p, s) \/ AwaitExpires(p, s) \/ AwaitEnded(p, s)
      PROVE  Unreserved' /\ NoPendingLeak'
  <2>1. /\ Live(p, s) /\ UNCHANGED next /\ pending' = [pending EXCEPT ![p] = @ \ {s}]
        /\ \E state : call' = [call EXCEPT ![p][s] = state]
    BY <1>5 DEF PublishWithdrawn, PublishTimeout, AwaitReply, AwaitExpires, AwaitEnded, Live
  <2> QED BY <2>1, PendingSettles
<1> QED BY <1>1, <1>2, <1>3, <1>4, <1>5 DEF Calling

LEMMA PendingUnchanged ==
  ASSUME TypeOK, Unreserved, NoPendingLeak, UNCHANGED <<next, call>>,
         \A q \in Peers : pending'[q] \subseteq pending[q]
  PROVE  Unreserved' /\ NoPendingLeak'
BY DEF Unreserved, NoPendingLeak, Live

LEMMA PendingStep ==
  TypeOK /\ Unreserved /\ NoPendingLeak /\ [Next]_vars => Unreserved' /\ NoPendingLeak'
<1> SUFFICES ASSUME TypeOK, Unreserved, NoPendingLeak, [Next]_vars
             PROVE  Unreserved' /\ NoPendingLeak'
  OBVIOUS
<1>1. ASSUME NEW p \in Peers,
             \/ Writing(p) \/ Reading(p) \/ Serving(p) \/ Eventing(p) \/ Ending(p)
             \/ \E f \in StrayFrames : Stray(p, f)
      PROVE  UNCHANGED <<next, call>> /\ \A q \in Peers : pending'[q] \subseteq pending[q]
  <2>1. CASE Reading(p)
    <3>1. CASE ReadResponse(p)
      BY <3>1 DEF ReadResponse, TypeOK, CallsTypeOK
    <3>2. CASE ReadRefused(p) \/ ReadRequest(p) \/ ReadRejected(p) \/ ReadCancel(p)
                 \/ ReadEvent(p) \/ EventRoom(p) \/ EventStall(p) \/ ReaderFails(p)
      <4>1. UNCHANGED callVars
        BY <3>2 DEF ReadRefused, ReadRequest, ReadRejected, ReadCancel, ReadEvent,
                    EventRoom, EventStall, ReaderFails
      <4> QED BY <4>1 DEF callVars
    <3> QED BY <2>1, <3>1, <3>2 DEF Reading
  <2>2. CASE Writing(p) \/ Eventing(p) \/ Ending(p) \/ \E f \in StrayFrames : Stray(p, f)
    BY <2>2 DEF Writing, WriterTake, WriterSend, WriterFails, Eventing, Emit, EmitTimeout,
                EventTake, EventHandled, EventPanics, Ending, Close, ContextEnds, Stray, callVars
  <2>3. CASE Serving(p)
    BY <2>3 DEF Serving, HandlerReturns, Deadline, DeadlineAnswers, Respond, RespondFails,
                BodyEnds, callVars
  <2> QED BY <1>1, <2>1, <2>2, <2>3
<1>2. UNCHANGED vars => UNCHANGED callVars
  BY DEF vars
<1> QED BY <1>1, <1>2, PendingCalling, PendingUnchanged DEF Next, callVars

\* Neither budget leaks, whatever the other peer sends: MaxConcurrentHandlers
\* bounds the bodies that run, those answered by their deadline included, and the
\* outstanding calls are calls that wait.  Each slot is a body's until it ends, and a
\* serial that was not reserved yet is nobody's.
THEOREM BudgetsAreKept == Spec => []BudgetsKept
<1>1. Init => BudgetInv
  <2> SUFFICES ASSUME Init PROVE Budgets /\ Unreserved /\ NoPendingLeak
    BY InitTypes DEF BudgetInv
  <2> USE DEF Init, PerPeer, PerSerial
  <2>1. \A p \in Peers : Active(p) = {}
    BY DEF Active
  <2>2. Budgets
    <3>1. Cardinality({}) = 0
      BY FS_EmptySet
    <3> SUFFICES ASSUME NEW p \in Peers
                 PROVE  Cardinality(Active(p)) <= slots[p] /\ slots[p] <= MaxHandlers
      BY DEF Budgets
    <3>2. slots[p] = 0 /\ MaxHandlers \in Nat /\ Active(p) = {}
      BY <2>1, PeerAssumption
    <3>3. Cardinality(Active(p)) = 0
      BY <3>1, <3>2
    <3> QED BY <3>2, <3>3
  <2> QED BY <2>2 DEF Unreserved, NoPendingLeak
<1>2. BudgetInv /\ [Next]_vars => BudgetInv'
  BY TypeStep, BudgetsStep, PendingStep DEF BudgetInv
<1>3. BudgetInv => BudgetsKept
  <2> SUFFICES ASSUME BudgetInv, NEW p \in Peers PROVE Cardinality(Active(p)) <= MaxHandlers
    BY DEF BudgetInv, BudgetsKept, HandlersBounded
  <2>1. Cardinality(Active(p)) \in Nat /\ slots[p] \in Int /\ MaxHandlers \in Nat
    BY ActiveFinite, PeerAssumption DEF BudgetInv, TypeOK, BodiesTypeOK
  <2> QED BY <2>1 DEF BudgetInv, Budgets
<1> QED BY <1>1, <1>2, <1>3, PTL DEF Spec

-----------------------------------------------------------------------------
(* Serials that ran.                                                       *)

\* Bodies are those of serials that were admitted.
Admitted == \A p \in Peers : \A s \in Serials : body[p][s] # "none" => s <= admitted[p]

LEMMA AdmittedStep == TypeOK /\ Admitted /\ [Next]_vars => Admitted'
<1> SUFFICES ASSUME TypeOK, Admitted, [Next]_vars PROVE Admitted'
  OBVIOUS
<1>1. CASE UNCHANGED <<admitted, body>>
  BY <1>1 DEF Admitted
<1>2. ASSUME NEW p \in Peers, ReadRequest(p) \/ ReadRejected(p)
      PROVE  Admitted'
  <2> DEFINE n == Received(p).id
  <2>1. /\ Receives(p, "request") /\ n > admitted[p]
        /\ admitted' = [admitted EXCEPT ![p] = n]
        /\ \E state : body' = [body EXCEPT ![p][n] = state]
    BY <1>2 DEF ReadRequest, ReadRejected, Admits
  <2>2. n \in Nat
    BY <2>1, ReceivedTypes
  <2> HIDE DEF n
  <2>3. \A q \in Peers : admitted[q] \in Nat /\ admitted'[q] = IF q = p THEN n ELSE admitted[q]
    BY <2>1 DEF TypeOK, BodiesTypeOK
  <2>4. \A q \in Peers : \A s \in Serials : q # p \/ s # n => body'[q][s] = body[q][s]
    BY <2>1 DEF TypeOK, BodiesTypeOK
  <2>5. \A s \in Serials : s \in Nat
    BY PeerAssumption DEF Serials
  <2> QED BY <2>1, <2>2, <2>3, <2>4, <2>5 DEF Admitted
<1>3. ASSUME NEW p \in Peers, NEW s \in Serials,
             (\E o \in {"result", "error"} : HandlerReturns(p, s, o)) \/ BodyEnds(p, s)
      PROVE  Admitted'
  <2>1. body[p][s] # "none" /\ UNCHANGED admitted /\ \E state : body' = [body EXCEPT ![p][s] = state]
    BY <1>3 DEF HandlerReturns, BodyEnds
  <2>2. \A q \in Peers : \A c \in Serials : body'[q][c] # "none" => body[q][c] # "none"
    BY <2>1 DEF TypeOK, BodiesTypeOK
  <2> QED BY <2>1, <2>2 DEF Admitted
<1>4. ASSUME NEW p \in Peers,
             \/ Calling(p) \/ Writing(p) \/ Eventing(p) \/ Ending(p)
             \/ \E f \in StrayFrames : Stray(p, f)
      PROVE  UNCHANGED <<admitted, body>>
  <2>1. CASE Calling(p)
    BY <2>1 DEF Calling, CallAdmit, CallRefused, CallExhausted, PublishRoom, PublishWithdrawn,
                PublishTimeout, AwaitReply, AwaitExpires, AwaitEnded, bodyVars
  <2>2. CASE Writing(p) \/ Eventing(p) \/ Ending(p) \/ \E f \in StrayFrames : Stray(p, f)
    BY <2>2 DEF Writing, WriterTake, WriterSend, WriterFails, Eventing, Emit, EmitTimeout,
                EventTake, EventHandled, EventPanics, Ending, Close, ContextEnds, Stray, bodyVars
  <2> QED BY <1>4, <2>1, <2>2
<1>5. ASSUME NEW p \in Peers, Reading(p) PROVE Admitted'
  <2>1. CASE ReadRefused(p) \/ ReadResponse(p) \/ ReadCancel(p) \/ ReadEvent(p)
               \/ EventRoom(p) \/ EventStall(p) \/ ReaderFails(p)
    BY <1>1, <2>1 DEF ReadRefused, ReadResponse, ReadCancel, ReadEvent, EventRoom, EventStall,
                      ReaderFails, bodyVars
  <2> QED BY <1>2, <1>5, <2>1 DEF Reading
<1>6. ASSUME NEW p \in Peers, Serving(p) PROVE Admitted'
  <2>1. ASSUME NEW s \in Serials,
               Deadline(p, s) \/ DeadlineAnswers(p, s) \/ Respond(p, s) \/ RespondFails(p, s)
        PROVE  Admitted'
    BY <1>1, <2>1 DEF Deadline, DeadlineAnswers, Respond, RespondFails
  <2> QED BY <1>3, <1>6, <2>1 DEF Serving
<1>7. UNCHANGED vars => UNCHANGED <<admitted, body>>
  BY DEF vars, bodyVars
<1> QED BY <1>1, <1>4, <1>5, <1>6, <1>7 DEF Next

LEMMA InitAdmitted == Init => Admitted
BY DEF Init, Admitted, PerPeer, PerSerial

LEMMA AdmittedAlways == Spec => [](TypeOK /\ Admitted)
BY InitTypes, InitAdmitted, TypeStep, AdmittedStep, PTL DEF Spec

\* No step starts a body of a serial that had one.
LEMMA StartsOnce ==
  ASSUME TypeOK, Admitted, [Next]_vars, NEW p \in Peers, NEW s \in Serials,
         body'[p][s] = "running"
  PROVE  body[p][s] \in {"none", "running"}
<1>1. ASSUME NEW q \in Peers, ReadRequest(q)
      PROVE  body[p][s] \in {"none", "running"}
  <2> DEFINE n == Received(q).id
  <2>1. Receives(q, "request") /\ n > admitted[q] /\ body' = [body EXCEPT ![q][n] = "running"]
    BY <1>1 DEF ReadRequest, Admits
  <2>2. n \in Nat /\ admitted[q] \in Nat /\ s \in Nat
    BY <2>1, ReceivedTypes, PeerAssumption DEF TypeOK, BodiesTypeOK, Serials
  <2> HIDE DEF n
  <2>3. CASE p = q /\ s = n
    BY <2>1, <2>2, <2>3 DEF Admitted
  <2>4. CASE ~(p = q /\ s = n)
    <3>1. body'[p][s] = body[p][s]
      BY <2>1, <2>4 DEF TypeOK, BodiesTypeOK
    <3> QED BY <3>1
  <2> QED BY <2>3, <2>4
<1>2. ASSUME ~\E q \in Peers : ReadRequest(q)
      PROVE  body'[p][s] = body[p][s]
  <2>1. \/ UNCHANGED body
        \/ \E q \in Peers, state \in {"returned", "done", "rejected"} :
             \E n : body' = [body EXCEPT ![q][n] = state]
    <3>1. ASSUME NEW q \in Peers, Reading(q)
          PROVE  UNCHANGED body \/ \E n : body' = [body EXCEPT ![q][n] = "rejected"]
      <4>1. CASE ReadRejected(q)
        BY <4>1 DEF ReadRejected
      <4>2. CASE ReadRefused(q) \/ ReadResponse(q) \/ ReadCancel(q) \/ ReadEvent(q)
                   \/ EventRoom(q) \/ EventStall(q) \/ ReaderFails(q)
        BY <4>2 DEF ReadRefused, ReadResponse, ReadCancel, ReadEvent, EventRoom, EventStall,
                    ReaderFails, bodyVars
      <4> QED BY <1>2, <3>1, <4>1, <4>2 DEF Reading
    <3>2. ASSUME NEW q \in Peers, Serving(q)
          PROVE  \/ UNCHANGED body
                 \/ \E state \in {"returned", "done"} : \E n : body' = [body EXCEPT ![q][n] = state]
      BY <3>2 DEF Serving, HandlerReturns, Deadline, DeadlineAnswers, Respond, RespondFails, BodyEnds
    <3>3. ASSUME NEW q \in Peers, Calling(q) PROVE UNCHANGED body
      BY <3>3 DEF Calling, CallAdmit, CallRefused, CallExhausted, PublishRoom, PublishWithdrawn,
                  PublishTimeout, AwaitReply, AwaitExpires, AwaitEnded, bodyVars
    <3>4. ASSUME NEW q \in Peers,
                 Writing(q) \/ Eventing(q) \/ Ending(q) \/ \E f \in StrayFrames : Stray(q, f)
          PROVE  UNCHANGED body
      BY <3>4 DEF Writing, WriterTake, WriterSend, WriterFails, Eventing, Emit, EmitTimeout,
                  EventTake, EventHandled, EventPanics, Ending, Close, ContextEnds, Stray, bodyVars
    <3>5. UNCHANGED vars => UNCHANGED body
      BY DEF vars, bodyVars
    <3> QED BY <3>1, <3>2, <3>3, <3>4, <3>5 DEF Next
  <2>2. CASE UNCHANGED body
    BY <2>2
  <2>3. ASSUME NEW q \in Peers, NEW state \in {"returned", "done", "rejected"}, NEW n,
               body' = [body EXCEPT ![q][n] = state]
        PROVE  body'[p][s] = body[p][s]
    BY <2>3 DEF TypeOK, BodiesTypeOK
  <2> QED BY <2>1, <2>2, <2>3
<1> QED BY <1>1, <1>2

\* A serial runs a handler at most once in the life of a connection, whatever
\* the other side sends: an id that the reader admits lies above every serial
\* that ever had a body.
THEOREM BodiesRunOnce == Spec => RunsOnce
<1>1. TypeOK /\ Admitted /\ [Next]_vars =>
        [\A p \in Peers, s \in Serials :
           body'[p][s] = "running" => body[p][s] \in {"none", "running"}]_vars
  BY StartsOnce
<1> QED BY <1>1, AdmittedAlways, PTL DEF Spec, RunsOnce
-----------------------------------------------------------------------------
(* What is under way, as one sequence per direction.                       *)

\* Everything p queued that was not read yet, whether or not p ended since.
Path(p) == net[p] \o hand[p] \o outputs[p]
Carried(p) == {Path(p)[i] : i \in 1 .. Len(Path(p))}

\* The writer holds one frame at most.
HandHolds == \A p \in Peers : Len(hand[p]) <= 1

\* The writer's two moves leave the concatenation alone; queueing and reading
\* happen at its two ends.
LEMMA CatQueues ==
  ASSUME NEW n \in Seq(Frame), NEW h \in Seq(Frame), NEW o \in Seq(Frame), NEW f \in Frame
  PROVE  n \o h \o Append(o, f) = Append(n \o h \o o, f)
<1>1. n \o h \in Seq(Frame) /\ <<f>> \in Seq(Frame) /\ n \o h \o o \in Seq(Frame)
  BY ConcatProperties
<1>2. Append(o, f) = o \o <<f>> /\ Append(n \o h \o o, f) = (n \o h \o o) \o <<f>>
  BY <1>1, AppendIsConcat
<1>3. (n \o h) \o (o \o <<f>>) = ((n \o h) \o o) \o <<f>>
  BY <1>1, ConcatAssociative
<1> QED BY <1>2, <1>3

LEMMA CatTakes ==
  ASSUME NEW n \in Seq(Frame), NEW o \in Seq(Frame), o # <<>>
  PROVE  n \o <<Head(o)>> \o Tail(o) = n \o <<>> \o o
<1>1. <<Head(o)>> \in Seq(Frame) /\ Tail(o) \in Seq(Frame)
  BY HeadTailProperties
<1>2. <<Head(o)>> \o Tail(o) = o
  <2> DEFINE c == <<Head(o)>> \o Tail(o)
  <2>1. c \in Seq(Frame) /\ Len(c) = 1 + Len(Tail(o)) /\ Len(o) \in Nat
    BY <1>1, ConcatProperties
  <2>2. Len(Tail(o)) = Len(o) - 1 /\ \A i \in 1 .. Len(Tail(o)) : Tail(o)[i] = o[i + 1]
    BY HeadTailProperties
  <2>3. \A i \in 1 .. Len(o) : c[i] = IF i <= 1 THEN <<Head(o)>>[i] ELSE Tail(o)[i - 1]
    BY <1>1, <2>1, <2>2, ConcatProperties
  <2>4. \A i \in 1 .. Len(o) : c[i] = o[i]
    <3> SUFFICES ASSUME NEW i \in 1 .. Len(o) PROVE c[i] = o[i]
      OBVIOUS
    <3>1. CASE i = 1
      BY <2>3, <3>1
    <3>2. CASE i > 1
      <4>1. i - 1 \in 1 .. Len(Tail(o)) /\ (i - 1) + 1 = i
        BY <2>1, <2>2, <3>2
      <4>2. c[i] = Tail(o)[i - 1]
        BY <2>3, <3>2
      <4> QED BY <2>2, <4>1, <4>2
    <3> QED BY <2>1, <3>1, <3>2
  <2> HIDE DEF c
  <2>5. c = o
    BY <2>1, <2>2, <2>4, SeqEqual
  <2> QED BY <2>5 DEF c
<1>3. n \o <<>> = n
  BY ConcatEmptySeq
<1> QED BY <1>1, <1>2, <1>3, ConcatAssociative

LEMMA CatSends ==
  ASSUME NEW n \in Seq(Frame), NEW h \in Seq(Frame), NEW o \in Seq(Frame), h # <<>>, Len(h) <= 1
  PROVE  Append(n, h[1]) \o <<>> \o o = n \o h \o o
<1>1. Len(h) = 1 /\ h[1] \in Frame
  <2>1. Len(h) \in Nat /\ Len(h) # 0
    BY EmptySeq
  <2>2. \A k \in Nat : k # 0 /\ k <= 1 => k = 1
    OBVIOUS
  <2>3. Len(h) = 1
    BY <2>1, <2>2
  <2> QED BY <2>3, ElementOfSeq
<1>2. h = <<h[1]>>
  BY <1>1
<1>3. Append(n, h[1]) = n \o <<h[1]>> /\ Append(n, h[1]) \in Seq(Frame)
  BY <1>1, AppendIsConcat, AppendProperties
<1>4. Append(n, h[1]) \o <<>> = Append(n, h[1])
  BY <1>3, ConcatEmptySeq
<1> QED BY <1>2, <1>3, <1>4

LEMMA CatReads ==
  ASSUME NEW n \in Seq(Frame), NEW h \in Seq(Frame), NEW o \in Seq(Frame), n # <<>>
  PROVE  /\ n \o h \o o # <<>>
         /\ Head(n \o h \o o) = Head(n)
         /\ Tail(n) \o h \o o = Tail(n \o h \o o)
<1> DEFINE r == h \o o
           c == n \o r
           d == Tail(n) \o r
<1>1. r \in Seq(Frame) /\ Tail(n) \in Seq(Frame) /\ c = n \o h \o o /\ d = Tail(n) \o h \o o
  <2>1. r \in Seq(Frame) /\ Tail(n) \in Seq(Frame)
    BY ConcatProperties, HeadTailProperties
  <2>2. (n \o h) \o o = n \o (h \o o)
    BY ConcatAssociative
  <2>3. (Tail(n) \o h) \o o = Tail(n) \o (h \o o)
    BY <2>1, ConcatAssociative, SMTT(30)
  <2> QED BY <2>1, <2>2, <2>3
<1>2. /\ Len(n) \in Nat /\ Len(n) >= 1 /\ Len(Tail(n)) = Len(n) - 1 /\ Len(r) \in Nat
      /\ \A i \in 1 .. Len(Tail(n)) : Tail(n)[i] = n[i + 1]
  BY <1>1, HeadTailProperties
<1>3. /\ c \in Seq(Frame) /\ Len(c) = Len(n) + Len(r)
      /\ \A i \in 1 .. Len(n) + Len(r) : c[i] = IF i <= Len(n) THEN n[i] ELSE r[i - Len(n)]
  BY <1>1, ConcatProperties
<1>4. /\ d \in Seq(Frame) /\ Len(d) = Len(n) - 1 + Len(r)
      /\ \A i \in 1 .. Len(n) - 1 + Len(r) :
           d[i] = IF i <= Len(n) - 1 THEN Tail(n)[i] ELSE r[i - (Len(n) - 1)]
  BY <1>1, <1>2, ConcatProperties
<1> HIDE DEF r, c, d
<1>5. c # <<>> /\ Head(c) = Head(n)
  BY <1>2, <1>3
<1>6. Tail(c) \in Seq(Frame) /\ Len(Tail(c)) = Len(c) - 1 /\ \A i \in 1 .. Len(Tail(c)) : Tail(c)[i] = c[i + 1]
  BY <1>3, <1>5, HeadTailProperties
<1>7. \A i \in 1 .. Len(d) : d[i] = Tail(c)[i]
  <2> SUFFICES ASSUME NEW i \in 1 .. Len(d) PROVE d[i] = Tail(c)[i]
    OBVIOUS
  <2>1. Tail(c)[i] = c[i + 1] /\ i \in Nat /\ i >= 1 /\ i + 1 \in 1 .. Len(n) + Len(r)
    BY <1>2, <1>3, <1>4, <1>6
  <2>2. CASE i <= Len(n) - 1
    <3>1. d[i] = Tail(n)[i] /\ Tail(n)[i] = n[i + 1]
      BY <1>2, <1>4, <2>1, <2>2
    <3>2. c[i + 1] = n[i + 1]
      BY <1>2, <1>3, <2>1, <2>2
    <3> QED BY <2>1, <3>1, <3>2
  <2>3. CASE ~(i <= Len(n) - 1)
    <3>1. d[i] = r[i - (Len(n) - 1)]
      BY <1>4, <2>1, <2>3
    <3>2. c[i + 1] = r[i + 1 - Len(n)] /\ i + 1 - Len(n) = i - (Len(n) - 1)
      BY <1>2, <1>3, <2>1, <2>3
    <3> QED BY <2>1, <3>1, <3>2
  <2> QED BY <2>2, <2>3
<1>8. d = Tail(c)
  BY <1>3, <1>4, <1>6, <1>7, SeqEqual
<1> QED BY <1>1, <1>5, <1>8

LEMMA PathTypes ==
  ASSUME TypeOK, NEW p \in Peers
  PROVE  Path(p) \in Seq(Frame) /\ Carried(p) \subseteq Frame
<1>1. Path(p) \in Seq(Frame)
  BY OrderTypes, ConcatProperties DEF Path
<1> QED BY <1>1, ElementOfSeq DEF Carried

LEMMA PathUnchanged ==
  ASSUME UNCHANGED wireVars
  PROVE  \A p \in Peers : Path(p)' = Path(p) /\ Carried(p)' = Carried(p)
BY DEF wireVars, Path, Carried

LEMMA PathQueues ==
  ASSUME TypeOK, NEW p \in Peers, NEW f \in Frame, Enqueue(p, f), UNCHANGED <<hand, net>>
  PROVE  /\ Path(p)' = Append(Path(p), f)
         /\ \A q \in Peers : q # p => Path(q)' = Path(q)
<1>1. /\ outputs'[p] = Append(outputs[p], f)
      /\ \A q \in Peers : q # p => outputs'[q] = outputs[q]
  BY DEF Enqueue, TypeOK, WiresTypeOK
<1>2. Path(p)' = net[p] \o hand[p] \o Append(outputs[p], f)
  BY <1>1 DEF Path
<1>3. net[p] \in Seq(Frame) /\ hand[p] \in Seq(Frame) /\ outputs[p] \in Seq(Frame)
  BY OrderTypes
<1>4. Path(p)' = Append(Path(p), f)
  BY <1>2, <1>3, CatQueues DEF Path
<1> QED BY <1>1, <1>4 DEF Path

LEMMA PathWrites ==
  ASSUME TypeOK, HandHolds, NEW p \in Peers, Writing(p)
  PROVE  \A q \in Peers : Path(q)' = Path(q)
<1>1. CASE WriterTake(p)
  <2>1. hand[p] = <<>> /\ outputs[p] # <<>> /\ UNCHANGED net
    BY <1>1 DEF WriterTake
  <2>2. /\ hand'[p] = <<Head(outputs[p])>> /\ outputs'[p] = Tail(outputs[p])
        /\ \A q \in Peers : q # p => hand'[q] = hand[q] /\ outputs'[q] = outputs[q]
    BY <1>1 DEF WriterTake, TypeOK, WiresTypeOK
  <2>3. net[p] \o <<Head(outputs[p])>> \o Tail(outputs[p]) = net[p] \o <<>> \o outputs[p]
    BY <2>1, OrderTypes, CatTakes
  <2>4. Path(p)' = Path(p)
    BY <2>1, <2>2, <2>3 DEF Path
  <2> QED BY <2>1, <2>2, <2>4 DEF Path
<1>2. CASE WriterSend(p)
  <2>1. hand[p] # <<>> /\ UNCHANGED outputs
    BY <1>2 DEF WriterSend
  <2>2. /\ hand'[p] = <<>> /\ net'[p] = Append(net[p], hand[p][1])
        /\ \A q \in Peers : q # p => hand'[q] = hand[q] /\ net'[q] = net[q]
    BY <1>2 DEF WriterSend, TypeOK, WiresTypeOK
  <2>3. Append(net[p], hand[p][1]) \o <<>> \o outputs[p] = net[p] \o hand[p] \o outputs[p]
    <3>1. /\ net[p] \in Seq(Frame) /\ hand[p] \in Seq(Frame) /\ outputs[p] \in Seq(Frame)
          /\ Len(hand[p]) <= 1
      BY OrderTypes DEF HandHolds
    <3> QED BY <2>1, <3>1, CatSends
  <2>4. Path(p)' = Path(p)
    BY <2>1, <2>2, <2>3 DEF Path
  <2> QED BY <2>1, <2>2, <2>4 DEF Path
<1>3. CASE WriterFails(p)
  BY <1>3, PathUnchanged DEF WriterFails
<1> QED BY <1>1, <1>2, <1>3 DEF Writing

\* A step of the reader takes the head of the other direction; the same step may
\* queue a refusal on its own.
LEMMA PathReads ==
  ASSUME TypeOK, NEW p \in Peers, NEW kind, Receives(p, kind), Consume(p), UNCHANGED hand,
         UNCHANGED outputs \/ \E f \in Frame : Enqueue(p, f)
  PROVE  /\ Path(Other(p)) # <<>> /\ Head(Path(Other(p))) = Received(p)
         /\ Path(Other(p))' = Tail(Path(Other(p)))
         /\ UNCHANGED outputs => Path(p)' = Path(p)
         /\ \A f \in Frame : Enqueue(p, f) => Path(p)' = Append(Path(p), f)
<1> DEFINE r == Other(p)
<1>1. r \in Peers /\ r # p
  BY DEF Other, Peers
<1>2. net[r] # <<>> /\ Received(p) = Head(net[r])
  BY DEF Receives, Received
<1>3. net'[r] = Tail(net[r]) /\ net'[p] = net[p]
  BY <1>1 DEF Consume, TypeOK, WiresTypeOK
<1>4. outputs'[r] = outputs[r]
  BY <1>1 DEF Enqueue, TypeOK, WiresTypeOK
<1> HIDE DEF r
<1>5. Path(r) # <<>> /\ Head(Path(r)) = Head(net[r]) /\ Path(r)' = Tail(Path(r))
  <2>1. net[r] \in Seq(Frame) /\ hand[r] \in Seq(Frame) /\ outputs[r] \in Seq(Frame)
    BY <1>1, OrderTypes
  <2>2. Path(r)' = Tail(net[r]) \o hand[r] \o outputs[r]
    BY <1>3, <1>4 DEF Path
  <2> QED BY <1>2, <2>1, <2>2, CatReads DEF Path
<1>6. ASSUME NEW f \in Frame, Enqueue(p, f) PROVE Path(p)' = Append(Path(p), f)
  <2>1. outputs'[p] = Append(outputs[p], f)
    BY <1>6 DEF Enqueue, TypeOK, WiresTypeOK
  <2>2. Path(p)' = net[p] \o hand[p] \o Append(outputs[p], f)
    BY <1>3, <2>1 DEF Path
  <2>3. net[p] \in Seq(Frame) /\ hand[p] \in Seq(Frame) /\ outputs[p] \in Seq(Frame)
    BY OrderTypes
  <2> QED BY <2>2, <2>3, CatQueues, ZenonT(60) DEF Path
<1>7. UNCHANGED outputs => Path(p)' = Path(p)
  BY <1>3 DEF Path
<1> QED BY <1>2, <1>5, <1>6, <1>7 DEF r

\* One more frame behind a sequence, and the sequence behind its first frame.
LEMMA Behind ==
  ASSUME NEW q \in Seq(Frame), NEW f \in Frame
  PROVE  /\ Len(q) \in Nat /\ Len(Append(q, f)) = Len(q) + 1
         /\ \A i \in 1 .. Len(q) : Append(q, f)[i] = q[i]
         /\ Append(q, f)[Len(q) + 1] = f
         /\ \A i \in 1 .. Len(Append(q, f)) : i \in 1 .. Len(q) \/ i = Len(q) + 1
<1>1. Len(q) \in Nat /\ Len(Append(q, f)) = Len(q) + 1
  BY AppendProperties, LenProperties
<1> QED BY <1>1, AppendProperties

LEMMA Ahead ==
  ASSUME NEW q \in Seq(Frame), q # <<>>
  PROVE  /\ Len(q) \in Nat /\ 1 \in 1 .. Len(q) /\ Head(q) = q[1]
         /\ \A i \in 1 .. Len(Tail(q)) : Tail(q)[i] = q[i + 1] /\ i + 1 \in 1 .. Len(q)
         /\ \A i \in 1 .. Len(q) : i = 1 \/ (i - 1 \in 1 .. Len(Tail(q)) /\ q[i] = Tail(q)[i - 1])
<1>1. Len(q) \in Nat /\ Len(q) >= 1 /\ Head(q) = q[1] /\ Len(Tail(q)) = Len(q) - 1
  OBVIOUS
<1>2. \A i \in 1 .. Len(Tail(q)) : Tail(q)[i] = q[i + 1]
  BY HeadTailProperties
<1>3. \A i \in 1 .. Len(q) : i = 1 \/ (i - 1 \in 1 .. Len(Tail(q)) /\ (i - 1) + 1 = i)
  BY <1>1
<1> QED BY <1>1, <1>2, <1>3

LEMMA CarriedQueues ==
  ASSUME TypeOK, NEW p \in Peers, NEW f \in Frame, Path(p)' = Append(Path(p), f)
  PROVE  Carried(p)' = Carried(p) \cup {f}
<1> DEFINE q == Path(p)
           a == Append(q, f)
<1>1. q \in Seq(Frame)
  BY PathTypes
<1>2. /\ Len(q) \in Nat /\ Len(a) = Len(q) + 1
      /\ \A i \in 1 .. Len(q) : a[i] = q[i]
      /\ a[Len(q) + 1] = f
      /\ \A i \in 1 .. Len(a) : i \in 1 .. Len(q) \/ i = Len(q) + 1
  BY <1>1, Behind
<1>3. Carried(p)' = {a[i] : i \in 1 .. Len(a)} /\ Carried(p) = {q[i] : i \in 1 .. Len(q)}
  BY DEF Carried
<1> HIDE DEF q, a
<1>4. Len(q) + 1 \in 1 .. Len(a) /\ \A i \in 1 .. Len(q) : i \in 1 .. Len(a)
  BY <1>2
<1> QED BY <1>2, <1>3, <1>4

LEMMA CarriedReads ==
  ASSUME TypeOK, NEW p \in Peers, Path(p) # <<>>, Path(p)' = Tail(Path(p))
  PROVE  Carried(p) = Carried(p)' \cup {Head(Path(p))}
<1> DEFINE q == Path(p)
           t == Tail(q)
<1>1. q \in Seq(Frame)
  BY PathTypes
<1>2. /\ 1 \in 1 .. Len(q) /\ Head(q) = q[1]
      /\ \A i \in 1 .. Len(t) : t[i] = q[i + 1] /\ i + 1 \in 1 .. Len(q)
      /\ \A i \in 1 .. Len(q) : i = 1 \/ (i - 1 \in 1 .. Len(t) /\ q[i] = t[i - 1])
  BY <1>1, Ahead
<1>3. Carried(p)' = {t[i] : i \in 1 .. Len(t)} /\ Carried(p) = {q[i] : i \in 1 .. Len(q)}
  BY DEF Carried
<1> HIDE DEF q, t
<1>4. {q[i] : i \in 1 .. Len(q)} = {t[i] : i \in 1 .. Len(t)} \cup {q[1]}
  <2>1. \A i \in 1 .. Len(q) : q[i] \in {t[j] : j \in 1 .. Len(t)} \cup {q[1]}
    BY <1>2
  <2>2. \A i \in 1 .. Len(t) : t[i] \in {q[j] : j \in 1 .. Len(q)}
    BY <1>2
  <2> QED BY <1>2, <2>1, <2>2, ZenonT(60)
<1> QED BY <1>2, <1>3, <1>4 DEF q

-----------------------------------------------------------------------------
(* Requests: what was published is under way or admitted, and only what    *)
(* was published has a body.                                               *)

Published(p, s) == call[p][s] \notin {"none", "publishing", "unpublished"}

RequestsMatch == \A p \in Peers :
  /\ \A f \in Carried(p) : IsRequest(f) => f.id \in Serials /\ Published(p, f.id)
  /\ \A s \in Serials : body[Other(p)][s] # "none" => Published(p, s)
  /\ \A s \in Serials : Published(p, s) =>
       s <= admitted[Other(p)] \/ \E f \in Carried(p) : IsRequest(f) /\ f.id = s

\* A step of a caller publishes one call, with its request; or none, and then it
\* queues nothing or the cancellation of a call that was published.
LEMMA CallingPublishes ==
  ASSUME TypeOK, Unreserved, NEW p \in Peers, Calling(p)
  PROVE  /\ UNCHANGED <<reply, bodyVars, eventVars, hand, net>>
         /\ \/ \E s \in Serials, m \in Methods :
                 /\ Enqueue(p, RequestFrame(p, s, m))
                 /\ \A q \in Peers, c \in Serials :
                      Published(q, c)' <=> Published(q, c) \/ (q = p /\ c = s)
            \/ /\ \/ UNCHANGED outputs
                  \/ \E s \in Serials : Published(p, s) /\ Enqueue(p, CancelFrame(p, s))
               /\ \A q \in Peers, c \in Serials : Published(q, c)' <=> Published(q, c)
<1> DEFINE Sets(s, state) == \A q \in Peers, c \in Serials :
             call'[q][c] = IF q = p /\ c = s THEN state ELSE call[q][c]
<1>1. \A s \in Serials : \A state : call' = [call EXCEPT ![p][s] = state] => Sets(s, state)
  BY DEF TypeOK, CallsTypeOK
<1>2. ASSUME NEW b \in 0 .. EventLoop, NEW m \in Methods, CallAdmit(p, m, b)
      PROVE  \E s \in Serials :
               /\ call[p][s] = "none"
               /\ \/ Sets(s, "waiting") /\ Enqueue(p, RequestFrame(p, s, m))
                  \/ Sets(s, "publishing") /\ UNCHANGED outputs
  <2>1. next[p] + 1 \in Serials /\ next[p] + 1 > next[p]
    BY <1>2, PeerAssumption DEF CallAdmit, TypeOK, CallsTypeOK, Serials
  <2>2. call[p][next[p] + 1] = "none"
    BY <2>1 DEF Unreserved
  <2> HIDE DEF Sets
  <2> QED BY <1>1, <1>2, <2>1, <2>2 DEF CallAdmit, Reserve
<1>3. ASSUME NEW b \in 0 .. EventLoop, CallRefused(p, b)
      PROVE  \E s \in Serials : call[p][s] = "none" /\ Sets(s, "unpublished")
  <2>1. next[p] + 1 \in Serials /\ next[p] + 1 > next[p]
    BY <1>3, PeerAssumption DEF CallRefused, TypeOK, CallsTypeOK, Serials
  <2>2. call[p][next[p] + 1] = "none"
    BY <2>1 DEF Unreserved
  <2> HIDE DEF Sets
  <2> QED BY <1>1, <1>3, <2>1, <2>2 DEF CallRefused, Reserve
<1>4. ASSUME NEW s \in Serials, PublishWithdrawn(p, s) \/ PublishTimeout(p, s)
      PROVE  call[p][s] = "publishing" /\ Sets(s, "unpublished")
  <2> HIDE DEF Sets
  <2> QED BY <1>1, <1>4 DEF PublishWithdrawn, PublishTimeout
<1>5. ASSUME NEW s \in Serials, AwaitReply(p, s) \/ AwaitExpires(p, s) \/ AwaitEnded(p, s)
      PROVE  /\ call[p][s] = "waiting"
             /\ \E state \in Answers \cup {"expired", "ended"} : Sets(s, state)
  <2>1. call[p][s] = "waiting"
    BY <1>5 DEF AwaitReply, AwaitExpires, AwaitEnded
  <2>2. \E state \in Answers \cup {"expired", "ended"} : call' = [call EXCEPT ![p][s] = state]
    <3>1. CASE AwaitReply(p, s)
      <4>1. reply[p][s] \in Answers /\ call' = [call EXCEPT ![p][s] = reply[p][s]]
        BY <3>1 DEF AwaitReply, TypeOK, CallsTypeOK
      <4> QED BY <4>1
    <3>2. CASE AwaitExpires(p, s) \/ AwaitEnded(p, s)
      BY <3>2 DEF AwaitExpires, AwaitEnded
    <3> QED BY <1>5, <3>1, <3>2
  <2> HIDE DEF Sets
  <2> QED BY <1>1, <2>1, <2>2
<1>6. \A state \in Answers \cup {"expired", "ended"} : state \notin {"none", "publishing", "unpublished"}
  BY DEF Answers
<1>7. ASSUME NEW s \in Serials, NEW state, Sets(s, state),
             \/ call[p][s] = "none" /\ state = "publishing"
             \/ call[p][s] \in {"none", "publishing"} /\ state = "unpublished"
             \/ call[p][s] = "waiting" /\ state \in Answers \cup {"expired", "ended"}
      PROVE  \A q \in Peers, c \in Serials : Published(q, c)' <=> Published(q, c)
  BY <1>6, <1>7 DEF Published
<1>8. ASSUME NEW s \in Serials, Sets(s, "waiting")
      PROVE  \A q \in Peers, c \in Serials :
               Published(q, c)' <=> Published(q, c) \/ (q = p /\ c = s)
  BY <1>8 DEF Published
<1>9. UNCHANGED <<reply, bodyVars, eventVars, hand, net>>
  BY DEF Calling, CallAdmit, CallRefused, CallExhausted, PublishRoom, PublishWithdrawn,
         PublishTimeout, AwaitReply, AwaitExpires, AwaitEnded, wireVars, callVars
<1> HIDE DEF Sets
<1>10. ASSUME NEW b \in 0 .. EventLoop, NEW m \in Methods, CallAdmit(p, m, b)
       PROVE  \/ \E s \in Serials :
                   /\ Enqueue(p, RequestFrame(p, s, m))
                   /\ \A q \in Peers, c \in Serials :
                        Published(q, c)' <=> Published(q, c) \/ (q = p /\ c = s)
              \/ /\ UNCHANGED outputs
                 /\ \A q \in Peers, c \in Serials : Published(q, c)' <=> Published(q, c)
  BY <1>2, <1>7, <1>8, <1>10
<1>11. ASSUME NEW b \in 0 .. EventLoop, CallRefused(p, b) \/ CallExhausted(p, b)
       PROVE  /\ UNCHANGED outputs
              /\ \A q \in Peers, c \in Serials : Published(q, c)' <=> Published(q, c)
  <2>1. CASE CallRefused(p, b)
    <3>1. UNCHANGED outputs
      BY <2>1 DEF CallRefused, wireVars
    <3> QED BY <1>3, <1>7, <2>1, <3>1
  <2>2. CASE CallExhausted(p, b)
    BY <2>2 DEF CallExhausted, callVars, wireVars, Published
  <2> QED BY <1>11, <2>1, <2>2
<1>12. ASSUME NEW s \in Serials, NEW m \in Methods, PublishRoom(p, s, m)
       PROVE  /\ Enqueue(p, RequestFrame(p, s, m))
              /\ \A q \in Peers, c \in Serials :
                   Published(q, c)' <=> Published(q, c) \/ (q = p /\ c = s)
  BY <1>1, <1>8, <1>12 DEF PublishRoom
<1>13. ASSUME NEW s \in Serials,
              \/ PublishWithdrawn(p, s) \/ PublishTimeout(p, s)
              \/ AwaitReply(p, s) \/ AwaitExpires(p, s) \/ AwaitEnded(p, s)
       PROVE  /\ UNCHANGED outputs \/ (Published(p, s) /\ Enqueue(p, CancelFrame(p, s)))
              /\ \A q \in Peers, c \in Serials : Published(q, c)' <=> Published(q, c)
  <2>1. UNCHANGED outputs \/ (Published(p, s) /\ Enqueue(p, CancelFrame(p, s)))
    BY <1>13 DEF PublishWithdrawn, PublishTimeout, AwaitReply, AwaitExpires, AwaitEnded,
                 wireVars, Published
  <2> QED BY <1>4, <1>5, <1>7, <1>13, <2>1
<1> QED BY <1>9, <1>10, <1>11, <1>12, <1>13 DEF Calling

\* What a conforming reader does with the head of the connection.
LEMMA ReadingTakes ==
  ASSUME TypeOK, SerialOrder, NEW p \in Peers, Reading(p)
  PROVE  \/ ReadRequest(p) \/ ReadRejected(p) \/ ReadResponse(p)
         \/ /\ \E kind \in {"cancel", "event"} : Receives(p, kind)
            /\ Consume(p)
            /\ UNCHANGED <<callVars, admitted, body, answer, value, outputs, hand>>
         \/ UNCHANGED <<callVars, bodyVars, wireVars>>
<1>1. ~ReadRefused(p)
  BY ReceivedOrder DEF ReadRefused
<1>2. CASE ReadCancel(p) \/ ReadEvent(p)
  BY <1>2 DEF ReadCancel, ReadEvent, bodyVars
<1>3. CASE EventRoom(p) \/ EventStall(p) \/ ReaderFails(p)
  BY <1>3 DEF EventRoom, EventStall, ReaderFails
<1> QED BY <1>1, <1>2, <1>3 DEF Reading

LEMMA ReadingCarries ==
  ASSUME TypeOK, NEW p \in Peers, NEW kind, Receives(p, kind), Consume(p), UNCHANGED hand,
         UNCHANGED outputs \/ \E f \in Frame : Enqueue(p, f)
  PROVE  /\ Carried(Other(p)) = Carried(Other(p))' \cup {Received(p)}
         /\ Received(p).kind = kind
         /\ UNCHANGED outputs => Carried(p)' = Carried(p)
         /\ \A f \in Frame : Enqueue(p, f) => Carried(p)' = Carried(p) \cup {f}
<1>1. Other(p) \in Peers
  BY OrderTypes
<1>2. /\ Path(Other(p)) # <<>> /\ Head(Path(Other(p))) = Received(p)
      /\ Path(Other(p))' = Tail(Path(Other(p)))
      /\ UNCHANGED outputs => Path(p)' = Path(p)
      /\ \A f \in Frame : Enqueue(p, f) => Path(p)' = Append(Path(p), f)
  BY PathReads
<1>3. Carried(Other(p)) = Carried(Other(p))' \cup {Received(p)}
  BY <1>1, <1>2, CarriedReads
<1>4. UNCHANGED outputs => Carried(p)' = Carried(p)
  BY <1>2 DEF Carried
<1>5. Received(p).kind = kind
  BY DEF Receives, Received
<1> QED BY <1>2, <1>3, <1>4, <1>5, CarriedQueues

LEMMA QueueCarries ==
  ASSUME TypeOK, NEW p \in Peers, NEW f \in Frame, Enqueue(p, f), UNCHANGED <<hand, net>>
  PROVE  /\ Carried(p)' = Carried(p) \cup {f}
         /\ \A q \in Peers : q # p => Carried(q)' = Carried(q)
BY PathQueues, CarriedQueues DEF Carried

\* The refusal a reader queues is a frame that is no request.
LEMMA RejectionFrame ==
  ASSUME TypeOK, NEW p \in Peers, ReadRejected(p)
  PROVE  UNCHANGED outputs \/
         \E a \in {"busy", "method_not_found"} :
           /\ ResponseFrame(p, Received(p).id, a) \in Frame
           /\ Enqueue(p, ResponseFrame(p, Received(p).id, a))
<1>1. \/ UNCHANGED outputs
      \/ \E a \in {"busy", "method_not_found"} : Enqueue(p, ResponseFrame(p, Received(p).id, a))
  BY DEF ReadRejected
<1>2. Received(p).id \in Nat
  BY ReceivedTypes DEF ReadRejected
<1>3. \A a \in {"busy", "method_not_found"} : ResponseFrame(p, Received(p).id, a) \in Frame
  BY <1>2, FrameTypes DEF Answers
<1> QED BY <1>1, <1>3

\* A step that publishes nothing, starts no body and moves no request.
LEMMA RequestsKept ==
  ASSUME RequestsMatch, UNCHANGED admitted,
         \A q \in Peers, s \in Serials : Published(q, s)' <=> Published(q, s),
         \A q \in Peers, s \in Serials : body'[q][s] # "none" => body[q][s] # "none",
         \A q \in Peers : \A f : IsRequest(f) => (f \in Carried(q)' <=> f \in Carried(q))
  PROVE  RequestsMatch'
<1>1. \A q \in Peers : Other(q) \in Peers
  BY DEF Other, Peers
<1> SUFFICES ASSUME NEW q \in Peers
             PROVE  /\ \A f \in Carried(q)' : IsRequest(f) => f.id \in Serials /\ Published(q, f.id)'
                    /\ \A s \in Serials : body'[Other(q)][s] # "none" => Published(q, s)'
                    /\ \A s \in Serials : Published(q, s)' =>
                         \/ s <= admitted'[Other(q)]
                         \/ \E f \in Carried(q)' : IsRequest(f) /\ f.id = s
  BY DEF RequestsMatch
<1>2. /\ \A f \in Carried(q) : IsRequest(f) => f.id \in Serials /\ Published(q, f.id)
      /\ \A s \in Serials : body[Other(q)][s] # "none" => Published(q, s)
      /\ \A s \in Serials : Published(q, s) =>
           s <= admitted[Other(q)] \/ \E f \in Carried(q) : IsRequest(f) /\ f.id = s
  BY DEF RequestsMatch
<1> QED BY <1>1, <1>2

LEMMA RequestsCalling ==
  ASSUME TypeOK, Unreserved, RequestsMatch, NEW p \in Peers, Calling(p)
  PROVE  RequestsMatch'
<1>1. /\ UNCHANGED <<bodyVars, hand, net>>
      /\ \/ \E s \in Serials, m \in Methods :
              /\ Enqueue(p, RequestFrame(p, s, m))
              /\ \A q \in Peers, c \in Serials :
                   Published(q, c)' <=> Published(q, c) \/ (q = p /\ c = s)
         \/ /\ \/ UNCHANGED outputs
               \/ \E s \in Serials : Published(p, s) /\ Enqueue(p, CancelFrame(p, s))
            /\ \A q \in Peers, c \in Serials : Published(q, c)' <=> Published(q, c)
  BY CallingPublishes
<1>2. ASSUME NEW s \in Serials, NEW m \in Methods, Enqueue(p, RequestFrame(p, s, m)),
             \A q \in Peers, c \in Serials :
               Published(q, c)' <=> Published(q, c) \/ (q = p /\ c = s)
      PROVE  RequestsMatch'
  <2> DEFINE f == RequestFrame(p, s, m)
  <2>1. f \in Frame /\ IsRequest(f) /\ f.id = s
    BY FrameTypes, PeerAssumption DEF Serials, RequestFrame, IsRequest
  <2>2. /\ Carried(p)' = Carried(p) \cup {f}
        /\ \A q \in Peers : q # p => Carried(q)' = Carried(q)
    BY <1>1, <1>2, <2>1, QueueCarries
  <2> HIDE DEF f
  <2>3. admitted' = admitted /\ body' = body
    BY <1>1 DEF bodyVars
  <2>4. ASSUME NEW q \in Peers
        PROVE  /\ \A g \in Carried(q)' : IsRequest(g) => g.id \in Serials /\ Published(q, g.id)'
               /\ \A c \in Serials : body'[Other(q)][c] # "none" => Published(q, c)'
               /\ \A c \in Serials : Published(q, c)' =>
                    \/ c <= admitted'[Other(q)]
                    \/ \E g \in Carried(q)' : IsRequest(g) /\ g.id = c
    <3>1. /\ \A g \in Carried(q) : IsRequest(g) => g.id \in Serials /\ Published(q, g.id)
          /\ \A c \in Serials : body[Other(q)][c] # "none" => Published(q, c)
          /\ \A c \in Serials : Published(q, c) =>
               c <= admitted[Other(q)] \/ \E g \in Carried(q) : IsRequest(g) /\ g.id = c
      BY DEF RequestsMatch
    <3>2. CASE q = p
      BY <1>2, <2>1, <2>2, <2>3, <3>1, <3>2
    <3>3. CASE q # p
      BY <1>2, <2>2, <2>3, <3>1, <3>3
    <3> QED BY <3>2, <3>3
  <2> QED BY <2>4 DEF RequestsMatch
<1>3. ASSUME UNCHANGED outputs \/ \E s \in Serials : Published(p, s) /\ Enqueue(p, CancelFrame(p, s)),
             \A q \in Peers, c \in Serials : Published(q, c)' <=> Published(q, c)
      PROVE  RequestsMatch'
  <2>1. \A q \in Peers : \A g : IsRequest(g) => (g \in Carried(q)' <=> g \in Carried(q))
    <3>1. CASE UNCHANGED outputs
      BY <1>1, <3>1, PathUnchanged DEF wireVars
    <3>2. ASSUME NEW s \in Serials, Enqueue(p, CancelFrame(p, s))
          PROVE  \A q \in Peers : \A g : IsRequest(g) => (g \in Carried(q)' <=> g \in Carried(q))
      <4>1. CancelFrame(p, s) \in Frame /\ ~IsRequest(CancelFrame(p, s))
        BY FrameTypes, PeerAssumption DEF Serials, CancelFrame, IsRequest
      <4>2. /\ Carried(p)' = Carried(p) \cup {CancelFrame(p, s)}
            /\ \A q \in Peers : q # p => Carried(q)' = Carried(q)
        BY <1>1, <3>2, <4>1, QueueCarries
      <4> QED BY <4>1, <4>2
    <3> QED BY <1>3, <3>1, <3>2
  <2>2. UNCHANGED <<admitted, body>>
    BY <1>1 DEF bodyVars
  <2> QED BY <1>3, <2>1, <2>2, RequestsKept
<1> QED BY <1>1, <1>2, <1>3

\* A request read is admitted, and gets the body its serial is entitled to.
LEMMA RequestsAdmitted ==
  ASSUME TypeOK, RequestsMatch, NEW p \in Peers, ReadRequest(p) \/ ReadRejected(p)
  PROVE  RequestsMatch'
<1> DEFINE n == Received(p).id
           r == Other(p)
<1>1. /\ Receives(p, "request") /\ Consume(p) /\ UNCHANGED <<callVars, hand>>
      /\ n > admitted[p] /\ admitted' = [admitted EXCEPT ![p] = n]
      /\ \E state : body' = [body EXCEPT ![p][n] = state]
  BY DEF ReadRequest, ReadRejected, Admits
<1>2. \/ UNCHANGED outputs
      \/ \E f \in Frame : ~IsRequest(f) /\ Enqueue(p, f)
  <2>1. CASE ReadRequest(p)
    BY <2>1 DEF ReadRequest
  <2>2. CASE ReadRejected(p)
    <3>1. \A a : ~IsRequest(ResponseFrame(p, Received(p).id, a))
      BY DEF ResponseFrame, IsRequest
    <3> QED BY <2>2, <3>1, RejectionFrame
  <2> QED BY <2>1, <2>2
<1>3. /\ r \in Peers /\ r # p /\ Other(r) = p /\ \A q \in Peers : q = p \/ q = r
  BY DEF Other, Peers
<1>4. Carried(r) = Carried(r)' \cup {Received(p)} /\ IsRequest(Received(p))
  BY <1>1, <1>2, ReadingCarries DEF IsRequest
<1>5. \A f : IsRequest(f) => (f \in Carried(p)' <=> f \in Carried(p))
  <2>1. /\ UNCHANGED outputs => Carried(p)' = Carried(p)
        /\ \A f \in Frame : Enqueue(p, f) => Carried(p)' = Carried(p) \cup {f}
    BY <1>1, <1>2, ReadingCarries
  <2> QED BY <1>2, <2>1
<1>6. /\ \A q \in Peers, s \in Serials : Published(q, s)' <=> Published(q, s)
  BY <1>1 DEF Published, callVars
<1>7. n \in Nat /\ admitted'[p] = n /\ admitted'[r] = admitted[r] /\ admitted[p] \in Nat
  BY <1>1, <1>3, ReceivedTypes DEF TypeOK, BodiesTypeOK
<1>8. \A s \in Serials : (s # n => body'[p][s] = body[p][s]) /\ body'[r][s] = body[r][s]
  BY <1>1, <1>3 DEF TypeOK, BodiesTypeOK
<1>9. \A s \in Serials : s \in Nat
  BY PeerAssumption DEF Serials
<1>10. /\ \A f \in Carried(r) : IsRequest(f) => f.id \in Serials /\ Published(r, f.id)
       /\ \A s \in Serials : body[p][s] # "none" => Published(r, s)
       /\ \A s \in Serials : Published(r, s) =>
            s <= admitted[p] \/ \E f \in Carried(r) : IsRequest(f) /\ f.id = s
  BY <1>3 DEF RequestsMatch
<1>11. /\ \A f \in Carried(p) : IsRequest(f) => f.id \in Serials /\ Published(p, f.id)
       /\ \A s \in Serials : body[r][s] # "none" => Published(p, s)
       /\ \A s \in Serials : Published(p, s) =>
            s <= admitted[r] \/ \E f \in Carried(p) : IsRequest(f) /\ f.id = s
  BY DEF RequestsMatch
<1>12. n \in Serials /\ Published(r, n)
  BY <1>4, <1>10
<1> HIDE DEF r
<1>13. /\ \A f \in Carried(r)' : IsRequest(f) => f.id \in Serials /\ Published(r, f.id)'
       /\ \A s \in Serials : body'[p][s] # "none" => Published(r, s)'
  BY <1>3, <1>4, <1>6, <1>8, <1>10, <1>12
<1>14. \A s \in Serials : Published(r, s)' =>
         s <= admitted'[p] \/ \E f \in Carried(r)' : IsRequest(f) /\ f.id = s
  <2> SUFFICES ASSUME NEW s \in Serials, Published(r, s)', ~(s <= n)
               PROVE  \E f \in Carried(r)' : IsRequest(f) /\ f.id = s
    BY <1>7
  <2>1. ~(s <= admitted[p])
    BY <1>1, <1>7, <1>9
  <2>2. PICK f \in Carried(r) : IsRequest(f) /\ f.id = s
    BY <1>3, <1>6, <1>10, <2>1
  <2>3. f # Received(p)
    BY <1>9, <2>2
  <2> QED BY <1>4, <2>2, <2>3
<1>15. /\ \A f \in Carried(p)' : IsRequest(f) => f.id \in Serials /\ Published(p, f.id)'
       /\ \A s \in Serials : body'[r][s] # "none" => Published(p, s)'
       /\ \A s \in Serials : Published(p, s)' =>
            s <= admitted'[r] \/ \E f \in Carried(p)' : IsRequest(f) /\ f.id = s
  BY <1>5, <1>6, <1>7, <1>8, <1>11
<1>16. \A q \in Peers :
         /\ \A f \in Carried(q)' : IsRequest(f) => f.id \in Serials /\ Published(q, f.id)'
         /\ \A s \in Serials : body'[Other(q)][s] # "none" => Published(q, s)'
         /\ \A s \in Serials : Published(q, s)' =>
              s <= admitted'[Other(q)] \/ \E f \in Carried(q)' : IsRequest(f) /\ f.id = s
  BY <1>3, <1>13, <1>14, <1>15 DEF r
<1> QED BY <1>16 DEF RequestsMatch

\* The frames other than requests that a serving or emitting peer queues.
LEMMA ServingQueues ==
  ASSUME TypeOK, NEW p \in Peers, NEW s \in Serials
  PROVE  /\ ResponseFrame(p, s, value[p][s]) \in Frame
         /\ EventFrame(p, emitted[p] + 1) \in Frame
<1>1. s \in Nat /\ emitted[p] + 1 \in Nat /\ value[p][s] \in Answers \cup {"none"}
  BY PeerAssumption DEF Serials, TypeOK, EventsTypeOK, BodiesTypeOK
<1> QED BY <1>1, FrameTypes

LEMMA ServingCarries ==
  ASSUME TypeOK, NEW p \in Peers, Serving(p) \/ Eventing(p) \/ Ending(p)
  PROVE  /\ UNCHANGED <<callVars, admitted, hand, net>>
         /\ \A q \in Peers, s \in Serials : body'[q][s] # "none" => body[q][s] # "none"
         /\ \A q \in Peers : \A f : IsRequest(f) => (f \in Carried(q)' <=> f \in Carried(q))
<1>1. UNCHANGED <<callVars, admitted, hand, net>>
  <2>1. CASE Serving(p)
    BY <2>1 DEF Serving, HandlerReturns, Deadline, DeadlineAnswers, Respond, RespondFails,
                BodyEnds, wireVars
  <2>2. CASE Eventing(p) \/ Ending(p)
    BY <2>2 DEF Eventing, Emit, EmitTimeout, EventTake, EventHandled, EventPanics, Ending,
                Close, ContextEnds, wireVars, bodyVars
  <2> QED BY <2>1, <2>2
<1>2. \A q \in Peers, s \in Serials : body'[q][s] # "none" => body[q][s] # "none"
  <2>1. \/ UNCHANGED body
        \/ \E s \in Serials : \E state : body[p][s] # "none" /\ body' = [body EXCEPT ![p][s] = state]
    <3>1. CASE Serving(p)
      BY <3>1 DEF Serving, HandlerReturns, Deadline, DeadlineAnswers, Respond, RespondFails,
                  BodyEnds
    <3>2. CASE Eventing(p) \/ Ending(p)
      BY <3>2 DEF Eventing, Emit, EmitTimeout, EventTake, EventHandled, EventPanics, Ending,
                  Close, ContextEnds, bodyVars
    <3> QED BY <3>1, <3>2
  <2> QED BY <2>1 DEF TypeOK, BodiesTypeOK
<1>3. \/ UNCHANGED outputs
      \/ \E f \in Frame : ~IsRequest(f) /\ Enqueue(p, f)
  <2>1. \A s, a : ~IsRequest(ResponseFrame(p, s, a)) /\ ~IsRequest(EventFrame(p, s))
    BY DEF ResponseFrame, EventFrame, IsRequest
  <2>2. CASE Serving(p)
    BY <2>1, <2>2, ServingQueues
       DEF Serving, HandlerReturns, Deadline, DeadlineAnswers, Respond, RespondFails,
           BodyEnds, wireVars
  <2>3. CASE Emit(p)
    <3>1. 1 \in Serials
      BY PeerAssumption DEF Serials
    <3> QED BY <2>1, <2>3, <3>1, ServingQueues DEF Emit
  <2>4. CASE EmitTimeout(p) \/ EventTake(p) \/ EventHandled(p) \/ EventPanics(p) \/ Ending(p)
    BY <2>4 DEF EmitTimeout, EventTake, EventHandled, EventPanics, Ending, Close, ContextEnds,
                wireVars
  <2> QED BY <2>2, <2>3, <2>4 DEF Eventing
<1>4. \A q \in Peers : \A f : IsRequest(f) => (f \in Carried(q)' <=> f \in Carried(q))
  <2>1. CASE UNCHANGED outputs
    BY <1>1, <2>1, PathUnchanged DEF wireVars
  <2>2. ASSUME NEW f \in Frame, ~IsRequest(f), Enqueue(p, f)
        PROVE  \A q \in Peers : \A g : IsRequest(g) => (g \in Carried(q)' <=> g \in Carried(q))
    <3>1. /\ Carried(p)' = Carried(p) \cup {f}
          /\ \A q \in Peers : q # p => Carried(q)' = Carried(q)
      BY <1>1, <2>2, QueueCarries
    <3> QED BY <2>2, <3>1
  <2> QED BY <1>3, <2>1, <2>2
<1> QED BY <1>1, <1>2, <1>4

LEMMA RequestsStep ==
  ASSUME TypeOK, SerialOrder, Unreserved, RequestsMatch, [Next]_vars, Nonconforming = {}
  PROVE  RequestsMatch'
<1>1. ASSUME UNCHANGED <<call, admitted, body>>,
             \A q \in Peers : \A f : IsRequest(f) => (f \in Carried(q)' <=> f \in Carried(q))
      PROVE  RequestsMatch'
  BY <1>1, RequestsKept DEF Published
<1>2. CASE UNCHANGED vars
  BY <1>1, <1>2, PathUnchanged DEF vars, callVars, bodyVars
<1>3. ASSUME NEW p \in Peers, Writing(p) PROVE RequestsMatch'
  <2>1. UNCHANGED <<callVars, bodyVars>>
    BY <1>3 DEF Writing, WriterTake, WriterSend, WriterFails
  <2>2. \A q \in Peers : Carried(q)' = Carried(q)
    BY <1>3, PathWrites DEF Carried, SerialOrder, WireOrder, HandHolds
  <2> QED BY <1>1, <2>1, <2>2 DEF callVars, bodyVars
<1>4. ASSUME NEW p \in Peers, Reading(p) PROVE RequestsMatch'
  <2>1. CASE ReadRequest(p) \/ ReadRejected(p)
    BY <2>1, RequestsAdmitted
  <2>2. ASSUME NEW kind \in {"response", "cancel", "event"}, Receives(p, kind), Consume(p),
               UNCHANGED <<call, admitted, body, outputs, hand>>
        PROVE  RequestsMatch'
    <3>1. /\ Carried(Other(p)) = Carried(Other(p))' \cup {Received(p)}
          /\ Carried(p)' = Carried(p) /\ ~IsRequest(Received(p))
      BY <2>2, ReadingCarries DEF IsRequest
    <3>2. \A q \in Peers : q = p \/ q = Other(p)
      BY DEF Peers, Other
    <3>3. \A q \in Peers : \A f : IsRequest(f) => (f \in Carried(q)' <=> f \in Carried(q))
      BY <3>1, <3>2
    <3> QED BY <1>1, <2>2, <3>3
  <2>3. CASE ReadResponse(p)
    BY <2>2, <2>3 DEF ReadResponse, bodyVars
  <2>4. CASE UNCHANGED <<callVars, bodyVars, wireVars>>
    BY <1>1, <2>4, PathUnchanged DEF callVars, bodyVars
  <2> QED BY <1>4, <2>1, <2>2, <2>3, <2>4, ReadingTakes DEF callVars
<1>5. ASSUME NEW p \in Peers, Serving(p) \/ Eventing(p) \/ Ending(p) PROVE RequestsMatch'
  BY <1>5, ServingCarries, RequestsKept DEF Published, callVars
<1>6. ASSUME NEW p \in Peers, NEW f \in StrayFrames, Stray(p, f) PROVE FALSE
  BY <1>6 DEF Stray
<1> QED BY <1>2, <1>3, <1>4, <1>5, <1>6, RequestsCalling DEF Next

-----------------------------------------------------------------------------
(* Cancellations: behind their request on the way, or after its admission. *)

Follows(q, lo) == \A i \in 1 .. Len(q) : q[i].kind = "cancel" =>
  q[i].id <= lo \/ \E j \in 1 .. i - 1 : IsRequest(q[j]) /\ q[j].id = q[i].id

CancelOrder == \A p \in Peers : Follows(Path(p), admitted[Other(p)])

LEMMA FollowsBehind ==
  ASSUME NEW q \in Seq(Frame), NEW f \in Frame, NEW lo, Follows(q, lo),
         f.kind = "cancel" =>
           f.id <= lo \/ \E j \in 1 .. Len(q) : IsRequest(q[j]) /\ q[j].id = f.id
  PROVE  Follows(Append(q, f), lo)
<1> DEFINE a == Append(q, f)
<1>1. /\ Len(q) \in Nat /\ Len(a) = Len(q) + 1
      /\ \A i \in 1 .. Len(q) : a[i] = q[i]
      /\ a[Len(q) + 1] = f
      /\ \A i \in 1 .. Len(a) : i \in 1 .. Len(q) \/ i = Len(q) + 1
  BY Behind
<1> HIDE DEF a
<1>2. SUFFICES ASSUME NEW i \in 1 .. Len(a), a[i].kind = "cancel", ~(a[i].id <= lo)
               PROVE  \E j \in 1 .. i - 1 : IsRequest(a[j]) /\ a[j].id = a[i].id
  BY DEF Follows, a
<1>3. CASE i \in 1 .. Len(q)
  <2>1. PICK j \in 1 .. i - 1 : IsRequest(q[j]) /\ q[j].id = q[i].id
    BY <1>1, <1>2, <1>3 DEF Follows
  <2>2. j \in 1 .. Len(q)
    BY <1>1, <1>3
  <2> QED BY <1>1, <1>3, <2>1, <2>2
<1>4. CASE i = Len(q) + 1
  <2>1. PICK j \in 1 .. Len(q) : IsRequest(q[j]) /\ q[j].id = f.id
    BY <1>1, <1>2, <1>4
  <2>2. j \in 1 .. i - 1
    BY <1>1, <1>4
  <2> QED BY <1>1, <1>4, <2>1, <2>2
<1> QED BY <1>1, <1>3, <1>4

LEMMA FollowsAhead ==
  ASSUME NEW q \in Seq(Frame), q # <<>>, NEW lo \in Nat, NEW hi \in Nat, Follows(q, lo),
         lo <= hi, IsRequest(Head(q)) => Head(q).id <= hi
  PROVE  Follows(Tail(q), hi)
<1> DEFINE t == Tail(q)
<1>1. /\ Len(q) \in Nat /\ Head(q) = q[1]
      /\ \A i \in 1 .. Len(t) : t[i] = q[i + 1] /\ i + 1 \in 1 .. Len(q)
      /\ \A i \in 1 .. Len(q) : i = 1 \/ (i - 1 \in 1 .. Len(t) /\ q[i] = t[i - 1])
  BY Ahead
<1>2. \A i \in 1 .. Len(q) : q[i].id \in Nat
  BY ElementOfSeq DEF Frame
<1> HIDE DEF t
<1>3. SUFFICES ASSUME NEW i \in 1 .. Len(t), t[i].kind = "cancel", ~(t[i].id <= hi)
               PROVE  \E j \in 1 .. i - 1 : IsRequest(t[j]) /\ t[j].id = t[i].id
  BY DEF Follows, t
<1>4. i + 1 \in 1 .. Len(q) /\ t[i] = q[i + 1] /\ t[i].id \in Nat /\ ~(q[i + 1].id <= lo)
  BY <1>1, <1>2, <1>3
<1>5. PICK j \in 1 .. (i + 1) - 1 : IsRequest(q[j]) /\ q[j].id = q[i + 1].id
  BY <1>3, <1>4 DEF Follows
<1>6. j # 1
  BY <1>1, <1>3, <1>4, <1>5
<1>7. j \in 1 .. Len(q) /\ j - 1 \in 1 .. i - 1
  BY <1>1, <1>4, <1>5, <1>6
<1>8. q[j] = t[j - 1]
  BY <1>1, <1>6, <1>7
<1> QED BY <1>4, <1>5, <1>7, <1>8

\* What a peer's bodies and emitters put on the way: a response, or an event.
LEMMA PathServing ==
  ASSUME TypeOK, NEW p \in Peers, Serving(p) \/ Eventing(p) \/ Ending(p)
  PROVE  \/ \A q \in Peers : Path(q)' = Path(q)
         \/ /\ \A q \in Peers : q # p => Path(q)' = Path(q)
            /\ \/ \E s \in Serials : /\ Respond(p, s)
                                     /\ ResponseFrame(p, s, value[p][s]) \in Frame
                                     /\ Path(p)' = Append(Path(p), ResponseFrame(p, s, value[p][s]))
               \/ /\ Emit(p) /\ EventFrame(p, emitted[p] + 1) \in Frame
                  /\ Path(p)' = Append(Path(p), EventFrame(p, emitted[p] + 1))
<1>1. ASSUME NEW s \in Serials, Respond(p, s)
      PROVE  /\ ResponseFrame(p, s, value[p][s]) \in Frame
             /\ Path(p)' = Append(Path(p), ResponseFrame(p, s, value[p][s]))
             /\ \A q \in Peers : q # p => Path(q)' = Path(q)
  <2>1. /\ ResponseFrame(p, s, value[p][s]) \in Frame
        /\ Enqueue(p, ResponseFrame(p, s, value[p][s])) /\ UNCHANGED <<hand, net>>
    BY <1>1, ServingQueues DEF Respond
  <2> QED BY <2>1, PathQueues
<1>2. CASE Emit(p)
  <2>1. 1 \in Serials
    BY PeerAssumption DEF Serials
  <2>2. /\ EventFrame(p, emitted[p] + 1) \in Frame
        /\ Enqueue(p, EventFrame(p, emitted[p] + 1)) /\ UNCHANGED <<hand, net>>
    BY <1>2, <2>1, ServingQueues DEF Emit
  <2> QED BY <1>2, <2>2, PathQueues
<1>3. ASSUME NEW s \in Serials,
             \/ \E o \in {"result", "error"} : HandlerReturns(p, s, o)
             \/ Deadline(p, s) \/ DeadlineAnswers(p, s) \/ RespondFails(p, s) \/ BodyEnds(p, s)
      PROVE  \A q \in Peers : Path(q)' = Path(q)
  <2>1. UNCHANGED wireVars
    BY <1>3 DEF HandlerReturns, Deadline, DeadlineAnswers, RespondFails, BodyEnds
  <2> QED BY <2>1, PathUnchanged
<1>4. CASE EmitTimeout(p) \/ EventTake(p) \/ EventHandled(p) \/ EventPanics(p) \/ Ending(p)
  <2>1. UNCHANGED wireVars
    BY <1>4 DEF EmitTimeout, EventTake, EventHandled, EventPanics, Ending, Close, ContextEnds
  <2> QED BY <2>1, PathUnchanged
<1> QED BY <1>1, <1>2, <1>3, <1>4 DEF Serving, Eventing

LEMMA CancelCalling ==
  ASSUME TypeOK, Unreserved, RequestsMatch, CancelOrder, NEW p \in Peers, Calling(p)
  PROVE  CancelOrder'
<1>1. /\ UNCHANGED <<admitted, hand, net>>
      /\ \/ UNCHANGED outputs
         \/ \E s \in Serials, m \in Methods : Enqueue(p, RequestFrame(p, s, m))
         \/ \E s \in Serials : Published(p, s) /\ Enqueue(p, CancelFrame(p, s))
  BY CallingPublishes DEF bodyVars
<1>2. CASE UNCHANGED outputs
  BY <1>1, <1>2, PathUnchanged DEF wireVars, CancelOrder
<1>3. ASSUME NEW f \in Frame, Enqueue(p, f),
             f.kind = "cancel" => f.id \in Serials /\ Published(p, f.id)
      PROVE  CancelOrder'
  <2> DEFINE q == Path(p)
             lo == admitted[Other(p)]
  <2>1. /\ Path(p)' = Append(q, f)
        /\ \A r \in Peers : r # p => Path(r)' = Path(r)
    BY <1>1, <1>3, PathQueues
  <2>2. q \in Seq(Frame) /\ Follows(q, lo)
    BY PathTypes DEF CancelOrder
  <2>3. f.kind = "cancel" =>
          f.id <= lo \/ \E j \in 1 .. Len(q) : IsRequest(q[j]) /\ q[j].id = f.id
    BY <1>3 DEF RequestsMatch, Carried
  <2> HIDE DEF q, lo
  <2>4. Follows(Append(q, f), lo)
    BY <2>2, <2>3, FollowsBehind
  <2> QED BY <1>1, <2>1, <2>4 DEF CancelOrder, lo
<1>4. \A s \in Serials, m \in Methods :
        RequestFrame(p, s, m) \in Frame /\ RequestFrame(p, s, m).kind # "cancel"
  BY FrameTypes, PeerAssumption DEF Serials, RequestFrame
<1>5. \A s \in Serials : CancelFrame(p, s) \in Frame /\ CancelFrame(p, s).id = s
  BY FrameTypes, PeerAssumption DEF Serials, CancelFrame
<1> QED BY <1>1, <1>2, <1>3, <1>4, <1>5

LEMMA CancelReading ==
  ASSUME TypeOK, SerialOrder, CancelOrder, NEW p \in Peers, Reading(p)
  PROVE  CancelOrder'
<1> DEFINE r == Other(p)
<1>1. r \in Peers /\ r # p /\ Other(r) = p /\ \A q \in Peers : q = p \/ q = r
  BY DEF Other, Peers
<1>2. ASSUME NEW kind, Receives(p, kind), Consume(p), UNCHANGED hand,
             UNCHANGED outputs \/ \E f \in Frame : f.kind = "response" /\ Enqueue(p, f),
             admitted'[r] = admitted[r], admitted'[p] \in Nat, admitted[p] <= admitted'[p],
             kind = "request" => Received(p).id <= admitted'[p]
      PROVE  CancelOrder'
  <2>1. /\ Path(r) # <<>> /\ Head(Path(r)) = Received(p) /\ Path(r)' = Tail(Path(r))
        /\ UNCHANGED outputs => Path(p)' = Path(p)
        /\ \A f \in Frame : Enqueue(p, f) => Path(p)' = Append(Path(p), f)
    BY <1>2, PathReads
  <2>2. Path(p) \in Seq(Frame) /\ Path(r) \in Seq(Frame) /\ admitted[p] \in Nat
    BY <1>1, PathTypes DEF TypeOK, BodiesTypeOK
  <2>3. Follows(Path(p), admitted[r]) /\ Follows(Path(r), admitted[p])
    BY <1>1 DEF CancelOrder
  <2>4. IsRequest(Head(Path(r))) => Head(Path(r)).id <= admitted'[p]
    BY <1>2, <2>1 DEF IsRequest, Receives, Received
  <2> HIDE DEF r
  <2>5. Follows(Path(r)', admitted'[p])
    BY <1>2, <2>1, <2>2, <2>3, <2>4, FollowsAhead
  <2>6. Follows(Path(p)', admitted'[r])
    <3>1. CASE UNCHANGED outputs
      BY <1>2, <2>1, <2>3, <3>1
    <3>2. ASSUME NEW f \in Frame, f.kind = "response", Enqueue(p, f)
          PROVE  Follows(Path(p)', admitted'[r])
      BY <1>2, <2>1, <2>2, <2>3, <3>2, FollowsBehind
    <3> QED BY <1>2, <3>1, <3>2
  <2> QED BY <1>1, <2>5, <2>6 DEF CancelOrder, r
<1>3. CASE ReadRequest(p) \/ ReadRejected(p)
  <2> DEFINE n == Received(p).id
  <2>1. /\ Receives(p, "request") /\ Consume(p) /\ UNCHANGED hand
        /\ n > admitted[p] /\ admitted' = [admitted EXCEPT ![p] = n]
    BY <1>3 DEF ReadRequest, ReadRejected, Admits
  <2>2. UNCHANGED outputs \/ \E f \in Frame : f.kind = "response" /\ Enqueue(p, f)
    <3>1. CASE ReadRequest(p)
      BY <3>1 DEF ReadRequest
    <3>2. CASE ReadRejected(p)
      BY <3>2, RejectionFrame DEF ResponseFrame
    <3> QED BY <1>3, <3>1, <3>2
  <2>3. n \in Nat /\ admitted[p] \in Nat
    BY <2>1, ReceivedTypes DEF TypeOK, BodiesTypeOK
  <2> HIDE DEF n
  <2>4. admitted'[p] = n /\ admitted'[r] = admitted[r]
    BY <1>1, <2>1 DEF TypeOK, BodiesTypeOK
  <2> HIDE DEF r
  <2>5. admitted[p] <= n
    BY <2>1, <2>3
  <2> QED BY <1>2, <2>1, <2>2, <2>3, <2>4, <2>5 DEF n
<1>4. ASSUME NEW kind \in {"response", "cancel", "event"}, Receives(p, kind), Consume(p),
             UNCHANGED <<admitted, outputs, hand>>
      PROVE  CancelOrder'
  <2>1. admitted[p] \in Nat
    BY DEF TypeOK, BodiesTypeOK
  <2> QED BY <1>2, <1>4, <2>1
<1>5. CASE ReadResponse(p)
  BY <1>4, <1>5 DEF ReadResponse, bodyVars
<1>6. CASE UNCHANGED <<bodyVars, wireVars>>
  BY <1>6, PathUnchanged DEF CancelOrder, bodyVars
<1> QED BY <1>3, <1>4, <1>5, <1>6, ReadingTakes

LEMMA CancelStep ==
  ASSUME TypeOK, SerialOrder, Unreserved, RequestsMatch, CancelOrder, [Next]_vars,
         Nonconforming = {}
  PROVE  CancelOrder'
<1>1. ASSUME UNCHANGED admitted, \A q \in Peers : Path(q)' = Path(q) PROVE CancelOrder'
  BY <1>1 DEF CancelOrder
<1>2. CASE UNCHANGED vars
  BY <1>1, <1>2, PathUnchanged DEF vars, bodyVars
<1>3. ASSUME NEW p \in Peers, Writing(p) PROVE CancelOrder'
  <2>1. UNCHANGED bodyVars
    BY <1>3 DEF Writing, WriterTake, WriterSend, WriterFails
  <2>2. \A q \in Peers : Path(q)' = Path(q)
    BY <1>3, PathWrites DEF SerialOrder, WireOrder, HandHolds
  <2> QED BY <1>1, <2>1, <2>2 DEF bodyVars
<1>4. ASSUME NEW p \in Peers, Serving(p) \/ Eventing(p) \/ Ending(p) PROVE CancelOrder'
  <2>1. UNCHANGED admitted
    BY <1>4, ServingCarries
  <2>2. ASSUME NEW f \in Frame, f.kind # "cancel", Path(p)' = Append(Path(p), f),
               \A q \in Peers : q # p => Path(q)' = Path(q)
        PROVE  CancelOrder'
    <3>1. Path(p) \in Seq(Frame) /\ Follows(Path(p), admitted[Other(p)])
      BY PathTypes DEF CancelOrder
    <3>2. Follows(Append(Path(p), f), admitted[Other(p)])
      BY <2>2, <3>1, FollowsBehind
    <3> QED BY <2>1, <2>2, <3>2 DEF CancelOrder
  <2>3. \A s, a : ResponseFrame(p, s, a).kind # "cancel" /\ EventFrame(p, s).kind # "cancel"
    BY DEF ResponseFrame, EventFrame
  <2> QED BY <1>1, <1>4, <2>1, <2>2, <2>3, PathServing
<1>5. ASSUME NEW p \in Peers, NEW f \in StrayFrames, Stray(p, f) PROVE FALSE
  BY <1>5 DEF Stray
<1> QED BY <1>2, <1>3, <1>4, <1>5, CancelCalling, CancelReading DEF Next

LEMMA CatPrefix ==
  ASSUME NEW n \in Seq(Frame), NEW h \in Seq(Frame), NEW o \in Seq(Frame)
  PROVE  /\ Len(n) \in Nat /\ Len(n \o h \o o) \in Nat /\ Len(n) <= Len(n \o h \o o)
         /\ \A i \in 1 .. Len(n) : i \in 1 .. Len(n \o h \o o) /\ (n \o h \o o)[i] = n[i]
<1> DEFINE r == h \o o
           c == n \o r
<1>1. r \in Seq(Frame)
  BY ConcatProperties
<1>2. c = n \o h \o o
  BY ConcatAssociative
<1>3. /\ Len(n) \in Nat /\ Len(r) \in Nat
      /\ Len(c) = Len(n) + Len(r)
      /\ \A i \in 1 .. Len(n) + Len(r) : c[i] = IF i <= Len(n) THEN n[i] ELSE r[i - Len(n)]
  BY <1>1, ConcatProperties
<1> HIDE DEF r, c
<1> QED BY <1>2, <1>3

\* What the other side may still read is a prefix of what is under way.
LEMMA WirePrefix ==
  ASSUME TypeOK, NEW p \in Peers
  PROVE  /\ Len(Wire(p)) \in Nat /\ Len(Path(p)) \in Nat /\ Len(Wire(p)) <= Len(Path(p))
         /\ \A i \in 1 .. Len(Wire(p)) : i \in 1 .. Len(Path(p)) /\ Wire(p)[i] = Path(p)[i]
<1>1. Path(p) \in Seq(Frame)
  BY PathTypes
<1>2. net[p] \in Seq(Frame) /\ hand[p] \in Seq(Frame) /\ outputs[p] \in Seq(Frame)
  BY OrderTypes
<1>3. CASE err[p] = "none"
  <2>1. Wire(p) = Path(p)
    BY <1>3 DEF Wire, Path
  <2> QED BY <1>1, <2>1
<1>4. CASE err[p] # "none"
  <2> DEFINE n == net[p]
             h == hand[p]
             o == outputs[p]
             c == n \o h \o o
  <2>1. Wire(p) = n /\ Path(p) = c
    BY <1>4 DEF Wire, Path
  <2>2. n \in Seq(Frame) /\ h \in Seq(Frame) /\ o \in Seq(Frame)
    BY <1>2
  <2> HIDE DEF n, h, o
  <2>3. /\ Len(n) \in Nat /\ Len(c) \in Nat /\ Len(n) <= Len(c)
        /\ \A i \in 1 .. Len(n) : i \in 1 .. Len(c) /\ c[i] = n[i]
    BY <2>2, CatPrefix
  <2> HIDE DEF c
  <2> QED BY <2>1, <2>3
<1> QED BY <1>3, <1>4

LEMMA InitPaths ==
  ASSUME Init, NEW p \in Peers
  PROVE  Path(p) = <<>> /\ Carried(p) = {} /\ Unreserved /\ NoPendingLeak
<1> USE DEF Init, PerPeer, PerSerial
<1>1. Path(p) = <<>>
  <2>1. <<>> \in Seq(Frame)
    BY EmptySeq
  <2> QED BY <2>1, ConcatEmptySeq DEF Path
<1> QED BY <1>1 DEF Carried, Unreserved, NoPendingLeak

-----------------------------------------------------------------------------
(* Responses: one per request, behind the body or the refusal it reports.  *)

IsResponse(f) == f.kind = "response"
Answered(p, s) == body[p][s] = "rejected" \/ answer[p][s] = "answered"
Ran(p, s) == body[p][s] \in {"returned", "done"}

AnswersMatch == \A p \in Peers :
  /\ \A f \in Carried(p) : IsResponse(f) =>
       /\ f.id \in Serials /\ Answered(p, f.id) /\ reply[Other(p)][f.id] = "none"
       /\ f.load = "result" => Ran(p, f.id)
  /\ \A s \in Serials :
       /\ reply[Other(p)][s] # "none" => Answered(p, s)
       /\ "result" \in {reply[Other(p)][s], value[p][s]} => Ran(p, s)
       /\ body[p][s] \in {"none", "rejected"} => answer[p][s] = "open"

Distinct(q) == \A i, j \in 1 .. Len(q) :
  IsResponse(q[i]) /\ IsResponse(q[j]) /\ q[i].id = q[j].id => i = j

AnswersApart == \A p \in Peers : Distinct(Path(p))

LEMMA DistinctBehind ==
  ASSUME NEW q \in Seq(Frame), NEW f \in Frame, Distinct(q),
         IsResponse(f) => \A i \in 1 .. Len(q) : IsResponse(q[i]) => q[i].id # f.id
  PROVE  Distinct(Append(q, f))
<1> DEFINE a == Append(q, f)
<1>1. /\ Len(q) \in Nat /\ Len(a) = Len(q) + 1
      /\ \A i \in 1 .. Len(q) : a[i] = q[i]
      /\ a[Len(q) + 1] = f
      /\ \A i \in 1 .. Len(a) : i \in 1 .. Len(q) \/ i = Len(q) + 1
  BY Behind
<1> HIDE DEF a
<1>2. \A i, j \in 1 .. Len(a) : IsResponse(a[i]) /\ IsResponse(a[j]) /\ a[i].id = a[j].id => i = j
  BY <1>1 DEF Distinct
<1> QED BY <1>2 DEF Distinct, a

LEMMA DistinctAhead ==
  ASSUME NEW q \in Seq(Frame), q # <<>>, Distinct(q)
  PROVE  /\ Distinct(Tail(q))
         /\ IsResponse(Head(q)) =>
              \A i \in 1 .. Len(Tail(q)) : IsResponse(Tail(q)[i]) => Tail(q)[i].id # Head(q).id
<1> DEFINE t == Tail(q)
<1>1. /\ Len(q) \in Nat /\ 1 \in 1 .. Len(q) /\ Head(q) = q[1]
      /\ \A i \in 1 .. Len(t) : t[i] = q[i + 1] /\ i + 1 \in 1 .. Len(q)
  BY Ahead
<1> HIDE DEF t
<1>2. \A i \in 1 .. Len(t) : \A j \in 1 .. Len(t) :
        IsResponse(t[i]) /\ IsResponse(t[j]) /\ t[i].id = t[j].id => i = j
  <2> SUFFICES ASSUME NEW i \in 1 .. Len(t), NEW j \in 1 .. Len(t),
                      IsResponse(t[i]), IsResponse(t[j]), t[i].id = t[j].id
               PROVE  i = j
    OBVIOUS
  <2>1. i + 1 \in 1 .. Len(q) /\ j + 1 \in 1 .. Len(q) /\ t[i] = q[i + 1] /\ t[j] = q[j + 1]
    BY <1>1
  <2>2. i + 1 = j + 1
    BY <2>1 DEF Distinct
  <2> QED BY <2>2
<1>3. ASSUME IsResponse(q[1]), NEW i \in 1 .. Len(t), IsResponse(t[i])
      PROVE  t[i].id # q[1].id
  <2>1. i + 1 \in 1 .. Len(q) /\ t[i] = q[i + 1] /\ i + 1 # 1
    BY <1>1
  <2> QED BY <1>1, <1>3, <2>1 DEF Distinct
<1> QED BY <1>1, <1>2, <1>3 DEF Distinct, t

\* A body only moves on: what is answered stays answered, what ran stays run, and
\* a result comes from a handler that returned.
BodiesMoveOn == \A q \in Peers, c \in Serials :
  /\ Answered(q, c) => Answered(q, c)'
  /\ Ran(q, c) => Ran(q, c)'
  /\ value'[q][c] = "result" => value[q][c] = "result" \/ Ran(q, c)'
  /\ body'[q][c] \in {"none", "rejected"} => answer'[q][c] = "open"

\* A frame that answers a call nobody had answered.
FirstAnswer(q, f) ==
  /\ f.id \in Serials /\ ~Answered(q, f.id) /\ Answered(q, f.id)'
  /\ f.load = "result" => Ran(q, f.id)'

LEMMA BodiesUnchanged ==
  ASSUME AnswersMatch, UNCHANGED <<body, answer, value>>
  PROVE  BodiesMoveOn
BY DEF AnswersMatch, BodiesMoveOn, Answered, Ran

LEMMA AnswersKept ==
  ASSUME AnswersMatch, BodiesMoveOn, UNCHANGED reply,
         \A q \in Peers : \A f \in Carried(q)' : IsResponse(f) => f \in Carried(q) \/ FirstAnswer(q, f)
  PROVE  AnswersMatch'
<1> SUFFICES ASSUME NEW q \in Peers
             PROVE  /\ \A f \in Carried(q)' : IsResponse(f) =>
                         /\ f.id \in Serials /\ Answered(q, f.id)' /\ reply'[Other(q)][f.id] = "none"
                         /\ f.load = "result" => Ran(q, f.id)'
                    /\ \A s \in Serials :
                         /\ reply'[Other(q)][s] # "none" => Answered(q, s)'
                         /\ "result" \in {reply'[Other(q)][s], value'[q][s]} => Ran(q, s)'
                         /\ body'[q][s] \in {"none", "rejected"} => answer'[q][s] = "open"
  BY DEF AnswersMatch
<1>1. /\ \A f \in Carried(q) : IsResponse(f) =>
           /\ f.id \in Serials /\ Answered(q, f.id) /\ reply[Other(q)][f.id] = "none"
           /\ f.load = "result" => Ran(q, f.id)
      /\ \A s \in Serials :
           /\ reply[Other(q)][s] # "none" => Answered(q, s)
           /\ "result" \in {reply[Other(q)][s], value[q][s]} => Ran(q, s)
  BY DEF AnswersMatch
<1>2. \A c \in Serials :
        /\ Answered(q, c) => Answered(q, c)'
        /\ Ran(q, c) => Ran(q, c)'
        /\ value'[q][c] = "result" => value[q][c] = "result" \/ Ran(q, c)'
        /\ body'[q][c] \in {"none", "rejected"} => answer'[q][c] = "open"
  BY DEF BodiesMoveOn
<1>3. \A f \in Carried(q)' : IsResponse(f) =>
        f \in Carried(q) \/ (/\ f.id \in Serials /\ ~Answered(q, f.id) /\ Answered(q, f.id)'
                             /\ f.load = "result" => Ran(q, f.id)')
  BY DEF FirstAnswer
<1>4. ASSUME NEW f \in Carried(q)', IsResponse(f)
      PROVE  /\ f.id \in Serials /\ Answered(q, f.id)' /\ reply'[Other(q)][f.id] = "none"
             /\ f.load = "result" => Ran(q, f.id)'
  BY <1>1, <1>2, <1>3, <1>4
<1> QED BY <1>1, <1>2, <1>4

\* The queue end of the same step: a second answer to one request is never behind
\* the first.
LEMMA ApartQueues ==
  ASSUME TypeOK, AnswersMatch, AnswersApart, NEW p \in Peers, NEW f \in Frame,
         IsResponse(f) => FirstAnswer(p, f),
         Path(p)' = Append(Path(p), f), \A q \in Peers : q # p => Path(q)' = Path(q)
  PROVE  AnswersApart'
<1>1. Path(p) \in Seq(Frame) /\ Distinct(Path(p))
  BY PathTypes DEF AnswersApart
<1>2. IsResponse(f) => \A i \in 1 .. Len(Path(p)) : IsResponse(Path(p)[i]) => Path(p)[i].id # f.id
  BY DEF AnswersMatch, Carried, FirstAnswer
<1>3. Distinct(Append(Path(p), f))
  BY <1>1, <1>2, DistinctBehind
<1> QED BY <1>3 DEF AnswersApart

LEMMA ServingMovesOn ==
  ASSUME TypeOK, AnswersMatch, NEW p \in Peers, Serving(p)
  PROVE  /\ BodiesMoveOn /\ UNCHANGED reply
         /\ \A s \in Serials : \A f : Respond(p, s) /\ f = ResponseFrame(p, s, value[p][s]) =>
                                  FirstAnswer(p, f)
<1>1. UNCHANGED reply
  BY DEF Serving, HandlerReturns, Deadline, DeadlineAnswers, Respond, RespondFails, BodyEnds,
         callVars
<1>2. \A q \in Peers, c \in Serials :
        /\ "result" = value[q][c] => Ran(q, c)
        /\ body[q][c] \in {"none", "rejected"} => answer[q][c] = "open"
  BY DEF AnswersMatch
<1>3. PICK s \in Serials :
        \/ \E o \in {"result", "error"} : HandlerReturns(p, s, o)
        \/ Deadline(p, s) \/ DeadlineAnswers(p, s)
        \/ Respond(p, s) \/ RespondFails(p, s) \/ BodyEnds(p, s)
  BY DEF Serving
<1>4. CASE \E o \in {"result", "error"} : HandlerReturns(p, s, o)
  <2>1. /\ body[p][s] = "running" /\ body' = [body EXCEPT ![p][s] = "returned"]
        /\ \/ UNCHANGED <<answer, value>>
           \/ /\ answer[p][s] = "open" /\ answer' = [answer EXCEPT ![p][s] = "answering"]
              /\ \E a : value' = [value EXCEPT ![p][s] = a]
    BY <1>4 DEF HandlerReturns
  <2>2. \A q \in Peers, c \in Serials :
          /\ body'[q][c] = IF q = p /\ c = s THEN "returned" ELSE body[q][c]
          /\ ~(q = p /\ c = s) => answer'[q][c] = answer[q][c] /\ value'[q][c] = value[q][c]
          /\ answer[q][c] = "answered" => answer'[q][c] = "answered"
    BY <2>1 DEF TypeOK, BodiesTypeOK
  <2>3. BodiesMoveOn
    BY <1>2, <2>1, <2>2 DEF BodiesMoveOn, Answered, Ran
  <2>4. \A c \in Serials : ~Respond(p, c)
    BY <2>1 DEF Respond, TypeOK, BodiesTypeOK
  <2> QED BY <1>1, <2>3, <2>4
<1>5. CASE Deadline(p, s)
  <2>1. UNCHANGED <<body, answer, value>>
    BY <1>5 DEF Deadline
  <2>2. \A c \in Serials : ~Respond(p, c)
    <3>1. UNCHANGED answer
      BY <2>1
    <3> QED BY <3>1 DEF Respond, TypeOK, BodiesTypeOK
  <2> QED BY <1>1, <2>1, <2>2, BodiesUnchanged
<1>6. CASE DeadlineAnswers(p, s)
  <2>1. /\ s \in Active(p) /\ answer[p][s] = "open" /\ UNCHANGED body
        /\ answer' = [answer EXCEPT ![p][s] = "answering"]
        /\ value' = [value EXCEPT ![p][s] = "cancelled"]
    BY <1>6 DEF DeadlineAnswers
  <2>2. \A q \in Peers, c \in Serials :
          /\ answer'[q][c] = IF q = p /\ c = s THEN "answering" ELSE answer[q][c]
          /\ value'[q][c] = IF q = p /\ c = s THEN "cancelled" ELSE value[q][c]
    BY <2>1 DEF TypeOK, BodiesTypeOK
  <2>3. BodiesMoveOn
    BY <1>2, <2>1, <2>2 DEF BodiesMoveOn, Answered, Ran, Active
  <2>4. \A c \in Serials : ~Respond(p, c)
    BY <2>1, <2>2 DEF Respond, TypeOK, BodiesTypeOK
  <2> QED BY <1>1, <2>3, <2>4
<1>7. CASE Respond(p, s) \/ RespondFails(p, s)
  <2>1. /\ answer[p][s] = "answering" /\ UNCHANGED <<body, value>>
        /\ answer' = [answer EXCEPT ![p][s] = "answered"]
    BY <1>7 DEF Respond, RespondFails
  <2>2. \A q \in Peers, c \in Serials :
          answer'[q][c] = IF q = p /\ c = s THEN "answered" ELSE answer[q][c]
    BY <2>1 DEF TypeOK, BodiesTypeOK
  <2>3. body[p][s] \notin {"none", "rejected"}
    BY <1>2, <2>1
  <2>4. BodiesMoveOn
    BY <1>2, <2>1, <2>2, <2>3 DEF BodiesMoveOn, Answered, Ran
  <2>5. ASSUME NEW c \in Serials, Respond(p, c), NEW f, f = ResponseFrame(p, c, value[p][c])
        PROVE  FirstAnswer(p, f)
    <3>1. answer[p][c] = "answering" /\ answer'[p][c] = "answered"
      BY <2>5 DEF Respond, TypeOK, BodiesTypeOK
    <3>2. body[p][c] # "rejected"
      BY <1>2, <3>1
    <3>3. f.id = c /\ f.load = value[p][c]
      BY <2>5 DEF ResponseFrame
    <3> QED BY <1>2, <2>1, <3>1, <3>2, <3>3 DEF FirstAnswer, Answered, Ran
  <2> QED BY <1>1, <2>4, <2>5
<1>8. CASE BodyEnds(p, s)
  <2>1. /\ body[p][s] = "returned" /\ UNCHANGED <<answer, value>>
        /\ body' = [body EXCEPT ![p][s] = "done"]
    BY <1>8 DEF BodyEnds
  <2>2. \A q \in Peers, c \in Serials :
          body'[q][c] = IF q = p /\ c = s THEN "done" ELSE body[q][c]
    BY <2>1 DEF TypeOK, BodiesTypeOK
  <2>3. BodiesMoveOn
    BY <1>2, <2>1, <2>2 DEF BodiesMoveOn, Answered, Ran
  <2>4. \A c \in Serials : ~Respond(p, c)
    BY <2>1 DEF Respond, TypeOK, BodiesTypeOK
  <2> QED BY <1>1, <2>3, <2>4
<1> QED BY <1>3, <1>4, <1>5, <1>6, <1>7, <1>8

\* A serial above every one admitted has no body, so nothing answered it yet.
LEMMA AdmittingMovesOn ==
  ASSUME TypeOK, SerialOrder, AnswersMatch, NEW p \in Peers,
         ReadRequest(p) \/ ReadRejected(p), Received(p).id \in Serials
  PROVE  /\ BodiesMoveOn /\ UNCHANGED reply
         /\ ReadRejected(p) => \A a \in {"busy", "method_not_found"} : \A f :
              f = ResponseFrame(p, Received(p).id, a) => FirstAnswer(p, f)
<1> DEFINE n == Received(p).id
<1>1. /\ n > admitted[p] /\ UNCHANGED <<answer, value, reply>>
      /\ body' = [body EXCEPT ![p][n] = IF ReadRejected(p) THEN "rejected" ELSE "running"]
  <2>1. CASE ReadRejected(p)
    BY <2>1 DEF ReadRejected, Admits, callVars
  <2>2. CASE ReadRequest(p) /\ ~ReadRejected(p)
    BY <2>2 DEF ReadRequest, Admits, callVars
  <2> QED BY <2>1, <2>2
<1>2. n \in Int /\ admitted[p] \in Int
  BY PeerAssumption DEF Serials, TypeOK, BodiesTypeOK
<1> HIDE DEF n
<1>3. n \in Serials
  BY DEF n
<1>4. body[p][n] = "none"
  BY <1>1, <1>2, <1>3 DEF SerialOrder
<1>5. \A q \in Peers, c \in Serials :
        /\ "result" = value[q][c] => Ran(q, c)
        /\ body[q][c] \in {"none", "rejected"} => answer[q][c] = "open"
  BY DEF AnswersMatch
<1>6. \A q \in Peers, c \in Serials :
        body'[q][c] = IF q = p /\ c = n THEN (IF ReadRejected(p) THEN "rejected" ELSE "running")
                                        ELSE body[q][c]
  BY <1>1 DEF TypeOK, BodiesTypeOK
<1>7. BodiesMoveOn
  BY <1>1, <1>4, <1>5, <1>6 DEF BodiesMoveOn, Answered, Ran
<1>8. ASSUME ReadRejected(p), NEW a \in {"busy", "method_not_found"}, NEW f,
             f = ResponseFrame(p, n, a)
      PROVE  FirstAnswer(p, f)
  <2>1. f.id = n /\ f.load = a
    BY <1>8 DEF ResponseFrame
  <2>2. ~Answered(p, f.id)
    BY <1>3, <1>4, <1>5, <2>1 DEF Answered
  <2>3. body'[p][f.id] = "rejected"
    BY <1>3, <1>6, <1>8, <2>1
  <2> QED BY <1>3, <1>8, <2>1, <2>2, <2>3 DEF FirstAnswer, Answered
<1> QED BY <1>1, <1>7, <1>8 DEF n

\* A step that leaves the bodies alone and queues no response.
LEMMA AnswersUnmoved ==
  ASSUME AnswersMatch, AnswersApart, UNCHANGED <<reply, body, answer, value>>,
         \A q \in Peers : Path(q)' = Path(q)
  PROVE  AnswersMatch' /\ AnswersApart'
<1>1. \A q \in Peers : \A f \in Carried(q)' : f \in Carried(q)
  BY DEF Carried
<1>2. AnswersMatch'
  BY <1>1, BodiesUnchanged, AnswersKept
<1> QED BY <1>2 DEF AnswersApart

LEMMA AnswersQueue ==
  ASSUME TypeOK, AnswersMatch, AnswersApart, BodiesMoveOn, UNCHANGED reply,
         NEW p \in Peers, NEW f \in Frame, IsResponse(f) => FirstAnswer(p, f),
         Path(p)' = Append(Path(p), f), \A q \in Peers : q # p => Path(q)' = Path(q)
  PROVE  AnswersMatch' /\ AnswersApart'
<1>1. Carried(p)' = Carried(p) \cup {f}
  BY CarriedQueues
<1>2. \A q \in Peers : q # p => Carried(q)' = Carried(q)
  BY DEF Carried
<1>3. \A q \in Peers : \A g \in Carried(q)' : IsResponse(g) => g \in Carried(q) \/ FirstAnswer(q, g)
  BY <1>1, <1>2
<1> QED BY <1>3, AnswersKept, ApartQueues

LEMMA AnswersCalling ==
  ASSUME TypeOK, Unreserved, AnswersMatch, AnswersApart, NEW p \in Peers, Calling(p)
  PROVE  AnswersMatch' /\ AnswersApart'
<1>1. /\ UNCHANGED <<reply, bodyVars, hand, net>>
      /\ \/ UNCHANGED outputs
         \/ \E s \in Serials, m \in Methods : Enqueue(p, RequestFrame(p, s, m))
         \/ \E s \in Serials : Enqueue(p, CancelFrame(p, s))
  BY CallingPublishes
<1>2. \A s \in Serials :
        /\ CancelFrame(p, s) \in Frame /\ ~IsResponse(CancelFrame(p, s))
        /\ \A m \in Methods : RequestFrame(p, s, m) \in Frame /\ ~IsResponse(RequestFrame(p, s, m))
  BY FrameTypes, PeerAssumption DEF Serials, RequestFrame, CancelFrame, IsResponse
<1>3. UNCHANGED <<reply, body, answer, value>>
  BY <1>1 DEF bodyVars
<1>4. CASE UNCHANGED outputs
  <2>1. \A q \in Peers : Path(q)' = Path(q)
    BY <1>1, <1>4, PathUnchanged DEF wireVars
  <2> QED BY <1>3, <2>1, AnswersUnmoved
<1>5. ASSUME NEW f \in Frame, ~IsResponse(f), Enqueue(p, f)
      PROVE  AnswersMatch' /\ AnswersApart'
  <2>1. Path(p)' = Append(Path(p), f) /\ \A q \in Peers : q # p => Path(q)' = Path(q)
    BY <1>1, <1>5, PathQueues
  <2> QED BY <1>3, <1>5, <2>1, BodiesUnchanged, AnswersQueue
<1> QED BY <1>1, <1>2, <1>4, <1>5

\* What a reader takes: no other response to the same request is left behind.
LEMMA AnswersRead ==
  ASSUME TypeOK, AnswersApart, NEW p \in Peers, NEW kind, Receives(p, kind), Consume(p),
         UNCHANGED hand, UNCHANGED outputs \/ \E f \in Frame : Enqueue(p, f)
  PROVE  /\ Distinct(Path(Other(p)))'
         /\ kind = "response" => \A g \in Carried(Other(p))' :
              IsResponse(g) => g.id # Received(p).id
<1> DEFINE q == Path(Other(p))
<1>1. /\ q # <<>> /\ Head(q) = Received(p) /\ Path(Other(p))' = Tail(q)
  BY PathReads
<1>2. Other(p) \in Peers /\ q \in Seq(Frame) /\ Distinct(q)
  BY OrderTypes, PathTypes DEF AnswersApart
<1>3. kind = "response" => IsResponse(Received(p))
  BY DEF IsResponse, Receives, Received
<1> HIDE DEF q
<1>4. /\ Distinct(Tail(q))
      /\ IsResponse(Head(q)) =>
           \A i \in 1 .. Len(Tail(q)) : IsResponse(Tail(q)[i]) => Tail(q)[i].id # Head(q).id
  BY <1>1, <1>2, DistinctAhead
<1>5. Carried(Other(p))' = {Tail(q)[i] : i \in 1 .. Len(Tail(q))}
  BY <1>1 DEF Carried
<1> QED BY <1>1, <1>3, <1>4, <1>5 DEF Distinct

LEMMA AnswersReading ==
  ASSUME TypeOK, SerialOrder, RequestsMatch, AnswersMatch, AnswersApart, NEW p \in Peers, Reading(p)
  PROVE  AnswersMatch' /\ AnswersApart'
<1> DEFINE r == Other(p)
<1>1. r \in Peers /\ r # p /\ Other(r) = p /\ \A q \in Peers : q = p \/ q = r
  BY DEF Other, Peers
<1>2. CASE ReadRequest(p) \/ ReadRejected(p)
  <2>1. Receives(p, "request") /\ Consume(p) /\ UNCHANGED hand
    BY <1>2 DEF ReadRequest, ReadRejected
  <2>2. \/ UNCHANGED outputs
        \/ /\ ReadRejected(p)
           /\ \E f \in Frame : /\ Enqueue(p, f)
                               /\ \E a \in {"busy", "method_not_found"} :
                                    f = ResponseFrame(p, Received(p).id, a)
    <3>1. CASE ReadRequest(p)
      BY <3>1 DEF ReadRequest
    <3>2. CASE ReadRejected(p)
      BY <3>2, RejectionFrame
    <3> QED BY <1>2, <3>1, <3>2
  <2>3. /\ Carried(r) = Carried(r)' \cup {Received(p)} /\ Received(p).kind = "request"
        /\ UNCHANGED outputs => Carried(p)' = Carried(p)
        /\ \A f \in Frame : Enqueue(p, f) => Carried(p)' = Carried(p) \cup {f}
    BY <2>1, <2>2, ReadingCarries
  <2>4. Received(p).id \in Serials
    BY <1>1, <2>3 DEF RequestsMatch, IsRequest
  <2>5. BodiesMoveOn /\ UNCHANGED reply
    BY <1>2, <2>4, AdmittingMovesOn
  <2>6. \A f \in Frame : Enqueue(p, f) /\ ~(UNCHANGED outputs) => FirstAnswer(p, f)
    <3> SUFFICES ASSUME NEW f \in Frame, Enqueue(p, f), ~(UNCHANGED outputs)
                 PROVE  FirstAnswer(p, f)
      OBVIOUS
    <3>1. PICK g \in Frame : /\ Enqueue(p, g)
                             /\ \E a \in {"busy", "method_not_found"} :
                                  g = ResponseFrame(p, Received(p).id, a)
      BY <2>2
    <3>2. FirstAnswer(p, g)
      BY <1>2, <2>2, <2>4, <3>1, AdmittingMovesOn
    <3>3. f = g
      <4>1. outputs'[p] = Append(outputs[p], f) /\ outputs'[p] = Append(outputs[p], g)
        BY <3>1 DEF Enqueue, TypeOK, WiresTypeOK
      <4>2. outputs[p] \in Seq(Frame)
        BY OrderTypes
      <4>3. Append(outputs[p], f)[Len(outputs[p]) + 1] = f
        BY <4>2, AppendProperties
      <4>4. Append(outputs[p], g)[Len(outputs[p]) + 1] = g
        BY <4>2, AppendProperties
      <4> QED BY <4>1, <4>3, <4>4
    <3> QED BY <3>2, <3>3
  <2> HIDE DEF r
  <2>7. \A q \in Peers : \A f \in Carried(q)' : IsResponse(f) => f \in Carried(q) \/ FirstAnswer(q, f)
    <3>1. CASE UNCHANGED outputs
      BY <1>1, <2>3, <3>1
    <3>2. CASE ~(UNCHANGED outputs)
      BY <1>1, <2>2, <2>3, <2>6, <3>2
    <3> QED BY <3>1, <3>2
  <2>8. AnswersMatch'
    BY <2>5, <2>7, AnswersKept
  <2>9. Distinct(Path(r))'
    BY <2>1, <2>2, AnswersRead DEF r
  <2>10. Distinct(Path(p))'
    <3>1. /\ UNCHANGED outputs => Path(p)' = Path(p)
          /\ \A f \in Frame : Enqueue(p, f) => Path(p)' = Append(Path(p), f)
      BY <2>1, <2>2, PathReads
    <3>2. Path(p) \in Seq(Frame) /\ Distinct(Path(p))
      BY PathTypes DEF AnswersApart
    <3>3. CASE UNCHANGED outputs
      BY <3>1, <3>2, <3>3 DEF Distinct
    <3>4. ASSUME ~(UNCHANGED outputs), NEW f \in Frame, Enqueue(p, f) PROVE Distinct(Path(p))'
      <4>1. FirstAnswer(p, f)
        BY <2>6, <3>4
      <4>2. \A i \in 1 .. Len(Path(p)) : IsResponse(Path(p)[i]) => Path(p)[i].id # f.id
        BY <4>1 DEF AnswersMatch, Carried, FirstAnswer
      <4>3. Distinct(Append(Path(p), f))
        BY <3>2, <4>2, DistinctBehind
      <4> QED BY <3>1, <3>4, <4>3 DEF Distinct
    <3> QED BY <2>2, <3>3, <3>4
  <2> QED BY <1>1, <2>8, <2>9, <2>10 DEF AnswersApart
<1>3. ASSUME NEW kind \in {"response", "cancel", "event"}, Receives(p, kind), Consume(p),
             UNCHANGED <<body, answer, value, outputs, hand>>
      PROVE  /\ AnswersApart' /\ Carried(p)' = Carried(p)
             /\ Carried(r) = Carried(r)' \cup {Received(p)} /\ Received(p).kind = kind
             /\ kind = "response" => \A g \in Carried(r)' : IsResponse(g) => g.id # Received(p).id
  <2>1. Path(p)' = Path(p) /\ Carried(p)' = Carried(p)
    BY <1>3, PathReads, ReadingCarries
  <2>2. Carried(r) = Carried(r)' \cup {Received(p)} /\ Received(p).kind = kind
    BY <1>3, ReadingCarries
  <2>3. /\ Distinct(Path(r))'
        /\ kind = "response" => \A g \in Carried(r)' : IsResponse(g) => g.id # Received(p).id
    BY <1>3, AnswersRead
  <2>4. Distinct(Path(p))'
    BY <2>1 DEF AnswersApart, Distinct
  <2> QED BY <1>1, <2>1, <2>2, <2>3, <2>4 DEF AnswersApart
<1>4. ASSUME NEW kind \in {"cancel", "event"}, Receives(p, kind), Consume(p),
             UNCHANGED <<reply, body, answer, value, outputs, hand>>
      PROVE  AnswersMatch' /\ AnswersApart'
  <2>1. /\ AnswersApart' /\ Carried(p)' = Carried(p)
        /\ Carried(r) = Carried(r)' \cup {Received(p)}
    BY <1>3, <1>4
  <2>2. \A q \in Peers : \A f \in Carried(q)' : f \in Carried(q)
    BY <1>1, <2>1
  <2> QED BY <1>4, <2>1, <2>2, BodiesUnchanged, AnswersKept
<1>5. CASE ReadResponse(p)
  <2> DEFINE n == Received(p).id
  <2>1. /\ Receives(p, "response") /\ Consume(p) /\ UNCHANGED <<body, answer, value, outputs, hand>>
        /\ reply' = [reply EXCEPT ![p] =
                       IF n \in pending[p] THEN [@ EXCEPT ![n] = Received(p).load] ELSE @]
    BY <1>5 DEF ReadResponse, bodyVars
  <2>2. /\ AnswersApart' /\ Carried(p)' = Carried(p)
        /\ Carried(r) = Carried(r)' \cup {Received(p)} /\ IsResponse(Received(p))
        /\ \A g \in Carried(r)' : IsResponse(g) => g.id # Received(p).id
    BY <1>3, <2>1 DEF IsResponse
  <2>3. /\ n \in Serials /\ Answered(r, n)
        /\ Received(p).load = "result" => Ran(r, n)
    BY <1>1, <2>2 DEF AnswersMatch
  <2>4. /\ \A c \in Serials : c # n => reply'[p][c] = reply[p][c]
        /\ reply'[p][n] \in {reply[p][n], Received(p).load}
        /\ reply'[r] = reply[r]
    BY <1>1, <2>1, <2>3 DEF TypeOK, CallsTypeOK
  <2> HIDE DEF r, n
  <2>5. /\ \A f \in Carried(r) : IsResponse(f) =>
             /\ f.id \in Serials /\ Answered(r, f.id) /\ reply[p][f.id] = "none"
             /\ f.load = "result" => Ran(r, f.id)
        /\ \A s \in Serials :
             /\ reply[p][s] # "none" => Answered(r, s)
             /\ "result" \in {reply[p][s], value[r][s]} => Ran(r, s)
             /\ body[r][s] \in {"none", "rejected"} => answer[r][s] = "open"
    BY <1>1 DEF AnswersMatch
  <2>6. /\ \A f \in Carried(p) : IsResponse(f) =>
             /\ f.id \in Serials /\ Answered(p, f.id) /\ reply[r][f.id] = "none"
             /\ f.load = "result" => Ran(p, f.id)
        /\ \A s \in Serials :
             /\ reply[r][s] # "none" => Answered(p, s)
             /\ "result" \in {reply[r][s], value[p][s]} => Ran(p, s)
             /\ body[p][s] \in {"none", "rejected"} => answer[p][s] = "open"
    BY DEF AnswersMatch, r
  <2>7. \A q \in Peers : \A s : (Answered(q, s)' <=> Answered(q, s)) /\ (Ran(q, s)' <=> Ran(q, s))
    BY <2>1 DEF Answered, Ran
  <2>8. /\ \A f \in Carried(r)' : IsResponse(f) =>
             /\ f.id \in Serials /\ Answered(r, f.id)' /\ reply'[p][f.id] = "none"
             /\ f.load = "result" => Ran(r, f.id)'
        /\ \A s \in Serials :
             /\ reply'[p][s] # "none" => Answered(r, s)'
             /\ "result" \in {reply'[p][s], value'[r][s]} => Ran(r, s)'
             /\ body'[r][s] \in {"none", "rejected"} => answer'[r][s] = "open"
    <3>1. \A f \in Carried(r)' : IsResponse(f) => f \in Carried(r) /\ f.id # n
      BY <2>2 DEF n
    <3>2. \A f \in Carried(r)' : IsResponse(f) =>
             /\ f.id \in Serials /\ Answered(r, f.id)' /\ reply'[p][f.id] = "none"
             /\ f.load = "result" => Ran(r, f.id)'
      BY <1>1, <2>4, <2>5, <2>7, <3>1
    <3>3. ASSUME NEW s \in Serials
          PROVE  /\ reply'[p][s] # "none" => Answered(r, s)'
                 /\ "result" \in {reply'[p][s], value'[r][s]} => Ran(r, s)'
                 /\ body'[r][s] \in {"none", "rejected"} => answer'[r][s] = "open"
      BY <1>1, <2>1, <2>3, <2>4, <2>5, <2>7
    <3> QED BY <3>2, <3>3
  <2>9. /\ \A f \in Carried(p)' : IsResponse(f) =>
             /\ f.id \in Serials /\ Answered(p, f.id)' /\ reply'[r][f.id] = "none"
             /\ f.load = "result" => Ran(p, f.id)'
        /\ \A s \in Serials :
             /\ reply'[r][s] # "none" => Answered(p, s)'
             /\ "result" \in {reply'[r][s], value'[p][s]} => Ran(p, s)'
             /\ body'[p][s] \in {"none", "rejected"} => answer'[p][s] = "open"
    BY <2>1, <2>2, <2>4, <2>6, <2>7
  <2>10. AnswersMatch'
    <3>1. Other(p) = r /\ Other(r) = p
      BY <1>1 DEF r
    <3> QED BY <1>1, <2>8, <2>9, <3>1 DEF AnswersMatch
  <2> QED BY <2>2, <2>10
<1>6. CASE UNCHANGED <<callVars, bodyVars, wireVars>>
  BY <1>6, PathUnchanged, AnswersUnmoved DEF callVars, bodyVars
<1> QED BY <1>2, <1>4, <1>5, <1>6, ReadingTakes DEF callVars

LEMMA AnswersStep ==
  ASSUME TypeOK, SerialOrder, Unreserved, RequestsMatch, AnswersMatch, AnswersApart,
         [Next]_vars, Nonconforming = {}
  PROVE  AnswersMatch' /\ AnswersApart'
<1>1. CASE UNCHANGED vars
  BY <1>1, PathUnchanged, AnswersUnmoved DEF vars, callVars, bodyVars
<1>2. ASSUME NEW p \in Peers, Writing(p) PROVE AnswersMatch' /\ AnswersApart'
  <2>1. UNCHANGED <<callVars, bodyVars>>
    BY <1>2 DEF Writing, WriterTake, WriterSend, WriterFails
  <2>2. \A q \in Peers : Path(q)' = Path(q)
    BY <1>2, PathWrites DEF SerialOrder, WireOrder, HandHolds
  <2> QED BY <2>1, <2>2, AnswersUnmoved DEF callVars, bodyVars
<1>3. ASSUME NEW p \in Peers, Serving(p) \/ Eventing(p) \/ Ending(p)
      PROVE  AnswersMatch' /\ AnswersApart'
  <2>1. BodiesMoveOn /\ UNCHANGED reply
    <3>1. CASE Eventing(p) \/ Ending(p)
      <4>1. UNCHANGED <<callVars, bodyVars>>
        BY <3>1 DEF Eventing, Emit, EmitTimeout, EventTake, EventHandled, EventPanics, Ending,
                    Close, ContextEnds
      <4> QED BY <4>1, BodiesUnchanged DEF callVars, bodyVars
    <3> QED BY <1>3, <3>1, ServingMovesOn
  <2>2. CASE \A q \in Peers : Path(q)' = Path(q)
    <3>1. \A q \in Peers : \A f \in Carried(q)' : f \in Carried(q)
      BY <2>2 DEF Carried
    <3> QED BY <2>1, <2>2, <3>1, AnswersKept DEF AnswersApart
  <2>3. ASSUME NEW s \in Serials, Respond(p, s), NEW f \in Frame, f = ResponseFrame(p, s, value[p][s]),
               Path(p)' = Append(Path(p), f), \A q \in Peers : q # p => Path(q)' = Path(q)
        PROVE  AnswersMatch' /\ AnswersApart'
    <3>1. FirstAnswer(p, f)
      BY <2>3, ServingMovesOn DEF Serving
    <3> QED BY <2>1, <2>3, <3>1, AnswersQueue
  <2>4. ASSUME NEW f \in Frame, ~IsResponse(f),
               Path(p)' = Append(Path(p), f), \A q \in Peers : q # p => Path(q)' = Path(q)
        PROVE  AnswersMatch' /\ AnswersApart'
    BY <2>1, <2>4, AnswersQueue
  <2>5. ~IsResponse(EventFrame(p, emitted[p] + 1))
    BY DEF IsResponse, EventFrame
  <2> QED BY <1>3, <2>2, <2>3, <2>4, <2>5, PathServing
<1>4. ASSUME NEW p \in Peers, NEW f \in StrayFrames, Stray(p, f) PROVE FALSE
  BY <1>4 DEF Stray
<1> QED BY <1>1, <1>2, <1>3, <1>4, AnswersCalling, AnswersReading DEF Next

-----------------------------------------------------------------------------
\* What two conforming peers keep between them.
ConformInv ==
  /\ TypeOK /\ SerialOrder /\ Unreserved /\ NoPendingLeak
  /\ RequestsMatch /\ CancelOrder /\ AnswersMatch /\ AnswersApart

LEMMA InitConform == Init => ConformInv
<1> SUFFICES ASSUME Init PROVE /\ RequestsMatch /\ CancelOrder /\ AnswersMatch /\ AnswersApart
                                 /\ Unreserved /\ NoPendingLeak
  BY InitTypes, InitOrder DEF ConformInv
<1>1. \A p \in Peers : Path(p) = <<>> /\ Carried(p) = {}
  BY InitPaths
<1>2. CancelOrder
  BY <1>1 DEF CancelOrder, Follows
<1>3. \A p \in Peers : Other(p) \in Peers
  BY DEF Other, Peers
<1>4. RequestsMatch
  BY <1>1, <1>3 DEF RequestsMatch, Published, Init, PerPeer, PerSerial
<1>5. AnswersMatch /\ AnswersApart
  BY <1>1, <1>3 DEF AnswersMatch, AnswersApart, Distinct, Init, PerPeer, PerSerial
<1>6. "client" \in Peers
  BY DEF Peers
<1> QED BY <1>2, <1>4, <1>5, <1>6, InitPaths

LEMMA ConformStep == ConformInv /\ [Next]_vars /\ Nonconforming = {} => ConformInv'
BY TypeStep, OrderStep, PendingStep, RequestsStep, CancelStep, AnswersStep DEF ConformInv

\* Between conforming peers a cancellation, which passes no gate, is never read
\* before the request it names.  It is queued for a call that was published, and
\* what was published is admitted or still ahead of it on the way: the fact that is
\* missing from the property itself.
THEOREM CancelsComeSecond == ASSUME Nonconforming = {} PROVE Spec => []CancelFollowsRequest
<1>1. ConformInv => CancelFollowsRequest
  <2> SUFFICES ASSUME ConformInv, NEW p \in Peers, NEW i \in 1 .. Len(Wire(p)),
                      Wire(p)[i].kind = "cancel", ~(Wire(p)[i].id <= admitted[Other(p)])
               PROVE  \E j \in 1 .. i - 1 :
                        Wire(p)[j].kind = "request" /\ Wire(p)[j].id = Wire(p)[i].id
    BY DEF CancelFollowsRequest
  <2>1. /\ Len(Wire(p)) \in Nat
        /\ \A k \in 1 .. Len(Wire(p)) : k \in 1 .. Len(Path(p)) /\ Wire(p)[k] = Path(p)[k]
    BY WirePrefix DEF ConformInv
  <2>2. PICK j \in 1 .. i - 1 : IsRequest(Path(p)[j]) /\ Path(p)[j].id = Path(p)[i].id
    BY <2>1 DEF ConformInv, CancelOrder, Follows
  <2>3. j \in 1 .. Len(Wire(p))
    BY <2>1
  <2> QED BY <2>1, <2>2, <2>3 DEF IsRequest
<1>2. Init => ConformInv
  BY InitConform
<1>3. ConformInv /\ [Next]_vars => ConformInv'
  BY ConformStep
<1> QED BY <1>1, <1>2, <1>3, PTL DEF Spec

\* Between conforming peers a request is answered once: the deadline callback and
\* the returning body go through one gate, a refusal leaves no body that could
\* answer too, and once the reply is in nothing is on the way that could be taken
\* for another.  The two conjuncts that carry it are AnswersMatch, a response is
\* on the way only for what is answered and not yet replied, and AnswersApart.
THEOREM RepliesComeOnce == ASSUME Nonconforming = {} PROVE Spec => []OneAnswer
<1>1. ConformInv => OneAnswer
  <2> SUFFICES ASSUME ConformInv, NEW p \in Peers, NEW i \in 1 .. Len(Wire(p)),
                      Wire(p)[i].kind = "response"
               PROVE  /\ reply[Other(p)][Wire(p)[i].id] = "none"
                      /\ \A j \in 1 .. Len(Wire(p)) :
                           Wire(p)[j].kind = "response" /\ Wire(p)[j].id = Wire(p)[i].id => j = i
    BY DEF OneAnswer
  <2>1. \A k \in 1 .. Len(Wire(p)) : k \in 1 .. Len(Path(p)) /\ Wire(p)[k] = Path(p)[k]
    BY WirePrefix DEF ConformInv
  <2>2. Wire(p)[i] \in Carried(p)
    BY <2>1 DEF Carried
  <2>3. reply[Other(p)][Wire(p)[i].id] = "none"
    BY <2>2 DEF ConformInv, AnswersMatch, IsResponse
  <2>4. ASSUME NEW j \in 1 .. Len(Wire(p)), Wire(p)[j].kind = "response",
               Wire(p)[j].id = Wire(p)[i].id
        PROVE  j = i
    BY <2>1, <2>4 DEF ConformInv, AnswersApart, Distinct, IsResponse
  <2> QED BY <2>3, <2>4
<1>2. Init => ConformInv
  BY InitConform
<1>3. ConformInv /\ [Next]_vars => ConformInv'
  BY ConformStep
<1> QED BY <1>1, <1>2, <1>3, PTL DEF Spec
=============================================================================
