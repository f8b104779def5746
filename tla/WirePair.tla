------------------------------ MODULE WirePair ------------------------------
(***************************************************************************)
(* One end of a local wire pair: the side that admits what the other end   *)
(* sends, delivers it in order to its one receiver from a goroutine of its *)
(* own, and answers each request once.  The two ends run the same code and *)
(* share only the lock and the end of the pair.                            *)
(*                                                                         *)
(* A request is a member of Calls; its key is the caller's return address  *)
(* and identifier, which a later request may reuse.  Events carry nothing  *)
(* but their place in the queue.  Whoever holds an answered call's return  *)
(* capability may use it again: the second answer is refused.              *)
(***************************************************************************)
EXTENDS Naturals, Sequences, FiniteSets

CONSTANTS Calls,          \* requests
          NoCall,         \* none of them
          Keys,           \* return identities
          QueueCapacity, MaxPending, MaxHandlers

VARIABLES closed,    \* the pair ended
          queue,     \* deliveries waiting for the run loop
          table,     \* key -> the admitted call, while it holds its slot
          call,      \* what the end knows of each call
          hand,      \* the delivery the run loop holds
          receiver,  \* the registration: "none", "app" or "forward"
          answers    \* responses each caller was sent

vars == <<closed, queue, table, call, hand, receiver, answers>>

Receivers == {"none", "app", "forward"}
Delivery == [kind : {"request", "refusal", "cancel"}, call : Calls] \cup [kind : {"event"}, call : {NoCall}]
Fresh(k) == [key |-> k, by |-> "none", work |-> "none", responded |-> FALSE, completed |-> FALSE,
             active |-> FALSE, cancelQueued |-> FALSE, cancelled |-> FALSE]

Nothing == [step |-> "idle", of |-> [kind |-> "event", call |-> NoCall], to |-> "none"]
Holding(step, kind) == hand.step = step /\ hand.of.kind = kind
Data(q) == Cardinality({i \in 1 .. Len(q) : q[i].kind # "cancel"})
Holds(c) == table[call[c].key] = c
Slots == {k \in Keys : table[k] # NoCall}
Active == {c \in Calls : call[c].active}

\* A call keeps its slot until it is complete and its queued cancellation has
\* been drained.
Retire(known, c) ==
  IF known[c].completed /\ ~known[c].cancelQueued /\ table[known[c].key] = c
    THEN [table EXCEPT ![known[c].key] = NoCall] ELSE table

\* A response counts only for a call nobody has answered.
Answered(S) == [c \in Calls |-> answers[c] + IF c \in S /\ ~call[c].responded THEN 1 ELSE 0]

-----------------------------------------------------------------------------
(* Admission.                                                              *)

Full == Data(queue) >= QueueCapacity

Admit(c, k) ==
  /\ ~closed /\ ~Full /\ call[c].work = "none" /\ ~Holds(c)
  /\ IF table[k] = NoCall /\ Cardinality(Slots) < MaxPending
       THEN /\ table' = [table EXCEPT ![k] = c]
            /\ call' = [call EXCEPT ![c] = Fresh(k)]
            /\ queue' = Append(queue, [kind |-> "request", call |-> c])
       ELSE /\ queue' = Append(queue, [kind |-> "refusal", call |-> c])
            /\ UNCHANGED <<table, call>>
  /\ UNCHANGED <<closed, hand, receiver, answers>>

AdmitEvent ==
  /\ ~closed /\ ~Full
  /\ queue' = Append(queue, [kind |-> "event", call |-> NoCall])
  /\ UNCHANGED <<closed, table, call, hand, receiver, answers>>

\* A cancellation takes no room of its own: the call it names reserved it.
Cancellable(c) == ~call[c].completed /\ ~call[c].cancelQueued /\ ~call[c].cancelled

\* Mutant: a cancellation of no call is queued as well.
CancelUnknown(k) ==
  /\ ~closed
  /\ queue' = Append(queue, [kind |-> "cancel", call |-> table[k]])
  /\ call' = IF table[k] = NoCall THEN call ELSE [call EXCEPT ![table[k]].cancelQueued = TRUE]
  /\ UNCHANGED <<closed, table, hand, receiver, answers>>

Cancel(k) ==
  /\ ~closed /\ table[k] # NoCall /\ Cancellable(table[k])
  /\ call' = [call EXCEPT ![table[k]].cancelQueued = TRUE]
  /\ queue' = Append(queue, [kind |-> "cancel", call |-> table[k]])
  /\ UNCHANGED <<closed, table, hand, receiver, answers>>

\* Mutant: the end answers a call whose deadline has answered it.
EndAnswersAll ==
  LET ended == {c \in Calls : Holds(c)} IN
  /\ ~closed /\ closed' = TRUE
  /\ call' = [c \in Calls |-> IF c \in ended
                THEN [call[c] EXCEPT !.responded = TRUE, !.completed = TRUE] ELSE call[c]]
  /\ answers' = [c \in Calls |-> answers[c] + IF c \in ended THEN 1 ELSE 0]
  /\ table' = [k \in Keys |-> NoCall] /\ queue' = <<>> /\ receiver' = "none"
  /\ UNCHANGED hand

\* Everything admitted is answered, everything queued is dropped.
End ==
  LET ended == {c \in Calls : Holds(c)} IN
  /\ ~closed /\ closed' = TRUE
  /\ call' = [c \in Calls |-> IF c \in ended
                THEN [call[c] EXCEPT !.responded = TRUE, !.completed = TRUE] ELSE call[c]]
  /\ answers' = Answered(ended)
  /\ table' = [k \in Keys |-> NoCall] /\ queue' = <<>> /\ receiver' = "none"
  /\ UNCHANGED hand

Overflow == Full /\ End

-----------------------------------------------------------------------------
(* The run loop.                                                           *)

Take ==
  /\ hand = Nothing /\ ~closed /\ queue # <<>>
  /\ hand' = [step |-> "taken", of |-> Head(queue), to |-> "none"] /\ queue' = Tail(queue)
  /\ UNCHANGED <<closed, table, call, receiver, answers>>

\* A refusal decided at admission answers the caller: no slot is concerned.
Refuse ==
  /\ Holding("taken", "refusal")
  /\ hand' = Nothing
  /\ answers' = [answers EXCEPT ![hand.of.call] = @ + 1]
  /\ UNCHANGED <<closed, queue, table, call, receiver>>

\* localReturn.Send: the first response is the caller's.
Reply(c) ==
  /\ call' = [call EXCEPT ![c].work = "replied", ![c].responded = TRUE]
  /\ answers' = IF call[c].completed THEN answers ELSE Answered({c})

\* The request meets no receiver, or as many handlers as are allowed.
Unserved ==
  /\ Holding("taken", "request") /\ ~closed
  /\ receiver = "none" \/ Cardinality(Active) >= MaxHandlers
  /\ Reply(hand.of.call)
  /\ hand' = [hand EXCEPT !.step = "answer"]
  /\ UNCHANGED <<closed, queue, table, receiver>>

\* It takes a handler's place and a deadline.
Start ==
  /\ Holding("taken", "request") /\ ~closed
  /\ receiver # "none" /\ Cardinality(Active) < MaxHandlers
  /\ call' = [call EXCEPT ![hand.of.call].active = TRUE, ![hand.of.call].by = receiver]
  /\ hand' = [hand EXCEPT !.step = "deliver", !.to = receiver]
  /\ UNCHANGED <<closed, queue, table, receiver, answers>>

StartEvent ==
  /\ Holding("taken", "event") /\ ~closed
  /\ hand' = IF receiver = "none" THEN Nothing ELSE [hand EXCEPT !.step = "deliver", !.to = receiver]
  /\ UNCHANGED <<closed, queue, table, call, receiver, answers>>

\* The loop sees the end of the pair before it starts what it took.
Leave ==
  /\ hand.step = "taken" /\ hand.of.kind \in {"request", "event"} /\ closed
  /\ hand' = Nothing
  /\ UNCHANGED <<closed, queue, table, call, receiver, answers>>

\* Mutant: a call that completed before its cancellation was drained stays.
DeliverCancelKeeps ==
  LET c == hand.of.call IN
  /\ Holding("taken", "cancel")
  /\ call' = [call EXCEPT ![c].cancelQueued = FALSE, ![c].cancelled = TRUE]
  /\ hand' = IF call[c].completed \/ call[c].by = "none" THEN Nothing
              ELSE [hand EXCEPT !.step = "deliver", !.to = call[c].by]
  /\ UNCHANGED <<closed, queue, table, receiver, answers>>

\* The cancellation is drained; it goes to the registration that has the call.
DeliverCancel ==
  LET c == hand.of.call IN
  /\ Holding("taken", "cancel")
  /\ call' = [call EXCEPT ![c].cancelQueued = FALSE, ![c].cancelled = TRUE]
  /\ table' = Retire(call', c)
  /\ hand' = IF call[c].completed \/ call[c].by = "none" THEN Nothing
              ELSE [hand EXCEPT !.step = "deliver", !.to = call[c].by]
  /\ UNCHANGED <<closed, queue, receiver, answers>>

\* The receiver's Message returns.  A request's body goes on without it.
Delivered(r) ==
  /\ hand.step = "deliver" /\ hand.to = r
  /\ hand' = Nothing
  /\ call' = IF hand.of.kind = "request" THEN [call EXCEPT ![hand.of.call].work = "running"] ELSE call
  /\ UNCHANGED <<closed, queue, table, answers>>

\* It cannot take the request: the loop answers in its place.
Undelivered(r) ==
  /\ Holding("deliver", "request") /\ hand.to = r
  /\ Reply(hand.of.call)
  /\ hand' = [hand EXCEPT !.step = "answer"]
  /\ UNCHANGED <<closed, queue, table>>

\* An event consumer has no longer than the write timeout, and no failure.
EventStalls(r) == Holding("deliver", "event") /\ hand.to = r /\ End

-----------------------------------------------------------------------------
(* Answers and deadlines.                                                  *)

Answer(c) ==
  /\ call[c].work = "running" /\ Reply(c)
  /\ UNCHANGED <<closed, queue, table, hand, receiver>>

\* The deferred half of localReturn.Send: the handler's place and the slot.
Complete(c) ==
  /\ call[c].work = "replied"
  /\ call' = [call EXCEPT ![c].work = "done", ![c].completed = TRUE,
                          ![c].active = @ /\ call[c].completed]
  /\ table' = Retire(call', c)
  /\ hand' = IF hand.step = "answer" /\ hand.of.call = c THEN Nothing ELSE hand
  /\ UNCHANGED <<closed, queue, receiver, answers>>

\* Mutant: the deadline gives the handler's place to the next request.
TimeoutFrees(c) ==
  LET cancels == ~call[c].cancelQueued /\ ~call[c].cancelled IN
  /\ ~closed /\ call[c].by # "none" /\ ~call[c].completed
  /\ cancels \/ ~call[c].responded
  /\ call' = [call EXCEPT ![c].responded = TRUE, ![c].cancelQueued = @ \/ cancels, ![c].active = FALSE]
  /\ queue' = IF cancels THEN Append(queue, [kind |-> "cancel", call |-> c]) ELSE queue
  /\ answers' = Answered({c})
  /\ UNCHANGED <<closed, table, hand, receiver>>

\* The deadline answers the caller and cancels the handler, whose place stays
\* taken until it answers itself.
Timeout(c) ==
  LET cancels == ~call[c].cancelQueued /\ ~call[c].cancelled IN
  /\ ~closed /\ call[c].by # "none" /\ ~call[c].completed
  /\ cancels \/ ~call[c].responded
  /\ call' = [call EXCEPT ![c].responded = TRUE, ![c].cancelQueued = @ \/ cancels]
  /\ queue' = IF cancels THEN Append(queue, [kind |-> "cancel", call |-> c]) ELSE queue
  /\ answers' = Answered({c})
  /\ UNCHANGED <<closed, table, hand, receiver>>

Receive(r) ==
  /\ ~closed /\ receiver = "none" /\ receiver' = r
  /\ UNCHANGED <<closed, queue, table, call, hand, answers>>

Detach ==
  /\ receiver # "none" /\ receiver' = "none"
  /\ UNCHANGED <<closed, queue, table, call, hand, answers>>

Init(keys) ==
  /\ closed = FALSE /\ queue = <<>> /\ hand = Nothing /\ receiver \in Receivers
  /\ table = [k \in Keys |-> NoCall]
  /\ call = [c \in Calls |-> Fresh(keys[c])]
  /\ answers = [c \in Calls |-> 0]

-----------------------------------------------------------------------------
(* Properties.                                                             *)

TypeOK ==
  /\ closed \in BOOLEAN
  /\ queue \in Seq(Delivery)
  /\ table \in [Keys -> Calls \cup {NoCall}]
  /\ call \in [Calls -> [key : Keys, by : Receivers, work : {"none", "running", "replied", "done"},
                         responded : BOOLEAN, completed : BOOLEAN, active : BOOLEAN,
                         cancelQueued : BOOLEAN, cancelled : BOOLEAN]]
  /\ hand \in [step : {"idle", "taken", "deliver", "answer"}, of : Delivery, to : Receivers]
  /\ receiver \in Receivers
  /\ answers \in [Calls -> Nat]

Queued(d) == {i \in 1 .. Len(queue) : queue[i] = d}
InHand(d) == hand.step = "taken" /\ hand.of = d

\* Data keeps to the queue's bound and requests to theirs; beyond the data the
\* queue holds one cancellation, at most, of each call that keeps its slot: a
\* retired or forgotten call never leaves one behind, so none can meet a call
\* that took the same identity later.
CancelsReserved ==
  /\ Data(queue) <= QueueCapacity /\ Cardinality(Slots) <= MaxPending
  /\ \A c \in Calls : LET d == [kind |-> "cancel", call |-> c] IN
       /\ Cardinality(Queued(d)) + (IF InHand(d) THEN 1 ELSE 0) <= 1
       /\ ~closed => (call[c].cancelQueued <=> InHand(d) \/ Queued(d) # {})
       /\ ~closed /\ call[c].cancelQueued => Holds(c)

\* However many deadlines pass, bodies and answers under way stay within the
\* handlers' bound, and each keeps its call's slot.
HandlersCounted ==
  /\ Cardinality(Active) <= MaxHandlers
  /\ \A c \in Calls : call[c].work = "running" => call[c].active
  /\ \A c \in Calls : ~closed /\ call[c].active => Holds(c) /\ ~call[c].completed
=============================================================================
