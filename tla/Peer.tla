------------------------------- MODULE Peer --------------------------------
(***************************************************************************)
(* Two peers of the nightseam.duplex/1 profile joined by one connection    *)
(* (runtime/go/peer.go over duplex/go/pipe.go).  Each peer runs a reader,  *)
(* a writer, an event loop, one goroutine per call it makes and one per    *)
(* request it serves; the loops meet only in the peer's bounded queues.    *)
(*                                                                         *)
(* A call is named by the serial it reserved, so call[p][s] is both the    *)
(* state of the calling goroutine and, once it returned, its outcome.      *)
(* Timers are actions that may fire whenever their wait is in progress.    *)
(***************************************************************************)
EXTENDS Integers, Sequences, FiniteSets

CONSTANTS
  MaxSerial,      \* maxRequestSerial: the last serial a sender publishes
  MaxPending,     \* Options.MaxPendingRequests
  MaxHandlers,    \* Options.MaxConcurrentHandlers
  QueueCapacity,  \* Options.QueueCapacity, of outputs and of events
  InFlight,       \* frames the connection holds per direction
  Methods,        \* method names a caller may use
  Handled,        \* the methods the other side has a handler for
  AppCallers,     \* the peers whose application makes calls
  HandlerCallers, \* the peers whose request handlers make calls
  EventCallers,   \* the peers whose event handlers make calls
  Emitters,       \* the peers that emit events
  Closers,        \* the peers whose application closes them or ends their context
  Nonconforming,  \* the peers that are not this implementation and may break the profile
  Stalling,       \* the peers on which a wait may outlast WriteTimeout
  MaxEvents       \* bound of the model: events a peer emits

ASSUME PeerAssumption ==
  /\ MaxSerial \in Nat \ {0} /\ MaxPending \in Nat \ {0}
  /\ MaxHandlers \in Nat \ {0} /\ QueueCapacity \in Nat \ {0}
  /\ InFlight \in Nat \ {0} /\ MaxEvents \in Nat
  /\ Handled \subseteq Methods
  /\ AppCallers \cup HandlerCallers \cup EventCallers \subseteq {"client", "server"}
  /\ Emitters \subseteq {"client", "server"}
  /\ Closers \subseteq {"client", "server"}
  /\ Stalling \cup Nonconforming \subseteq {"client", "server"}

Peers == {"client", "server"}
Other(p) == IF p = "client" THEN "server" ELSE "client"
Serials == 1 .. MaxSerial

App == 0                      \* a call made by the application
EventLoop == MaxSerial + 1    \* a call made by the running event handler

Answers == {"result", "error", "cancelled", "busy", "method_not_found"}
CallStates == {"none", "publishing", "waiting", "unpublished", "expired", "ended"}
                \cup Answers

VARIABLES
  next,       \* the last serial this peer reserved
  call,       \* per own serial: the calling goroutine, or its outcome
  by,         \* per own serial: App, EventLoop, or the body that called
  pending,    \* the own serials a response may settle
  reply,      \* per own serial: the buffered reply, or "none"
  admitted,   \* the largest request serial read from the other side
  body,       \* per remote serial: the handler goroutine
  ctx,        \* per remote serial: the handler's context
  answer,     \* per remote serial: the sync.Once around respond
  value,      \* per remote serial: what the once is answering with
  slots,      \* handler slots taken
  outputs,    \* frames waiting for the writer
  hand,       \* the frame the writer has taken and is sending
  net,        \* frames on the connection, sent by this peer
  held,       \* the event the reader waits to queue, 0 while it reads
  events,     \* events waiting for the event loop
  handling,   \* the event whose handler runs, 0 for none
  emitted,    \* events this peer has queued for the other side
  delivered,  \* history: the last event handed to a handler
  err         \* why the peer ended, "none" while it runs

callVars == <<next, call, by, pending, reply>>
bodyVars == <<admitted, body, ctx, answer, value, slots>>
eventVars == <<held, events, handling, emitted, delivered>>
wireVars == <<outputs, hand, net>>
vars == <<callVars, bodyVars, eventVars, wireVars, err>>

Frame ==
  [kind : {"request"}, prefix : Peers, id : Nat, load : Methods]
  \cup [kind : {"response"}, prefix : Peers, id : Nat, load : Answers \cup {"none"}]
  \cup [kind : {"cancel", "event"}, prefix : Peers, id : Nat, load : {"none"}]

RequestFrame(p, s, m) == [kind |-> "request", prefix |-> p, id |-> s, load |-> m]
CancelFrame(p, s) == [kind |-> "cancel", prefix |-> p, id |-> s, load |-> "none"]
ResponseFrame(p, s, a) ==
  [kind |-> "response", prefix |-> Other(p), id |-> s, load |-> a]
EventFrame(p, n) == [kind |-> "event", prefix |-> p, id |-> n, load |-> "none"]

Room(p) == Len(outputs[p]) < QueueCapacity
Enqueue(p, f) == outputs' = [outputs EXCEPT ![p] = Append(@, f)]

\* end runs once: the first reason stays, later ones are dropped.  Its steps
\* (err, the context, done, the connection) are one here: what the loops may
\* still do between them they could have done just before the first.
End(p, why) == err' = [err EXCEPT ![p] = IF @ = "none" THEN why ELSE @]

-----------------------------------------------------------------------------
(* Calls.                                                                  *)

\* The publish gate is held by the call that reserved a serial and is still
\* waiting to queue it.
\* Mutant: serials are reserved under the gate and queued outside it.
GateIgnored(p) == TRUE

GateFree(p) == \A s \in Serials : call[p][s] # "publishing"

Live(p, s) == call[p][s] \in {"publishing", "waiting"}

\* A body or an event handler calls from its own goroutine, one call at a time.
MayCall(p, b) ==
  /\ GateFree(p)
  /\ \/ b = App /\ p \in AppCallers
     \/ b \in Serials /\ p \in HandlerCallers /\ body[p][b] = "running"
     \/ b = EventLoop /\ p \in EventCallers /\ handling[p] # 0
  /\ b # App => \A s \in Serials : by[p][s] = b => ~Live(p, s)

Reserve(p, b, state) ==
  /\ next' = [next EXCEPT ![p] = @ + 1]
  /\ call' = [call EXCEPT ![p][next[p] + 1] = state]
  /\ by' = [by EXCEPT ![p][next[p] + 1] = b]

CallAdmit(p, m, b) ==
  /\ MayCall(p, b)
  /\ next[p] < MaxSerial
  /\ err[p] = "none"
  /\ Cardinality(pending[p]) < MaxPending
  /\ pending' = [pending EXCEPT ![p] = @ \cup {next[p] + 1}]
  /\ \/ /\ Room(p)
        /\ Reserve(p, b, "waiting")
        /\ Enqueue(p, RequestFrame(p, next[p] + 1, m))
     \/ /\ ~Room(p)
        /\ Reserve(p, b, "publishing")
        /\ UNCHANGED outputs
  /\ UNCHANGED <<reply, bodyVars, eventVars, hand, net, err>>

\* A call past the bound, or on an ended peer, has spent its serial and
\* returns with the proof that nothing was published.
\* Mutant: the exhausted serial space is noticed one call late.
CallRefusedLate(p, b) ==
  /\ MayCall(p, b)
  /\ next' = [next EXCEPT ![p] = @ + 1]
  /\ UNCHANGED <<call, by, pending, reply, bodyVars, eventVars, wireVars, err>>

CallRefused(p, b) ==
  /\ MayCall(p, b)
  /\ next[p] < MaxSerial
  /\ err[p] # "none" \/ Cardinality(pending[p]) >= MaxPending
  /\ Reserve(p, b, "unpublished")
  /\ UNCHANGED <<pending, reply, bodyVars, eventVars, wireVars, err>>

CallExhausted(p, b) ==
  /\ MayCall(p, b)
  /\ next[p] = MaxSerial
  /\ err[p] = "none"
  /\ End(p, "failed")
  /\ UNCHANGED <<callVars, bodyVars, eventVars, wireVars>>

\* The frame's method shows only once it is queued, so it is chosen here.
PublishRoom(p, s, m) ==
  /\ call[p][s] = "publishing"
  /\ err[p] = "none"
  /\ Room(p)
  /\ Enqueue(p, RequestFrame(p, s, m))
  /\ call' = [call EXCEPT ![p][s] = "waiting"]
  /\ UNCHANGED <<next, by, pending, reply, bodyVars, eventVars, hand, net, err>>

\* The caller's context ended or the peer did, before there was room.
\* Mutant: a call withdrawn before publication still sends its cancel.
PublishWithdrawnCancels(p, s) ==
  /\ call[p][s] = "publishing" /\ Room(p)
  /\ call' = [call EXCEPT ![p][s] = "unpublished"]
  /\ pending' = [pending EXCEPT ![p] = @ \ {s}]
  /\ Enqueue(p, CancelFrame(p, s))
  /\ UNCHANGED <<next, by, reply, bodyVars, eventVars, hand, net, err>>

PublishWithdrawn(p, s) ==
  /\ call[p][s] = "publishing"
  /\ call' = [call EXCEPT ![p][s] = "unpublished"]
  /\ pending' = [pending EXCEPT ![p] = @ \ {s}]
  /\ UNCHANGED <<next, by, reply, bodyVars, eventVars, wireVars, err>>

\* No room for WriteTimeout: the peer fails with ErrBackpressure.
\* Mutant: the failed publication does not finish the call.
PublishTimeoutLeaks(p, s) ==
  /\ call[p][s] = "publishing" /\ err[p] = "none" /\ ~Room(p)
  /\ End(p, "failed")
  /\ call' = [call EXCEPT ![p][s] = "unpublished"]
  /\ UNCHANGED <<next, by, pending, reply, bodyVars, eventVars, wireVars>>

PublishTimeout(p, s) ==
  /\ p \in Stalling
  /\ call[p][s] = "publishing"
  /\ err[p] = "none"
  /\ ~Room(p)
  /\ End(p, "failed")
  /\ call' = [call EXCEPT ![p][s] = "unpublished"]
  /\ pending' = [pending EXCEPT ![p] = @ \ {s}]
  /\ UNCHANGED <<next, by, reply, bodyVars, eventVars, wireVars>>

AwaitReply(p, s) ==
  /\ call[p][s] = "waiting"
  /\ reply[p][s] # "none"
  /\ call' = [call EXCEPT ![p][s] = reply[p][s]]
  /\ pending' = [pending EXCEPT ![p] = @ \ {s}]
  /\ UNCHANGED <<next, by, reply, bodyVars, eventVars, wireVars, err>>

\* The caller's context or RequestTimeout ended the wait; the cancel is queued
\* only if that needs no waiting.
\* Mutant: a cancelled call is reported as never published.
AwaitExpiresUnpublished(p, s) ==
  /\ call[p][s] = "waiting"
  /\ call' = [call EXCEPT ![p][s] = "unpublished"]
  /\ pending' = [pending EXCEPT ![p] = @ \ {s}]
  /\ UNCHANGED <<next, by, reply, bodyVars, eventVars, wireVars, err>>

AwaitExpires(p, s) ==
  /\ call[p][s] = "waiting"
  /\ call' = [call EXCEPT ![p][s] = "expired"]
  /\ pending' = [pending EXCEPT ![p] = @ \ {s}]
  /\ IF err[p] = "none" /\ Room(p) THEN Enqueue(p, CancelFrame(p, s))
                                   ELSE UNCHANGED outputs
  /\ UNCHANGED <<next, by, reply, bodyVars, eventVars, hand, net, err>>

\* Mutant: the proof of the send that ended the peer is broadcast.
AwaitEndedUnpublished(p, s) ==
  /\ call[p][s] = "waiting" /\ err[p] # "none"
  /\ call' = [call EXCEPT ![p][s] = "unpublished"]
  /\ pending' = [pending EXCEPT ![p] = @ \ {s}]
  /\ UNCHANGED <<next, by, reply, bodyVars, eventVars, wireVars, err>>

AwaitEnded(p, s) ==
  /\ call[p][s] = "waiting"
  /\ err[p] # "none"
  /\ call' = [call EXCEPT ![p][s] = "ended"]
  /\ pending' = [pending EXCEPT ![p] = @ \ {s}]
  /\ UNCHANGED <<next, by, reply, bodyVars, eventVars, wireVars, err>>

-----------------------------------------------------------------------------
(* The writer.                                                             *)

WriterTake(p) ==
  /\ err[p] = "none" /\ hand[p] = <<>> /\ outputs[p] # <<>>
  /\ hand' = [hand EXCEPT ![p] = <<Head(outputs[p])>>]
  /\ outputs' = [outputs EXCEPT ![p] = Tail(@)]
  /\ UNCHANGED <<callVars, bodyVars, eventVars, net, err>>

WriterSend(p) ==
  /\ err[p] = "none" /\ hand[p] # <<>>
  /\ err[Other(p)] = "none"
  /\ Len(net[p]) < InFlight
  /\ net' = [net EXCEPT ![p] = Append(@, hand[p][1])]
  /\ hand' = [hand EXCEPT ![p] = <<>>]
  /\ UNCHANGED <<callVars, bodyVars, eventVars, outputs, err>>

\* Send fails: the far end of the connection is gone, or it took nothing for
\* WriteTimeout.
WriterFails(p) ==
  /\ err[p] = "none" /\ hand[p] # <<>>
  /\ \/ err[Other(p)] # "none"
     \/ Len(net[p]) >= InFlight /\ p \in Stalling
  /\ End(p, "failed")
  /\ UNCHANGED <<callVars, bodyVars, eventVars, wireVars>>

-----------------------------------------------------------------------------
(* The reader.                                                             *)

Receives(p, kind) ==
  /\ err[p] = "none" /\ held[p] = 0
  /\ net[Other(p)] # <<>> /\ Head(net[Other(p)]).kind = kind

Received(p) == Head(net[Other(p)])
Consume(p) == net' = [net EXCEPT ![Other(p)] = Tail(@)]

\* A request and a cancel carry the sender's prefix, a response this peer's.
ValidID(p, f) == f.prefix = (IF f.kind = "response" THEN p ELSE Other(p))

\* Mutant: only the active ids are compared.
AdmitsFinished(p, f) == TRUE

Admits(p, f) == f.id > admitted[p]

\* The ids in the incoming table: bodies that have not finished.
Active(p) == {s \in Serials : body[p][s] \in {"running", "returned"}}

ReadRefused(p) ==
  /\ \/ \E kind \in {"request", "response", "cancel"} :
          Receives(p, kind) /\ ~ValidID(p, Received(p))
     \/ /\ Receives(p, "request")
        /\ ~Admits(p, Received(p)) \/ Received(p).id \in Active(p)
  /\ Consume(p)
  /\ End(p, "refused")
  /\ UNCHANGED <<callVars, bodyVars, eventVars, outputs, hand>>

\* startRequest, with a handler and a free slot.
ReadRequest(p) ==
  /\ Receives(p, "request")
  /\ LET f == Received(p) IN
       /\ ValidID(p, f) /\ Admits(p, f) /\ f.id \notin Active(p)
       /\ f.load \in Handled /\ slots[p] < MaxHandlers
       /\ admitted' = [admitted EXCEPT ![p] = f.id]
       /\ body' = [body EXCEPT ![p][f.id] = "running"]
  /\ slots' = [slots EXCEPT ![p] = @ + 1]
  /\ Consume(p)
  /\ UNCHANGED <<callVars, ctx, answer, value, eventVars, outputs, hand, err>>

\* startRequest without either: rejectRequest runs on the reader and never
\* waits for room; a peer without room for a refusal fails.
ReadRejected(p) ==
  /\ Receives(p, "request")
  /\ LET f == Received(p)
         why == IF f.load \notin Handled THEN "method_not_found" ELSE "busy"
     IN
       /\ ValidID(p, f) /\ Admits(p, f) /\ f.id \notin Active(p)
       /\ f.load \notin Handled \/ slots[p] >= MaxHandlers
       /\ admitted' = [admitted EXCEPT ![p] = f.id]
       /\ body' = [body EXCEPT ![p][f.id] = "rejected"]
       /\ \/ /\ Room(p)
             /\ Enqueue(p, ResponseFrame(p, f.id, why))
             /\ UNCHANGED err
          \/ ~Room(p) /\ End(p, "failed") /\ UNCHANGED outputs
  /\ Consume(p)
  /\ UNCHANGED <<callVars, ctx, answer, value, slots, eventVars, hand>>

\* A response that correlates with nothing pending is dropped.
ReadResponse(p) ==
  /\ Receives(p, "response")
  /\ ValidID(p, Received(p))
  /\ LET f == Received(p) IN
       /\ reply' = [reply EXCEPT ![p] =
                      IF f.id \in pending[p] THEN [@ EXCEPT ![f.id] = f.load] ELSE @]
       /\ pending' = [pending EXCEPT ![p] = @ \ {f.id}]
  /\ Consume(p)
  /\ UNCHANGED <<next, call, by, bodyVars, eventVars, outputs, hand, err>>

ReadCancel(p) ==
  /\ Receives(p, "cancel")
  /\ ValidID(p, Received(p))
  /\ LET f == Received(p) IN
       ctx' = [ctx EXCEPT ![p] =
                 IF f.id \in Active(p) /\ @[f.id] = "live"
                   THEN [@ EXCEPT ![f.id] = "cancelled"] ELSE @]
  /\ Consume(p)
  /\ UNCHANGED <<callVars, admitted, body, answer, value, slots, eventVars, outputs, hand, err>>

\* enqueueEvent: without room the reader keeps the event and stops reading.
\* Mutant: an event that finds the queue full is dropped.
ReadEventDrops(p) ==
  /\ Receives(p, "event")
  /\ events' = [events EXCEPT ![p] =
       IF Len(@) < QueueCapacity THEN Append(@, Received(p).id) ELSE @]
  /\ Consume(p)
  /\ UNCHANGED <<callVars, bodyVars, held, handling, emitted, delivered, outputs, hand, err>>

ReadEvent(p) ==
  /\ Receives(p, "event")
  /\ IF Len(events[p]) < QueueCapacity
       THEN events' = [events EXCEPT ![p] = Append(@, Received(p).id)] /\ UNCHANGED held
       ELSE held' = [held EXCEPT ![p] = Received(p).id] /\ UNCHANGED events
  /\ Consume(p)
  /\ UNCHANGED <<callVars, bodyVars, handling, emitted, delivered, outputs, hand, err>>

EventRoom(p) ==
  /\ err[p] = "none" /\ held[p] # 0
  /\ Len(events[p]) < QueueCapacity
  /\ events' = [events EXCEPT ![p] = Append(@, held[p])]
  /\ held' = [held EXCEPT ![p] = 0]
  /\ UNCHANGED <<callVars, bodyVars, handling, emitted, delivered, wireVars, err>>

\* The consumer stalled past WriteTimeout.
\* Mutant: the reader waits for the event queue without a deadline.
EventStallNever(p) == FALSE /\ UNCHANGED vars

EventStall(p) ==
  /\ err[p] = "none" /\ held[p] # 0
  /\ Len(events[p]) >= QueueCapacity /\ p \in Stalling
  /\ End(p, "failed")
  /\ UNCHANGED <<callVars, bodyVars, eventVars, wireVars>>

\* Receive fails: the far end is gone and all it sent before has been read.
ReaderFails(p) ==
  /\ err[p] = "none" /\ held[p] = 0
  /\ err[Other(p)] # "none" /\ net[Other(p)] = <<>>
  /\ End(p, "failed")
  /\ UNCHANGED <<callVars, bodyVars, eventVars, wireVars>>

-----------------------------------------------------------------------------
(* Request bodies.  The contexts of an ended peer's bodies are cancelled   *)
(* with it: err[p] # "none" stands for that.                               *)

\* The handler returned; it enters the once unless the deadline is there
\* already.  "error" stands for a public error, for "internal", and for the
\* fallback of a result that cannot be encoded.
\* Mutant: a returning body answers without the once.
HandlerReturnsTwice(p, s, o) ==
  /\ body[p][s] = "running"
  /\ body' = [body EXCEPT ![p][s] = "returned"]
  /\ answer' = [answer EXCEPT ![p][s] = "answering"]
  /\ value' = [value EXCEPT ![p][s] = o]
  /\ UNCHANGED <<callVars, admitted, ctx, slots, eventVars, wireVars, err>>

HandlerReturns(p, s, o) ==
  /\ body[p][s] = "running"
  /\ \A c \in Serials : by[p][c] = s => ~Live(p, c)
  /\ body' = [body EXCEPT ![p][s] = "returned"]
  /\ IF answer[p][s] = "open"
       THEN /\ answer' = [answer EXCEPT ![p][s] = "answering"]
            /\ value' = [value EXCEPT ![p][s] =
                 IF ctx[p][s] = "deadline" \/ (o = "result" /\ ctx[p][s] = "cancelled")
                   THEN "cancelled" ELSE o]
       ELSE UNCHANGED <<answer, value>>
  /\ UNCHANGED <<callVars, admitted, ctx, slots, eventVars, wireVars, err>>

\* RequestTimeout passes on the handler's context.
Deadline(p, s) ==
  /\ s \in Active(p)
  /\ ctx[p][s] = "live" /\ err[p] = "none"
  /\ answer[p][s] # "answered"
  /\ ctx' = [ctx EXCEPT ![p][s] = "deadline"]
  /\ UNCHANGED <<callVars, admitted, body, answer, value, slots, eventVars, wireVars, err>>

\* The asynchronous deadline callback enters the once ahead of the body.
\* Mutant: only the body answers, however long it ignores its deadline.
DeadlineAnswersNever(p, s) == FALSE /\ UNCHANGED vars

DeadlineAnswers(p, s) ==
  /\ s \in Active(p)
  /\ ctx[p][s] = "deadline" /\ answer[p][s] = "open"
  /\ answer' = [answer EXCEPT ![p][s] = "answering"]
  /\ value' = [value EXCEPT ![p][s] = "cancelled"]
  /\ UNCHANGED <<callVars, admitted, body, ctx, slots, eventVars, wireVars, err>>

Respond(p, s) ==
  /\ answer[p][s] = "answering"
  /\ err[p] = "none" /\ Room(p)
  /\ Enqueue(p, ResponseFrame(p, s, value[p][s]))
  /\ answer' = [answer EXCEPT ![p][s] = "answered"]
  /\ UNCHANGED <<callVars, admitted, body, ctx, value, slots, eventVars, hand, net, err>>

\* The response could not be queued: the peer ended, or it fails now because
\* there was no room for WriteTimeout.
RespondFails(p, s) ==
  /\ answer[p][s] = "answering"
  /\ \/ err[p] # "none"
     \/ ~Room(p) /\ p \in Stalling
  /\ End(p, "failed")
  /\ answer' = [answer EXCEPT ![p][s] = "answered"]
  /\ UNCHANGED <<callVars, admitted, body, ctx, value, slots, eventVars, wireVars>>

\* The body's goroutine leaves: incoming entry removed, slot released.
BodyEnds(p, s) ==
  /\ body[p][s] = "returned" /\ answer[p][s] = "answered"
  /\ body' = [body EXCEPT ![p][s] = "done"]
  /\ slots' = [slots EXCEPT ![p] = @ - 1]
  /\ UNCHANGED <<callVars, admitted, ctx, answer, value, eventVars, wireVars, err>>

-----------------------------------------------------------------------------
(* Events.                                                                 *)

Emit(p) ==
  /\ p \in Emitters /\ emitted[p] < MaxEvents
  /\ err[p] = "none" /\ Room(p)
  /\ emitted' = [emitted EXCEPT ![p] = @ + 1]
  /\ Enqueue(p, EventFrame(p, emitted[p] + 1))
  /\ UNCHANGED <<callVars, bodyVars, held, events, handling, delivered, hand, net, err>>

\* An emitter found no room for WriteTimeout.
EmitTimeout(p) ==
  /\ p \in Stalling
  /\ p \in Emitters /\ emitted[p] < MaxEvents
  /\ err[p] = "none" /\ ~Room(p)
  /\ End(p, "failed")
  /\ UNCHANGED <<callVars, bodyVars, eventVars, wireVars>>

EventTake(p) ==
  /\ handling[p] = 0 /\ events[p] # <<>>
  /\ handling' = [handling EXCEPT ![p] = Head(events[p])]
  /\ delivered' = [delivered EXCEPT ![p] = Head(events[p])]
  /\ events' = [events EXCEPT ![p] = Tail(@)]
  /\ UNCHANGED <<callVars, bodyVars, held, emitted, wireVars, err>>

EventHandled(p) ==
  /\ handling[p] # 0
  /\ \A c \in Serials : by[p][c] = EventLoop => ~Live(p, c)
  /\ handling' = [handling EXCEPT ![p] = 0]
  /\ UNCHANGED <<callVars, bodyVars, held, events, emitted, delivered, wireVars, err>>

EventPanics(p) ==
  /\ handling[p] # 0
  /\ \A c \in Serials : by[p][c] = EventLoop => ~Live(p, c)
  /\ handling' = [handling EXCEPT ![p] = 0]
  /\ End(p, "failed")
  /\ UNCHANGED <<callVars, bodyVars, held, events, emitted, delivered, wireVars>>

-----------------------------------------------------------------------------
(* The end of a peer.                                                      *)

\* Close, and the end of the context the peer was built on.
Close(p) ==
  /\ p \in Closers
  /\ err[p] = "none"
  /\ End(p, "closed")
  /\ UNCHANGED <<callVars, bodyVars, eventVars, wireVars>>

ContextEnds(p) ==
  /\ p \in Closers
  /\ err[p] = "none"
  /\ End(p, "failed")
  /\ UNCHANGED <<callVars, bodyVars, eventVars, wireVars>>

-----------------------------------------------------------------------------
\* An implementation that breaks the profile repeats serials, answers what was
\* not asked, cancels what it never requested or uses the other side's prefix.
StrayFrames ==
  UNION {{RequestFrame(q, s, m), CancelFrame(q, s), ResponseFrame(q, s, "result")} :
           q \in Peers, s \in Serials, m \in Methods}

Stray(p, f) ==
  /\ p \in Nonconforming /\ err[p] = "none" /\ err[Other(p)] = "none"
  /\ Len(net[p]) < InFlight
  /\ net' = [net EXCEPT ![p] = Append(@, f)]
  /\ UNCHANGED <<callVars, bodyVars, eventVars, outputs, hand, err>>

PerSerial(v) == [p \in Peers |-> [s \in Serials |-> v]]
PerPeer(v) == [p \in Peers |-> v]

Init ==
  /\ next = PerPeer(0) /\ call = PerSerial("none") /\ by = PerSerial(App)
  /\ pending = PerPeer({}) /\ reply = PerSerial("none")
  /\ admitted = PerPeer(0) /\ body = PerSerial("none") /\ ctx = PerSerial("live")
  /\ answer = PerSerial("open") /\ value = PerSerial("none") /\ slots = PerPeer(0)
  /\ outputs = PerPeer(<<>>) /\ hand = PerPeer(<<>>) /\ net = PerPeer(<<>>)
  /\ held = PerPeer(0) /\ events = PerPeer(<<>>) /\ handling = PerPeer(0)
  /\ emitted = PerPeer(0) /\ delivered = PerPeer(0)
  /\ err = PerPeer("none")

Calling(p) ==
  \/ \E b \in 0 .. EventLoop :
       \/ \E m \in Methods : CallAdmit(p, m, b)
       \/ CallRefused(p, b) \/ CallExhausted(p, b)
  \/ \E s \in Serials :
       \/ \E m \in Methods : PublishRoom(p, s, m)
       \/ PublishWithdrawn(p, s) \/ PublishTimeout(p, s)
       \/ AwaitReply(p, s) \/ AwaitExpires(p, s) \/ AwaitEnded(p, s)

Writing(p) == WriterTake(p) \/ WriterSend(p) \/ WriterFails(p)

Reading(p) ==
  \/ ReadRefused(p) \/ ReadRequest(p) \/ ReadRejected(p) \/ ReadResponse(p)
  \/ ReadCancel(p) \/ ReadEvent(p) \/ EventRoom(p) \/ EventStall(p) \/ ReaderFails(p)

Serving(p) == \E s \in Serials :
  \/ \E o \in {"result", "error"} : HandlerReturns(p, s, o)
  \/ Deadline(p, s) \/ DeadlineAnswers(p, s)
  \/ Respond(p, s) \/ RespondFails(p, s) \/ BodyEnds(p, s)

Eventing(p) ==
  Emit(p) \/ EmitTimeout(p) \/ EventTake(p) \/ EventHandled(p) \/ EventPanics(p)

Ending(p) == Close(p) \/ ContextEnds(p)

Next == \E p \in Peers :
  Calling(p) \/ Writing(p) \/ Reading(p) \/ Serving(p) \/ Eventing(p) \/ Ending(p)
  \/ \E f \in StrayFrames : Stray(p, f)

Spec == Init /\ [][Next]_vars

\* Only what the runtime itself guarantees is fair: its loops, its timers and
\* its sends.  Application handlers need not return, and neither the
\* caller's own deadline nor the caller's cancellation need ever fire.
Fairness == \A p \in Peers :
  /\ WF_vars(Writing(p))
  /\ WF_vars(Reading(p))
  /\ \A s \in Serials :
       /\ WF_vars(\/ \E m \in Methods : PublishRoom(p, s, m)
                  \/ PublishTimeout(p, s)
                  \/ err[p] # "none" /\ PublishWithdrawn(p, s))
       /\ WF_vars(AwaitReply(p, s) \/ AwaitEnded(p, s))
       /\ WF_vars(Deadline(p, s))
       /\ WF_vars(DeadlineAnswers(p, s))
       /\ WF_vars(Respond(p, s) \/ RespondFails(p, s))

FairSpec == Spec /\ Fairness

-----------------------------------------------------------------------------
(* Properties.                                                             *)

CallsTypeOK ==
  /\ next \in [Peers -> 0 .. MaxSerial]
  /\ call \in [Peers -> [Serials -> CallStates]]
  /\ by \in [Peers -> [Serials -> 0 .. EventLoop]]
  /\ pending \in [Peers -> SUBSET Serials]
  /\ reply \in [Peers -> [Serials -> Answers \cup {"none"}]]

BodiesTypeOK ==
  /\ admitted \in [Peers -> Nat]
  /\ body \in [Peers -> [Serials -> {"none", "running", "returned", "done", "rejected"}]]
  /\ ctx \in [Peers -> [Serials -> {"live", "cancelled", "deadline"}]]
  /\ answer \in [Peers -> [Serials -> {"open", "answering", "answered"}]]
  /\ value \in [Peers -> [Serials -> Answers \cup {"none"}]]
  /\ slots \in [Peers -> Int]

EventsTypeOK ==
  /\ held \in [Peers -> Nat]
  /\ events \in [Peers -> Seq(Nat)]
  /\ handling \in [Peers -> Nat]
  /\ emitted \in [Peers -> 0 .. MaxEvents]
  /\ delivered \in [Peers -> Nat]

WiresTypeOK ==
  /\ outputs \in [Peers -> Seq(Frame)]
  /\ hand \in [Peers -> Seq(Frame)]
  /\ net \in [Peers -> Seq(Frame)]

TypeOK ==
  /\ CallsTypeOK /\ BodiesTypeOK /\ EventsTypeOK /\ WiresTypeOK
  /\ err \in [Peers -> {"none", "closed", "failed", "refused"}]

\* Everything the other side may still read of what p queued, in order; what
\* is queued when a peer ends is never sent.
Wire(p) ==
  IF err[p] = "none" THEN net[p] \o hand[p] \o outputs[p] ELSE net[p]

\* A peer never refuses a conforming one (the 4011 of refuse): however
\* calls, cancellations and refusals race for the queue, serials are read in
\* the order they were reserved, and every id carries the right prefix.
NeverRefuses == \A p \in Peers :
  Nonconforming = {} => err[p] # "refused"

\* The order of serials on one direction, from the connection back to the
\* queue: requests increase within and across net, hand and outputs, lie above
\* what the reader admitted (lo) and at most at the last one queued (hi), and
\* every frame carries the prefix its receiver expects.
IsRequest(f) == f.kind = "request"
Above(q, n) == \A i \in 1 .. Len(q) : IsRequest(q[i]) => q[i].id > n
UpTo(q, n) == \A i \in 1 .. Len(q) : IsRequest(q[i]) => q[i].id <= n
Before(q, r) == \A i \in 1 .. Len(q) : IsRequest(q[i]) => Above(r, q[i].id)
Increasing(q) == \A i, j \in 1 .. Len(q) :
  i < j /\ IsRequest(q[i]) /\ IsRequest(q[j]) => q[i].id < q[j].id
Owned(q, p) == \A i \in 1 .. Len(q) :
  q[i].prefix = (IF q[i].kind = "response" THEN Other(p) ELSE p)

WireOrder(n, h, o, lo, hi, p) ==
  /\ lo <= hi /\ Len(h) <= 1 /\ Increasing(n) /\ Increasing(o)
  /\ Before(n, h) /\ Before(n, o) /\ Before(h, o)
  /\ Above(n, lo) /\ Above(h, lo) /\ Above(o, lo)
  /\ UpTo(n, hi) /\ UpTo(h, hi) /\ UpTo(o, hi)
  /\ Owned(n, p) /\ Owned(h, p) /\ Owned(o, p)

\* While a call holds the gate its serial is reserved but not queued.
LastQueued(p) == IF GateFree(p) THEN next[p] ELSE next[p] - 1

\* The inductive strengthening of NeverRefuses.
SerialOrder == \A p \in Peers :
  /\ WireOrder(net[p], hand[p], outputs[p], admitted[Other(p)], LastQueued(p), p)
  /\ \A s \in Serials : call[p][s] = "publishing" => s = next[p]
  /\ \A s \in Serials : body[p][s] # "none" => s <= admitted[p]
  /\ err[p] # "refused"

\* A cancellation, which passes no gate, is read only after the request it
\* names: beginCall has queued the request before the call can be withdrawn.
CancelFollowsRequest == \A p \in Peers : \A i \in 1 .. Len(Wire(p)) :
  Wire(p)[i].kind = "cancel" =>
    \/ Wire(p)[i].id <= admitted[Other(p)]
    \/ \E j \in 1 .. i - 1 : Wire(p)[j].kind = "request" /\ Wire(p)[j].id = Wire(p)[i].id

\* A serial runs a handler at most once in the life of a connection, whatever
\* the other side sends: a serial whose body is gone is not admitted again.
RunsOnce == [][\A p \in Peers, s \in Serials :
                 body'[p][s] = "running" => body[p][s] \in {"none", "running"}]_vars

\* The deadline callback and the returning body never both answer: at most one
\* response for a request is ever under way, and none once a reply is in.
OneAnswer == \A p \in Peers : \A i \in 1 .. Len(Wire(p)) :
  LET f == Wire(p)[i] IN
  f.kind = "response" =>
    /\ reply[Other(p)][f.id] = "none"
    /\ \A j \in 1 .. Len(Wire(p)) :
         Wire(p)[j].kind = "response" /\ Wire(p)[j].id = f.id => j = i

\* MaxConcurrentHandlers bounds the bodies that still run, those whose
\* deadline has already been answered included: a slot is given back only by
\* the body that took it.
HandlersBounded == \A p \in Peers : Cardinality(Active(p)) <= MaxHandlers

\* Every call that returned, however it returned, has left the pending table,
\* so the bound on outstanding calls counts only calls that wait.
NoPendingLeak == \A p \in Peers : \A s \in pending[p] : Live(p, s)

\* Both budgets hold what still uses them, and nothing else.
BudgetsKept == HandlersBounded /\ NoPendingLeak

\* Events reach their handlers in the order they were queued, none skipped and
\* none repeated, even when the reader had to wait for the event queue.
EventsInOrder ==
  [][\A p \in Peers : delivered'[p] \in {delivered[p], delivered[p] + 1}]_vars

\* The peers keep the promise of RequestReply, in particular that an error
\* marked Unpublished is a proof that the far handler never runs.
Outcome(p, s) == IF Live(p, s) THEN "open" ELSE call[p][s]
FarRun(p, s) ==
  CASE body[Other(p)][s] = "running" -> "running"
    [] body[Other(p)][s] \in {"returned", "done"} -> "returned"
    [] OTHER -> "none"

Outcomes == [c \in Peers \X Serials |-> Outcome(c[1], c[2])]
FarRuns == [c \in Peers \X Serials |-> FarRun(c[1], c[2])]

Abstract == INSTANCE RequestReply WITH
  Calls <- Peers \X Serials, outcome <- Outcomes, run <- FarRuns
KeepsPromise == Abstract!Spec

\* Every call returns without the help of its own deadline: nothing in the two
\* peers waits on anything that waits on it, even while handlers and event
\* handlers that never return, or that call back, hold slots and queues.
CallsReturn == \A p \in Peers, s \in Serials : Live(p, s) ~> ~Live(p, s)

\* The end of one peer ends the other.
EndsSpread == \A p \in Peers : (err[p] # "none") ~> (err[Other(p)] # "none")

\* Both together: a burst of events, a consumer that stalls or a peer that
\* leaves never keeps a call waiting or the other peer unaware.
PeersUnwind == CallsReturn /\ EndsSpread
=============================================================================
