------------------------------- MODULE Forward ------------------------------
(***************************************************************************)
(* A local wire pair joined to a peer's wire by ForwardWire: requests sent *)
(* on the pair's other end are served by an application's receiver or      *)
(* forwarded to the peer, whose wire other callers use as well; and the    *)
(* peer's own requests are passed to the pair.  Module WirePair is the     *)
(* pair's end, module PeerWire the wire; here are their callers, the       *)
(* receivers and the forwarder.                                            *)
(***************************************************************************)
EXTENDS Naturals, Sequences, FiniteSets

CONSTANTS Calls, NoCall, Keys, KeyOf,
          QueueCapacity, MaxPending, MaxHandlers,   \* of the pair
          WireCapacity, WirePending,                \* of the peer
          Settings                                  \* who does what, one choice per behaviour

Carriers == {"pair", "wire"}

ASSUME ForwardAssumption ==
  /\ NoCall \notin Calls /\ IsFiniteSet(Calls)
  /\ KeyOf \in [Calls -> Keys] /\ Keys \cap Calls = {} /\ IsFiniteSet(Keys)
  /\ {QueueCapacity, MaxPending, MaxHandlers, WireCapacity, WirePending} \subseteq Nat \ {0}
  /\ Settings \subseteq [to : [Carriers -> SUBSET Calls], receiver : {"app", "forward"},
                         emits : SUBSET Carriers, ends : SUBSET Carriers, detaches : BOOLEAN,
                         passes : SUBSET Calls]
  /\ \A s \in Settings : \* a request has one sender
       /\ s.to["pair"] \cap s.to["wire"] = {}
       /\ s.passes \cap (s.to["pair"] \cup s.to["wire"]) = {}

VARIABLES closed, queue, table, call, hand, receiver, answers,
          down, swept, frames, slots, remote, carried,
          sent,     \* the requests their callers have sent
          passing,  \* the peer's handler of each request that it passed to the pair
          setting

pair == <<closed, queue, table, call, hand, receiver, answers>>
wire == <<down, swept, frames, slots, remote, carried>>
vars == <<pair, wire, sent, passing, setting>>

\* A forwarded request has a return address of its own on the peer's wire, and
\* one that the peer passed has its own on the pair.
P == INSTANCE WirePair WITH Keys <- Keys \cup Calls
W == INSTANCE PeerWire WITH Keys <- Keys \cup Calls, QueueCapacity <- WireCapacity,
       MaxPending <- WirePending, queue <- frames, table <- slots, call <- remote, hand <- carried

Forwarded(c) == remote[c].key = c

-----------------------------------------------------------------------------
(* Callers.                                                                *)

\* What a full queue or an ended carrier returns from Send is the caller's.
SendToPair(c) ==
  /\ c \in setting.to["pair"] \ sent /\ sent' = sent \cup {c}
  /\ P!Admit(c, KeyOf[c]) \/ P!Overflow \/ (closed /\ UNCHANGED pair)
  /\ UNCHANGED <<wire, passing, setting>>

SendToWire(c) ==
  /\ c \in setting.to["wire"] \ sent /\ sent' = sent \cup {c}
  /\ W!Admit(c, KeyOf[c]) \/ W!Refused
  /\ UNCHANGED <<pair, passing, setting>>

EmitToPair == "pair" \in setting.emits /\ (P!AdmitEvent \/ P!Overflow) /\ UNCHANGED <<wire, sent, passing, setting>>
EmitToWire == "wire" \in setting.emits /\ (W!AdmitEvent \/ W!Overflow) /\ UNCHANGED <<pair, sent, passing, setting>>

CancelOnPair(k) == P!Cancel(k) /\ UNCHANGED <<wire, sent, passing, setting>>
CancelOnWire(k) == W!Cancel(k) /\ UNCHANGED <<pair, sent, passing, setting>>

Closes == "pair" \in setting.ends /\ P!End /\ UNCHANGED <<wire, sent, passing, setting>>
PeerEnds == "wire" \in setting.ends /\ W!PeerEnds /\ UNCHANGED <<pair, sent, passing, setting>>

-----------------------------------------------------------------------------
(* The application's receiver.                                             *)

AppTakes == P!Delivered("app") /\ UNCHANGED <<receiver, wire, sent, passing, setting>>
AppStalls == P!EventStalls("app") /\ UNCHANGED <<wire, sent, passing, setting>>
InBody(c) == call[c].work = "running" /\ call[c].by = "app"
AppAnswers(c) == InBody(c) /\ P!Answer(c) /\ UNCHANGED <<wire, sent, passing, setting>>

Receives == setting.detaches /\ P!Receive("app") /\ UNCHANGED <<wire, sent, passing, setting>>

\* By its owner, or by the forwarder when the peer's wire has closed.
Detaches ==
  /\ setting.detaches \/ (swept /\ receiver = "forward")
  /\ P!Detach /\ UNCHANGED <<wire, sent, passing, setting>>

-----------------------------------------------------------------------------
(* The forwarder.                                                          *)

Stops == receiver' = IF receiver = "forward" THEN "none" ELSE receiver

ForwardRequest ==
  LET c == hand.of.call IN
  /\ P!Holding("deliver", "request") /\ UNCHANGED <<sent, passing, setting>>
  /\ \/ W!Admit(c, c) /\ P!Delivered("forward") /\ UNCHANGED receiver
     \/ W!Refused /\ P!Undelivered("forward") /\ Stops

ForwardCancel ==
  LET c == hand.of.call IN
  /\ P!Holding("deliver", "cancel") /\ P!Delivered("forward") /\ UNCHANGED <<sent, passing, setting>>
  /\ \/ (W!Cancel(c) \/ W!CancelDropped(c)) /\ UNCHANGED receiver
     \/ down /\ UNCHANGED wire /\ Stops

ForwardEvent ==
  /\ P!Holding("deliver", "event") /\ P!Delivered("forward") /\ UNCHANGED <<sent, passing, setting>>
  /\ (W!AdmitEvent /\ UNCHANGED receiver) \/ (W!Refused /\ Stops)

\* A request of the peer, in a handler of its own: an answer is awaited unless
\* the pair refuses to take it.  Its caller may have given up since it came.
PeerPasses(c) ==
  /\ c \in setting.passes /\ passing[c] = "none"
  /\ \/ P!Admit(c, c) /\ passing' = [passing EXCEPT ![c] = "waiting"]
     \/ (P!Overflow \/ (closed /\ UNCHANGED pair)) /\ passing' = [passing EXCEPT ![c] = "returned"]
  /\ UNCHANGED <<wire, sent, setting>>

\* The peer's caller cancels, its deadline passes or the peer ends: the pair is
\* told, and the handler goes on waiting for the answer.
PeerWithdraws(c) ==
  /\ passing[c] = "waiting" /\ passing' = [passing EXCEPT ![c] = "withdrawn"]
  /\ P!Cancel(c) \/ (~(~closed /\ P!Holds(c) /\ P!Cancellable(c)) /\ UNCHANGED pair)
  /\ UNCHANGED <<wire, sent, setting>>

\* Mutant: the handler returns as soon as its caller has given up.
ResumesWithdrawn(c) ==
  /\ passing[c] = "withdrawn" \/ (passing[c] = "waiting" /\ answers[c] > 0)
  /\ passing' = [passing EXCEPT ![c] = "returned"]
  /\ UNCHANGED <<pair, wire, sent, setting>>

PeerResumes(c) ==
  /\ passing[c] \in {"waiting", "withdrawn"} /\ answers[c] > 0
  /\ passing' = [passing EXCEPT ![c] = "returned"]
  /\ UNCHANGED <<pair, wire, sent, setting>>

\* An answer on the wire is the direct caller's, or the pair's to deliver.
Answers(c) ==
  IF Forwarded(c) THEN P!Answer(c)
  ELSE /\ answers' = [answers EXCEPT ![c] = @ + 1]
       /\ UNCHANGED <<closed, queue, table, call, hand, receiver>>

WireRefuses == W!Refuse /\ Answers(carried.call) /\ UNCHANGED <<sent, passing, setting>>
WireAnswers(c) == W!Respond(c) /\ Answers(c) /\ UNCHANGED <<sent, passing, setting>>

-----------------------------------------------------------------------------

PairLoop ==
  /\ \/ P!Take \/ P!Refuse \/ P!Unserved \/ P!Start \/ P!StartEvent \/ P!Leave \/ P!DeliverCancel
  /\ UNCHANGED <<wire, sent, passing, setting>>

Completes(c) == P!Complete(c) /\ UNCHANGED <<wire, sent, passing, setting>>
Expires(c) == P!Timeout(c) /\ UNCHANGED <<wire, sent, passing, setting>>

WireLoop ==
  /\ \/ W!Take \/ W!Begin \/ W!BeginFails \/ W!DrainCancel \/ W!Emit \/ W!EmitFails \/ W!Sweep
  /\ UNCHANGED <<pair, sent, passing, setting>>

Returns(c) == W!Returns(c) /\ UNCHANGED <<pair, sent, passing, setting>>

Forwarding == ForwardRequest \/ ForwardCancel \/ ForwardEvent

\* What a call needs nobody else for.
Progress == \E c \in Calls : Completes(c) \/ Expires(c) \/ Returns(c) \/ WireAnswers(c) \/ PeerResumes(c)

Next ==
  \/ EmitToPair \/ EmitToWire \/ Closes \/ PeerEnds
  \/ AppTakes \/ AppStalls \/ Receives \/ Detaches \/ Forwarding
  \/ PairLoop \/ WireLoop \/ WireRefuses
  \/ \E c \in Calls : \/ SendToPair(c) \/ SendToWire(c) \/ AppAnswers(c)
                     \/ PeerPasses(c) \/ PeerWithdraws(c)
  \/ Progress
  \/ \E k \in Keys : CancelOnPair(k) \/ CancelOnWire(k)

Init ==
  /\ P!Init(KeyOf) /\ W!Init(KeyOf)
  /\ sent = {} /\ passing = [c \in Calls |-> "none"]
  /\ setting \in Settings /\ receiver = setting.receiver

Spec == Init /\ [][Next]_vars

\* The two loops run, the receivers' Message returns except from an event, a
\* response that was begun is finished, timers fire and the peer's calls
\* return: a call takes finitely many of these steps, so that nothing but one
\* of them can keep another waiting.  Handlers may never answer.
Fairness ==
  /\ WF_vars(PairLoop) /\ WF_vars(WireLoop) /\ WF_vars(WireRefuses)
  /\ WF_vars(Forwarding) /\ WF_vars(AppStalls)
  /\ WF_vars(AppTakes /\ hand.of.kind # "event")
  /\ WF_vars(Progress)

FairSpec == Spec /\ Fairness

-----------------------------------------------------------------------------
(* Properties.                                                             *)

TypeOK ==
  /\ P!TypeOK /\ W!TypeOK /\ sent \subseteq Calls
  /\ passing \in [Calls -> {"none", "waiting", "withdrawn", "returned"}]

\* Neither carrier's bounds grow by cancellations, deadlines or the reuse of a
\* return identity; and the pair's slot and handler's place span the forwarded
\* call: while the peer's wire holds it, the pair still counts it.  A request the
\* peer passed keeps its handler there until its body, or its deadline, answers:
\* a withdrawal never frees it for another.
BoundsHold ==
  /\ P!CancelsReserved /\ P!HandlersCounted /\ W!CancelsReserved
  /\ \A c \in Calls : Forwarded(c) /\ W!Holds(c) /\ ~remote[c].completed =>
       call[c].work = "running" /\ call[c].active
  /\ \A c \in setting.passes : InBody(c) /\ ~call[c].responded => passing[c] # "returned"

\* A caller is answered at most once, by whichever of the handler, the
\* deadline, a refusal or the end of the pair comes first.
AnsweredOnce == \A c \in Calls : answers[c] <= 1

\* Every request the pair admits is answered, and its slot returns unless its
\* handler never does or the peer ended before the forwarded request left its
\* queue; the peer's wire gives every slot back, and drops only such requests.
\* The handler of a request that the peer passed returns, withdrawn or not and
\* whether or not its body answers, unless the pair's end found a refusal of it
\* queued and dropped that: this one waits for ever.
CallsSettle ==
  /\ \A c \in Calls :
       /\ P!Holds(c) ~> answers[c] = 1 /\ (~P!Holds(c) \/ InBody(c) \/ remote[c].stage = "dropped")
       /\ remote[c].stage # "unsent" ~> remote[c].stage \in {"settled", "dropped"} /\ ~W!Holds(c)
  /\ <>[](\A c \in Calls : passing[c] \in {"none", "returned"} \/ (closed /\ answers[c] = 0))
=============================================================================
