------------------------------ MODULE PeerWire ------------------------------
(***************************************************************************)
(* A peer's wire: requests, cancellations and events admitted from local   *)
(* senders, taken in order by one goroutine and put on the peer.  The peer *)
(* itself is reduced to what its wire sees: a call begins or is refused,   *)
(* a begun one returns, and the peer may end at any time (module Peer has *)
(* the rest).                                                              *)
(***************************************************************************)
EXTENDS Naturals, Sequences, FiniteSets

CONSTANTS Calls, NoCall, Keys, QueueCapacity, MaxPending

VARIABLES down,     \* the peer ended
          swept,    \* the run loop has noticed and cleaned up
          queue,    \* frames waiting for the run loop
          table,    \* key -> the admitted call, while it holds its slot
          call,     \* what the wire knows of each call
          hand      \* the frame the run loop holds

vars == <<down, swept, queue, table, call, hand>>

Frame == [kind : {"request", "refusal", "cancel"}, call : Calls] \cup [kind : {"event"}, call : {NoCall}]
Nothing == [kind |-> "none", call |-> NoCall]
Stages == {"unsent", "queued", "refused", "begun", "returned", "settled", "dropped"}
Fresh(k, stage) == [key |-> k, stage |-> stage, completed |-> FALSE, cancelQueued |-> FALSE, cancelled |-> FALSE]

Data(q) == Cardinality({i \in 1 .. Len(q) : q[i].kind # "cancel"})
Holds(c) == table[call[c].key] = c
Slots == {k \in Keys : table[k] # NoCall}

Retire(known, c) ==
  IF known[c].completed /\ ~known[c].cancelQueued /\ table[known[c].key] = c
    THEN [table EXCEPT ![known[c].key] = NoCall] ELSE table

-----------------------------------------------------------------------------
(* Send.                                                                   *)

Full == Data(queue) >= QueueCapacity

Admit(c, k) ==
  /\ ~down /\ ~Full /\ call[c].stage = "unsent"
  /\ IF table[k] = NoCall /\ Cardinality(Slots) < MaxPending
       THEN /\ table' = [table EXCEPT ![k] = c]
            /\ call' = [call EXCEPT ![c] = Fresh(k, "queued")]
            /\ queue' = Append(queue, [kind |-> "request", call |-> c])
       ELSE /\ queue' = Append(queue, [kind |-> "refusal", call |-> c])
            /\ call' = [call EXCEPT ![c] = Fresh(k, "refused")]
            /\ UNCHANGED table
  /\ UNCHANGED <<down, swept, hand>>

AdmitEvent ==
  /\ ~down /\ ~Full
  /\ queue' = Append(queue, [kind |-> "event", call |-> NoCall])
  /\ UNCHANGED <<down, swept, table, call, hand>>

Cancellable(c) == ~call[c].completed /\ ~call[c].cancelQueued /\ ~call[c].cancelled

Cancel(k) ==
  /\ ~down /\ table[k] # NoCall /\ Cancellable(table[k])
  /\ call' = [call EXCEPT ![table[k]].cancelQueued = TRUE]
  /\ queue' = Append(queue, [kind |-> "cancel", call |-> table[k]])
  /\ UNCHANGED <<down, swept, table, hand>>

\* A cancellation of a call that is unknown, complete or cancelled is dropped.
CancelDropped(k) ==
  ~down /\ ~(table[k] # NoCall /\ Cancellable(table[k])) /\ UNCHANGED vars

PeerEnds ==
  /\ ~down /\ down' = TRUE
  /\ UNCHANGED <<swept, queue, table, call, hand>>

\* Data beyond the queue's bound ends the peer; a peer that ended refuses all.
Overflow == Full /\ PeerEnds
Refused == Overflow \/ (down /\ UNCHANGED vars)

-----------------------------------------------------------------------------
(* The run loop.                                                           *)

Take ==
  /\ hand = Nothing /\ ~down /\ queue # <<>>
  /\ hand' = Head(queue) /\ queue' = Tail(queue)
  /\ UNCHANGED <<down, swept, table, call>>

\* The caller is answered by the composition.
Refuse ==
  /\ hand.kind = "refusal" /\ hand' = Nothing
  /\ call' = [call EXCEPT ![hand.call].stage = "settled"]
  /\ UNCHANGED <<down, swept, queue, table>>

Begin ==
  /\ hand.kind = "request" /\ ~down /\ hand' = Nothing
  /\ call' = [call EXCEPT ![hand.call].stage = "begun"]
  /\ UNCHANGED <<down, swept, queue, table>>

\* The call is complete, and its slot free, before it is answered.
Completed(c) ==
  /\ call' = [call EXCEPT ![c].stage = "returned", ![c].completed = TRUE]
  /\ table' = Retire(call', c)

BeginFails ==
  /\ hand.kind = "request" /\ hand' = Nothing /\ Completed(hand.call)
  /\ UNCHANGED <<down, swept, queue>>

\* The peer's call returns: with its result, an error, or withdrawn.
Returns(c) ==
  /\ call[c].stage = "begun" /\ Completed(c)
  /\ UNCHANGED <<down, swept, queue, hand>>

Respond(c) ==
  /\ call[c].stage = "returned"
  /\ call' = [call EXCEPT ![c].stage = "settled"]
  /\ UNCHANGED <<down, swept, queue, table, hand>>

DrainCancel ==
  LET c == hand.call IN
  /\ hand.kind = "cancel" /\ hand' = Nothing
  /\ IF Holds(c)
       THEN /\ call' = [call EXCEPT ![c].cancelQueued = FALSE, ![c].cancelled = TRUE]
            /\ table' = Retire(call', c)
       ELSE UNCHANGED <<call, table>>
  /\ UNCHANGED <<down, swept, queue>>

Emit ==
  /\ hand.kind = "event" /\ hand' = Nothing
  /\ UNCHANGED <<down, swept, queue, table, call>>

EmitFails ==
  /\ hand.kind = "event" /\ hand' = Nothing /\ down' = TRUE
  /\ UNCHANGED <<swept, queue, table, call>>

\* The end of the peer forgets every slot and drops the queue: a request that
\* was still in it is not answered.
Sweep ==
  LET queued == {c \in Calls : call[c].stage \in {"queued", "refused"}} IN
  /\ down /\ ~swept /\ hand = Nothing
  /\ swept' = TRUE /\ queue' = <<>> /\ table' = [k \in Keys |-> NoCall]
  /\ call' = [c \in Calls |-> IF c \in queued THEN [call[c] EXCEPT !.stage = "dropped"] ELSE call[c]]
  /\ UNCHANGED <<down, hand>>

Init(keys) ==
  /\ down = FALSE /\ swept = FALSE /\ queue = <<>> /\ hand = Nothing
  /\ table = [k \in Keys |-> NoCall]
  /\ call = [c \in Calls |-> Fresh(keys[c], "unsent")]

-----------------------------------------------------------------------------
(* Properties.                                                             *)

TypeOK ==
  /\ down \in BOOLEAN /\ swept \in BOOLEAN
  /\ queue \in Seq(Frame)
  /\ table \in [Keys -> Calls \cup {NoCall}]
  /\ call \in [Calls -> [key : Keys, stage : Stages, completed : BOOLEAN,
                         cancelQueued : BOOLEAN, cancelled : BOOLEAN]]
  /\ hand \in Frame \cup {Nothing}

Queued(f) == {i \in 1 .. Len(queue) : queue[i] = f}

\* As in the pair: one cancellation, at most, of each call that keeps its slot.
CancelsReserved ==
  /\ Data(queue) <= QueueCapacity /\ Cardinality(Slots) <= MaxPending
  /\ \A c \in Calls : LET f == [kind |-> "cancel", call |-> c] IN
       /\ Cardinality(Queued(f)) + (IF hand = f THEN 1 ELSE 0) <= 1
       /\ ~swept => (call[c].cancelQueued <=> hand = f \/ Queued(f) # {})
       /\ ~swept /\ call[c].cancelQueued => Holds(c)
=============================================================================
