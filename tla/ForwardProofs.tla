--------------------------- MODULE ForwardProofs ---------------------------
(***************************************************************************)
(* Theorems about Forward, for every value of its constants: neither       *)
(* carrier's bounds grow by cancellations, deadlines or reused identities, *)
(* and a caller is answered at most once, by whoever comes first.          *)
(***************************************************************************)
EXTENDS Forward, FiniteSetTheorems, TLAPS

AllKeys == Keys \cup Calls
Items == [kind : {"request", "refusal", "cancel"}, call : Calls] \cup [kind : {"event"}, call : {NoCall}]
Request(c) == [kind |-> "request", call |-> c]
Refusal(c) == [kind |-> "refusal", call |-> c]
Cancelling(c) == [kind |-> "cancel", call |-> c]

\* What a queue and the hand behind it hold, but for events, is there once.
In(q, x) == \E i \in 1 .. Len(q) : q[i] = x
Single(q) == \A i, j \in 1 .. Len(q) : q[i].kind # "event" /\ q[i] = q[j] => i = j
Weight(q) == {i \in 1 .. Len(q) : q[i].kind # "cancel"}
Pending(x) == P!InHand(x) \/ In(queue, x)
Going(x) == carried = x \/ In(frames, x)

PairQueueInv ==
  /\ Single(queue) /\ Cardinality(Weight(queue)) <= QueueCapacity
  /\ \A x \in Items : x.kind # "event" /\ P!InHand(x) => ~In(queue, x)
  /\ closed => queue = <<>>

WireQueueInv ==
  /\ Single(frames) /\ Cardinality(Weight(frames)) <= WireCapacity
  /\ \A x \in Items : x.kind # "event" /\ carried = x => ~In(frames, x)
  /\ swept => down /\ frames = <<>> /\ carried = W!Nothing

PairTableInv ==
  /\ Cardinality(P!Slots) <= MaxPending
  /\ \A k \in AllKeys : table[k] # NoCall => ~closed /\ call[table[k]].key = k

WireTableInv ==
  /\ Cardinality(W!Slots) <= WirePending
  /\ \A k \in AllKeys : slots[k] # NoCall => ~swept /\ remote[slots[k]].key = k

-----------------------------------------------------------------------------
(* One call.                                                               *)

OnWire(c) == c \in setting.to["wire"]
Tried(c) == c \in sent \/ passing[c] # "none"
Delivering(c) == hand.step = "deliver" /\ hand.of = Request(c)

\* The pair has not heard of the call.
Unheard(c) ==
  /\ call[c].by = "none" /\ call[c].work = "none"
  /\ ~call[c].responded /\ ~call[c].completed /\ ~call[c].active /\ ~call[c].cancelQueued
  /\ ~P!Holds(c) /\ ~Delivering(c)
  /\ ~Pending(Request(c)) /\ ~Pending(Refusal(c)) /\ ~Pending(Cancelling(c))

\* Nobody has begun to serve it.
Unserving(c) == call[c].by = "none" /\ call[c].work = "none" /\ ~call[c].active

PairCall(c) ==
  /\ Pending(Request(c)) =>
       Unserving(c) /\ (~closed => P!Holds(c) /\ ~call[c].completed /\ ~call[c].responded)
  /\ Pending(Refusal(c)) => Unserving(c) /\ ~call[c].responded /\ ~P!Holds(c) /\ answers[c] = 0
  /\ Delivering(c) => call[c].by = hand.to /\ hand.to # "none" /\ call[c].work = "none" /\ call[c].active
  /\ ~closed =>
       /\ call[c].cancelQueued <=> Pending(Cancelling(c))
       /\ call[c].cancelQueued => P!Holds(c)
       /\ call[c].active => P!Holds(c) /\ ~call[c].completed
       /\ call[c].by # "none" /\ ~call[c].completed => P!Holds(c)
  /\ call[c].work = "running" => call[c].active /\ call[c].by # "none"
  /\ call[c].work \in {"replied", "done"} \/ call[c].completed => call[c].responded

PairCalls == \A c \in Calls : PairCall(c)

\* Before it is tried a call is unheard of; one sent to the wire stays so here,
\* and one that a handler of the peer's gave up unanswered.
FreshCall(c) ==
  /\ OnWire(c) \/ ~Tried(c) => Unheard(c)
  /\ ~Tried(c) => answers[c] = 0
  /\ passing[c] = "returned" => answers[c] > 0 \/ Unheard(c)

WireCall(c) ==
  /\ Going(Request(c)) => remote[c].stage = "queued"
  /\ Going(Refusal(c)) => remote[c].stage = "refused"
  /\ ~swept =>
       /\ remote[c].cancelQueued <=> Going(Cancelling(c))
       /\ remote[c].cancelQueued => W!Holds(c)
  /\ W!Holds(c) => remote[c].stage \notin {"unsent", "refused"}
  /\ W!Holds(c) /\ ~remote[c].completed => remote[c].stage \in {"queued", "begun"}
  /\ remote[c].stage = "returned" => remote[c].completed

WireCalls == \A c \in Calls : WireCall(c)

\* What is on the wire was sent there by its caller, or is being forwarded: the
\* pair's receiver passed it on and has not answered yet.
ForwardCall(c) ==
  /\ remote[c].stage # "unsent" => OnWire(c) \/ Forwarded(c)
  /\ Forwarded(c) => ~OnWire(c) /\ call[c].by = "forward" /\ call[c].work # "none"
  /\ Forwarded(c) /\ W!Holds(c) /\ ~remote[c].completed => call[c].work = "running"
  /\ OnWire(c) /\ ~Tried(c) => remote[c].stage = "unsent"

\* Nobody serves the call and no slot waits for it.
Idle(c) == Unserving(c) /\ ~P!Holds(c)

\* How often a caller was answered is what the carriers know of its call.
AnswerCall(c) ==
  IF OnWire(c)
    THEN answers[c] = IF remote[c].stage = "settled" THEN 1 ELSE 0
    ELSE /\ call[c].responded => answers[c] = 1
         /\ ~call[c].responded => answers[c] = 0 \/ (answers[c] = 1 /\ Idle(c))

CallInv(c) == FreshCall(c) /\ ForwardCall(c) /\ AnswerCall(c)

SentInv ==
  /\ setting \in Settings /\ sent \subseteq Calls
  /\ passing \in [Calls -> {"none", "waiting", "withdrawn", "returned"}]
  /\ \A c \in Calls : c \in sent => c \in setting.to["pair"] \/ OnWire(c)
  /\ \A c \in Calls : passing[c] # "none" => c \in setting.passes

HandlersInv == Cardinality(P!Active) <= MaxHandlers

PairInv == P!TypeOK /\ PairQueueInv /\ PairTableInv /\ HandlersInv /\ PairCalls
WireInv == W!TypeOK /\ WireQueueInv /\ WireTableInv /\ WireCalls

ForwardInv == PairInv /\ WireInv /\ SentInv /\ \A c \in Calls : CallInv(c)
-----------------------------------------------------------------------------
(* Queues.                                                                 *)

LEMMA SameCardinality == \A S : P!Cardinality(S) = Cardinality(S) /\ W!Cardinality(S) = Cardinality(S)
BY DEF P!Cardinality, W!Cardinality, Cardinality

LEMMA SameItems == P!Delivery = Items /\ W!Frame = Items
BY DEF P!Delivery, W!Frame, Items

LEMMA ItemFacts ==
  \A c \in Calls : /\ Request(c) \in Items /\ Refusal(c) \in Items /\ Cancelling(c) \in Items
                   /\ Request(c).kind = "request" /\ Request(c).call = c
                   /\ Refusal(c).kind = "refusal" /\ Refusal(c).call = c
                   /\ Cancelling(c).kind = "cancel" /\ Cancelling(c).call = c
BY DEF Request, Refusal, Cancelling, Items

LEMMA KindFacts ==
  \A x \in Items : /\ x.kind \in {"request", "refusal", "cancel", "event"}
                   /\ x.kind # "event" => x.call \in Calls
                   /\ x.kind = "request" => x = Request(x.call)
                   /\ x.kind = "refusal" => x = Refusal(x.call)
                   /\ x.kind = "cancel" => x = Cancelling(x.call)
<1>1. \A x \in [kind : {"request", "refusal", "cancel"}, call : Calls] :
        /\ x = [kind |-> x.kind, call |-> x.call]
        /\ x.kind \in {"request", "refusal", "cancel"} /\ x.call \in Calls
  OBVIOUS
<1>2. \A x \in [kind : {"event"}, call : {NoCall}] : x.kind = "event"
  OBVIOUS
<1> QED BY <1>1, <1>2 DEF Request, Refusal, Cancelling, Items

LEMMA TailParts ==
  ASSUME NEW q \in Seq(Items), q # <<>>
  PROVE  /\ Tail(q) \in Seq(Items) /\ Len(q) \in Nat /\ 1 \in 1 .. Len(q)
         /\ Head(q) = q[1] /\ q[1] \in Items /\ Len(Tail(q)) = Len(q) - 1
         /\ \A i \in 1 .. Len(Tail(q)) : Tail(q)[i] = q[i + 1] /\ i + 1 \in 1 .. Len(q)
         /\ \A i \in 1 .. Len(q) : i = 1 \/ (i - 1 \in 1 .. Len(Tail(q)) /\ q[i] = Tail(q)[i - 1])
<1>1. /\ Tail(q) \in Seq(Items) /\ Len(q) \in Nat /\ Len(q) >= 1 /\ q[1] \in Items
      /\ Len(Tail(q)) = Len(q) - 1 /\ Head(q) = q[1]
  OBVIOUS
<1>2. \A i \in 1 .. Len(Tail(q)) : Tail(q)[i] = q[i + 1]
  BY <1>1
<1>3. \A i \in 1 .. Len(q) : i = 1 \/ (i - 1 \in 1 .. Len(Tail(q)) /\ (i - 1) + 1 = i)
  BY <1>1
<1> QED BY <1>1, <1>2, <1>3

LEMMA AppendParts ==
  ASSUME NEW q \in Seq(Items), NEW f \in Items
  PROVE  /\ Append(q, f) \in Seq(Items) /\ Len(q) \in Nat /\ Len(Append(q, f)) = Len(q) + 1
         /\ Append(q, f)[Len(q) + 1] = f
         /\ \A i \in 1 .. Len(q) : Append(q, f)[i] = q[i]
         /\ \A i : i \in 1 .. Len(Append(q, f)) <=> i \in 1 .. Len(q) \/ i = Len(q) + 1
<1>1. /\ Append(q, f) \in Seq(Items) /\ Len(q) \in Nat /\ Len(Append(q, f)) = Len(q) + 1
      /\ Append(q, f)[Len(q) + 1] = f
      /\ \A i \in 1 .. Len(q) : Append(q, f)[i] = q[i]
  OBVIOUS
<1> QED BY <1>1

LEMMA SameData == \A q : P!Data(q) = Cardinality(Weight(q)) /\ W!Data(q) = Cardinality(Weight(q))
BY SameCardinality DEF P!Data, W!Data, Weight

LEMMA WeightFinite ==
  ASSUME NEW q \in Seq(Items)
  PROVE  IsFiniteSet(Weight(q)) /\ Cardinality(Weight(q)) \in Nat
<1>1. Len(q) \in Nat /\ IsFiniteSet(1 .. Len(q))
  BY FS_Interval
<1>2. Weight(q) \in SUBSET (1 .. Len(q))
  BY DEF Weight
<1>3. IsFiniteSet(Weight(q))
  BY <1>1, <1>2, FS_Subset
<1> QED BY <1>3, FS_CardinalityType

\* Appending adds what it appends, and counts it unless it is a cancellation.
LEMMA Appends ==
  ASSUME NEW q \in Seq(Items), NEW f \in Items
  PROVE  /\ \A x : In(Append(q, f), x) <=> In(q, x) \/ x = f
         /\ Single(q) /\ (f.kind = "event" \/ ~In(q, f)) => Single(Append(q, f))
         /\ f.kind = "cancel" => Cardinality(Weight(Append(q, f))) = Cardinality(Weight(q))
         /\ f.kind # "cancel" => Cardinality(Weight(Append(q, f))) = Cardinality(Weight(q)) + 1
<1> DEFINE t == Append(q, f)
<1>1. /\ Len(q) \in Nat /\ Len(t) = Len(q) + 1 /\ t[Len(q) + 1] = f
      /\ \A i \in 1 .. Len(q) : t[i] = q[i]
      /\ \A i : i \in 1 .. Len(t) <=> i \in 1 .. Len(q) \/ i = Len(q) + 1
  BY AppendParts
<1> HIDE DEF t
<1>2. \A x : In(t, x) <=> In(q, x) \/ x = f
  BY <1>1 DEF In
<1>3. Single(q) /\ (f.kind = "event" \/ ~In(q, f)) => Single(t)
  BY <1>1 DEF Single, In
<1>4. ASSUME f.kind = "cancel" PROVE Weight(t) = Weight(q)
  BY <1>1, <1>4 DEF Weight
<1>5. ASSUME f.kind # "cancel" PROVE Cardinality(Weight(t)) = Cardinality(Weight(q)) + 1
  <2>1. Weight(t) = Weight(q) \cup {Len(q) + 1} /\ Len(q) + 1 \notin Weight(q)
    BY <1>1, <1>5 DEF Weight
  <2> QED BY <2>1, WeightFinite, FS_AddElement
<1> QED BY <1>2, <1>3, <1>4, <1>5 DEF t

\* Taking removes the first, which was there once.
LEMMA Tails ==
  ASSUME NEW q \in Seq(Items), q # <<>>, Single(q)
  PROVE  /\ \A x : In(q, x) <=> In(Tail(q), x) \/ x = q[1]
         /\ q[1].kind # "event" => ~In(Tail(q), q[1])
         /\ Single(Tail(q)) /\ Cardinality(Weight(Tail(q))) <= Cardinality(Weight(q))
<1> DEFINE t == Tail(q)
<1>1. /\ t \in Seq(Items) /\ Len(q) \in Nat /\ 1 \in 1 .. Len(q) /\ Len(t) = Len(q) - 1
      /\ \A i \in 1 .. Len(t) : t[i] = q[i + 1] /\ i + 1 \in 1 .. Len(q)
      /\ \A i \in 1 .. Len(q) : i = 1 \/ (i - 1 \in 1 .. Len(t) /\ q[i] = t[i - 1])
  BY TailParts
<1> HIDE DEF t
<1>2. \A x : In(q, x) <=> In(t, x) \/ x = q[1]
  BY <1>1 DEF In
<1>3. q[1].kind # "event" => ~In(t, q[1])
  BY <1>1 DEF In, Single
<1>4. Single(t)
  BY <1>1 DEF Single
<1> DEFINE S == Weight(t)
           T == Weight(q)
           F == [i \in S |-> i + 1]
<1>5. F \in [S -> T] /\ \A a, b \in S : F[a] = F[b] => a = b
  BY <1>1 DEF Weight
<1>6. Cardinality(S) <= Cardinality(T)
  <2> HIDE DEF S, T, F
  <2>1. F \in Injection(S, T)
    BY <1>5 DEF Injection, IsInjective
  <2>2. IsFiniteSet(T)
    BY WeightFinite DEF T
  <2> QED BY <2>1, <2>2, FS_Injection
<1> QED BY <1>2, <1>3, <1>4, <1>6 DEF t

LEMMA Empties == (\A x : ~In(<<>>, x)) /\ Single(<<>>) /\ Cardinality(Weight(<<>>)) = 0
<1>1. Weight(<<>>) = {}
  BY DEF Weight
<1> QED BY <1>1, FS_EmptySet DEF In, Single

-----------------------------------------------------------------------------
(* The pair's queue and the hand of its loop.                              *)

LEMMA PairAppends ==
  ASSUME P!TypeOK, PairQueueInv, ~closed, ~closed', NEW x \in Items,
         queue' = Append(queue, x), hand' = hand,
         x.kind = "event" \/ ~Pending(x), x.kind = "cancel" \/ ~P!Full
  PROVE  PairQueueInv' /\ queue' \in Seq(Items) /\ \A y : Pending(y)' <=> Pending(y) \/ y = x
<1>1. queue \in Seq(Items) /\ queue' \in Seq(Items)
  BY SameItems, AppendParts DEF P!TypeOK
<1>2. /\ \A y : In(queue', y) <=> In(queue, y) \/ y = x
      /\ Single(queue')
      /\ x.kind = "cancel" => Cardinality(Weight(queue')) = Cardinality(Weight(queue))
      /\ x.kind # "cancel" => Cardinality(Weight(queue')) = Cardinality(Weight(queue)) + 1
  BY <1>1, Appends DEF PairQueueInv, Pending
<1>3. \A y : P!InHand(y)' <=> P!InHand(y)
  BY DEF P!InHand
<1>4. \A y : Pending(y)' <=> Pending(y) \/ y = x
  BY <1>2, <1>3 DEF Pending
<1>5. Cardinality(Weight(queue')) <= QueueCapacity
  <2>1. x.kind # "cancel" => ~(Cardinality(Weight(queue)) >= QueueCapacity)
    BY SameData DEF P!Full
  <2>2. Cardinality(Weight(queue)) \in Nat /\ QueueCapacity \in Nat
    BY <1>1, WeightFinite, ForwardAssumption
  <2> QED BY <1>2, <2>1, <2>2 DEF PairQueueInv
<1>6. \A y \in Items : y.kind # "event" /\ P!InHand(y)' => ~In(queue', y)
  BY <1>2, <1>3 DEF PairQueueInv, Pending
<1> QED BY <1>1, <1>2, <1>4, <1>5, <1>6 DEF PairQueueInv

LEMMA PairTakes ==
  ASSUME P!TypeOK, PairQueueInv, P!Take
  PROVE  PairQueueInv' /\ queue' \in Seq(Items) /\ queue[1] \in Items
         /\ hand'.of = queue[1] /\ hand'.step = "taken" /\ hand'.to = "none"
         /\ \A y : Pending(y)' <=> Pending(y)
<1>1. queue \in Seq(Items) /\ queue # <<>> /\ Single(queue) /\ queue' = Tail(queue)
      /\ hand = P!Nothing /\ closed' = closed /\ ~closed
  BY SameItems DEF P!TypeOK, P!Take, PairQueueInv
<1>2. queue' \in Seq(Items) /\ queue[1] \in Items /\ Head(queue) = queue[1]
  BY <1>1, TailParts
<1>3. /\ \A y : In(queue, y) <=> In(queue', y) \/ y = queue[1]
      /\ queue[1].kind # "event" => ~In(queue', queue[1])
      /\ Single(queue') /\ Cardinality(Weight(queue')) <= Cardinality(Weight(queue))
  BY <1>1, Tails
<1>4. hand'.of = queue[1] /\ hand'.step = "taken" /\ hand'.to = "none"
  BY <1>2 DEF P!Take
<1>5. /\ \A y : ~P!InHand(y)
      /\ \A y : P!InHand(y)' <=> y = queue[1]
  BY <1>1, <1>4 DEF P!InHand, P!Nothing
<1>6. \A y : Pending(y)' <=> Pending(y)
  BY <1>3, <1>5 DEF Pending
<1>7. Cardinality(Weight(queue')) <= QueueCapacity
  <2>1. Cardinality(Weight(queue)) \in Nat /\ Cardinality(Weight(queue')) \in Nat /\ QueueCapacity \in Nat
    BY <1>1, <1>2, WeightFinite, ForwardAssumption
  <2> QED BY <1>3, <2>1 DEF PairQueueInv
<1> QED BY <1>1, <1>2, <1>3, <1>4, <1>5, <1>6, <1>7 DEF PairQueueInv

\* The loop is done with what it took, or moves on with it.
LEMMA PairDrops ==
  ASSUME P!TypeOK, PairQueueInv, UNCHANGED <<closed, queue>>, hand.step = "taken", hand'.step # "taken"
  PROVE  PairQueueInv' /\ \A y \in Items : y.kind # "event" => (Pending(y)' <=> Pending(y) /\ y # hand.of)
BY DEF PairQueueInv, P!InHand, Pending

LEMMA PairKeeps ==
  ASSUME PairQueueInv, UNCHANGED <<closed, queue>>,
         hand' = hand \/ (hand.step # "taken" /\ hand'.step # "taken")
  PROVE  PairQueueInv' /\ \A y : Pending(y)' <=> Pending(y)
BY DEF PairQueueInv, P!InHand, Pending

LEMMA PairEmpties ==
  ASSUME queue' = <<>>, hand' = hand
  PROVE  PairQueueInv' /\ \A y : Pending(y)' <=> P!InHand(y)
<1>1. (\A x : ~In(queue', x)) /\ Single(queue') /\ Cardinality(Weight(queue')) = 0
  BY Empties
<1>2. QueueCapacity \in Nat
  BY ForwardAssumption
<1> QED BY <1>1, <1>2 DEF PairQueueInv, P!InHand, Pending

-----------------------------------------------------------------------------
(* The pair's table and the places of its handlers.                        *)

LEMMA KeysFinite == IsFiniteSet(AllKeys) /\ IsFiniteSet(Calls)
BY ForwardAssumption, FS_Union DEF AllKeys

LEMMA PairSlotsFinite == IsFiniteSet(P!Slots) /\ P!Slots \subseteq AllKeys /\ Cardinality(P!Slots) \in Nat
<1>1. P!Slots \in SUBSET AllKeys
  BY DEF P!Slots, AllKeys
<1>2. IsFiniteSet(P!Slots)
  BY <1>1, KeysFinite, FS_Subset
<1> QED BY <1>1, <1>2, FS_CardinalityType

LEMMA PairCallsTyped ==
  ASSUME P!TypeOK
  PROVE  /\ \A d \in Calls : call[d].key \in AllKeys /\ (P!Holds(d) <=> table[call[d].key] = d)
         /\ \A k \in AllKeys : table[k] \in Calls \cup {NoCall}
BY DEF P!TypeOK, P!Holds, AllKeys

\* A slot is given to a call that had none.
LEMMA PairTableAdds ==
  ASSUME P!TypeOK, P!TypeOK', PairTableInv, ~closed, ~closed',
         NEW c \in Calls, NEW k \in AllKeys, ~P!Holds(c),
         table[k] = NoCall, Cardinality(P!Slots) < MaxPending,
         table' = [table EXCEPT ![k] = c],
         \A d \in Calls : call'[d].key = IF d = c THEN k ELSE call[d].key
  PROVE  PairTableInv' /\ \A d \in Calls : P!Holds(d)' <=> d = c \/ P!Holds(d)
<1>1. NoCall \notin Calls /\ MaxPending \in Nat
  BY ForwardAssumption
<1>2. \A j \in AllKeys : table[j] \in Calls \cup {NoCall} /\ table'[j] = IF j = k THEN c ELSE table[j]
  BY DEF P!TypeOK, AllKeys
<1>3. \A d \in Calls : P!Holds(d)' <=> d = c \/ P!Holds(d)
  <2> TAKE d \in Calls
  <2>1. (P!Holds(d)' <=> table'[call'[d].key] = d) /\ (P!Holds(d) <=> table[call[d].key] = d)
        /\ call[d].key \in AllKeys
    BY PairCallsTyped DEF P!Holds
  <2> QED BY <1>1, <1>2, <2>1
<1>4. P!Slots' = P!Slots \cup {k} /\ k \notin P!Slots
  BY <1>1, <1>2 DEF P!Slots, AllKeys
<1>5. Cardinality(P!Slots') <= MaxPending
  <2>1. Cardinality(P!Slots') = Cardinality(P!Slots) + 1
    BY <1>4, PairSlotsFinite, FS_AddElement
  <2> QED BY <1>1, <2>1, PairSlotsFinite
<1>6. \A j \in AllKeys : table'[j] # NoCall => call'[table'[j]].key = j
  <2> SUFFICES ASSUME NEW j \in AllKeys, table'[j] # NoCall PROVE call'[table'[j]].key = j
    OBVIOUS
  <2>1. CASE j = k
    BY <1>2, <2>1
  <2>2. CASE j # k
    <3>1. table'[j] = table[j] /\ table[j] \in Calls /\ call[table[j]].key = j
      BY <1>2, <2>2 DEF PairTableInv
    <3>2. table[j] # c
      BY <3>1, PairCallsTyped
    <3> QED BY <3>1, <3>2
  <2> QED BY <2>1, <2>2
<1> QED BY <1>3, <1>5, <1>6 DEF PairTableInv

\* A slot is taken from a call, or none is.
LEMMA PairTableRetires ==
  ASSUME P!TypeOK, P!TypeOK', PairTableInv, closed' = closed, NEW c \in Calls,
         table' = P!Retire(call', c), \A d \in Calls : call'[d].key = call[d].key
  PROVE  /\ PairTableInv'
         /\ \A d \in Calls : P!Holds(d)' <=>
              P!Holds(d) /\ ~(d = c /\ call'[c].completed /\ ~call'[c].cancelQueued)
<1>1. NoCall \notin Calls /\ MaxPending \in Nat
  BY ForwardAssumption
<1> DEFINE gone == call'[c].completed /\ ~call'[c].cancelQueued /\ P!Holds(c)
           k == call[c].key
<1>2. \A j \in AllKeys : /\ table[j] \in Calls \cup {NoCall}
                         /\ table'[j] = IF gone /\ j = k THEN NoCall ELSE table[j]
  <2>1. table' = IF gone THEN [table EXCEPT ![k] = NoCall] ELSE table
    BY DEF P!Retire, P!Holds
  <2>2. table \in [AllKeys -> Calls \cup {NoCall}] /\ k \in AllKeys
    BY PairCallsTyped DEF P!TypeOK, AllKeys
  <2> QED BY <2>1, <2>2
<1>3. ASSUME NEW d \in Calls
      PROVE  P!Holds(d)' <=> P!Holds(d) /\ ~(d = c /\ call'[c].completed /\ ~call'[c].cancelQueued)
  <2>1. (P!Holds(d)' <=> table'[call'[d].key] = d) /\ (P!Holds(d) <=> table[call[d].key] = d)
        /\ call[d].key \in AllKeys /\ call'[d].key = call[d].key /\ (P!Holds(c) <=> table[k] = c)
    BY PairCallsTyped DEF P!Holds
  <2> QED BY <1>1, <1>2, <2>1
<1>4. \A j \in AllKeys : table'[j] # NoCall => table[j] = table'[j] /\ table[j] \in Calls
  BY <1>2
<1>5. Cardinality(P!Slots') <= MaxPending
  <2>1. P!Slots' \in SUBSET P!Slots
    BY <1>4 DEF P!Slots, AllKeys
  <2>2. Cardinality(P!Slots') <= Cardinality(P!Slots) /\ Cardinality(P!Slots') \in Nat
    BY <2>1, PairSlotsFinite, FS_Subset, FS_CardinalityType
  <2> QED BY <1>1, <2>2, PairSlotsFinite DEF PairTableInv
<1> QED BY <1>3, <1>4, <1>5 DEF PairTableInv

LEMMA PairTableKeeps ==
  ASSUME P!TypeOK, PairTableInv, closed' = closed, table' = table,
         \A d \in Calls : call'[d].key = call[d].key
  PROVE  PairTableInv' /\ \A d \in Calls : P!Holds(d)' <=> P!Holds(d)
<1>1. \A d \in Calls : P!Holds(d)' <=> P!Holds(d)
  BY DEF P!Holds
<1>2. P!Slots' = P!Slots
  BY DEF P!Slots
<1>3. \A k \in AllKeys : table'[k] # NoCall => ~closed' /\ call'[table'[k]].key = k
  BY PairCallsTyped DEF PairTableInv
<1> QED BY <1>1, <1>2, <1>3 DEF PairTableInv

LEMMA ActiveFinite == IsFiniteSet(P!Active) /\ Cardinality(P!Active) \in Nat
<1>1. P!Active \in SUBSET Calls
  BY DEF P!Active
<1> QED BY <1>1, KeysFinite, FS_Subset, FS_CardinalityType

LEMMA HandlersKeep ==
  ASSUME HandlersInv, \A d \in Calls : call'[d].active => call[d].active
  PROVE  HandlersInv'
<1>1. P!Active' \in SUBSET P!Active
  BY DEF P!Active
<1>2. Cardinality(P!Active') <= Cardinality(P!Active) /\ Cardinality(P!Active') \in Nat
  BY <1>1, ActiveFinite, FS_Subset, FS_CardinalityType
<1> QED BY <1>2, ActiveFinite, ForwardAssumption DEF HandlersInv

LEMMA HandlersStart ==
  ASSUME Cardinality(P!Active) < MaxHandlers, NEW c \in Calls,
         \A d \in Calls : d # c => (call'[d].active <=> call[d].active)
  PROVE  HandlersInv'
<1>1. P!Active' \in SUBSET (P!Active \cup {c})
  BY DEF P!Active
<1>2. /\ IsFiniteSet(P!Active \cup {c}) /\ Cardinality(P!Active \cup {c}) <= Cardinality(P!Active) + 1
      /\ Cardinality(P!Active \cup {c}) \in Nat
  BY ActiveFinite, FS_AddElement, FS_CardinalityType
<1>3. Cardinality(P!Active') <= Cardinality(P!Active \cup {c}) /\ Cardinality(P!Active') \in Nat
  BY <1>1, <1>2, FS_Subset, FS_CardinalityType
<1>4. MaxHandlers \in Nat
  BY ForwardAssumption
<1> QED BY <1>2, <1>3, <1>4, ActiveFinite DEF HandlersInv

-----------------------------------------------------------------------------
(* Admission to the pair.                                                  *)

CallType ==
  [key : AllKeys, by : P!Receivers, work : {"none", "running", "replied", "done"},
   responded : BOOLEAN, completed : BOOLEAN, active : BOOLEAN,
   cancelQueued : BOOLEAN, cancelled : BOOLEAN]

LEMMA NewCall ==
  ASSUME NEW k \in AllKeys
  PROVE  /\ P!Fresh(k).key = k /\ P!Fresh(k).by = "none" /\ P!Fresh(k).work = "none"
         /\ ~P!Fresh(k).responded /\ ~P!Fresh(k).completed /\ ~P!Fresh(k).active
         /\ ~P!Fresh(k).cancelQueued /\ ~P!Fresh(k).cancelled
         /\ P!Fresh(k) \in CallType
BY DEF P!Fresh, P!Receivers, CallType

LEMMA AdmitKeeps ==
  ASSUME PairInv, NEW c \in Calls, NEW k \in AllKeys, P!Admit(c, k), Unheard(c), answers[c] = 0
  PROVE  PairInv' /\ \A d \in Calls : d # c /\ Unheard(d) => Unheard(d)'
<1>1. /\ ~closed /\ ~P!Full /\ call[c].work = "none" /\ ~P!Holds(c)
      /\ UNCHANGED <<closed, hand, receiver, answers>>
  BY DEF P!Admit
<1>2. /\ P!TypeOK /\ PairQueueInv /\ PairTableInv /\ HandlersInv /\ PairCalls
      /\ ~Pending(Request(c)) /\ ~Pending(Refusal(c)) /\ ~Pending(Cancelling(c)) /\ ~Delivering(c)
  BY DEF PairInv, Unheard
<1>3. \A d \in Calls : Delivering(d)' <=> Delivering(d)
  BY <1>1 DEF Delivering
<1>4. CASE /\ table[k] = NoCall /\ P!Cardinality(P!Slots) < MaxPending
           /\ table' = [table EXCEPT ![k] = c]
           /\ call' = [call EXCEPT ![c] = P!Fresh(k)]
           /\ queue' = Append(queue, Request(c))
  <2>1. /\ PairQueueInv' /\ queue' \in Seq(Items)
        /\ \A y : Pending(y)' <=> Pending(y) \/ y = Request(c)
    BY <1>1, <1>2, <1>4, ItemFacts, PairAppends
  <2>2. \A d \in Calls : call'[d] = IF d = c THEN P!Fresh(k) ELSE call[d]
    BY <1>2, <1>4 DEF P!TypeOK
  <2>3. P!TypeOK'
    BY <1>1, <1>2, <1>4, <2>1, NewCall, SameItems DEF P!TypeOK, AllKeys, CallType
  <2>4. PairTableInv' /\ \A d \in Calls : P!Holds(d)' <=> d = c \/ P!Holds(d)
    <3>1. Cardinality(P!Slots) < MaxPending
      BY <1>4, SameCardinality
    <3>2. \A d \in Calls : call'[d].key = IF d = c THEN k ELSE call[d].key
      BY <2>2, NewCall
    <3> QED BY <1>1, <1>2, <1>4, <2>3, <3>1, <3>2, PairTableAdds
  <2>5. HandlersInv'
    BY <1>2, <2>2, NewCall, HandlersKeep
  <2>6. \A d \in Calls : Pending(Request(d))' <=> Pending(Request(d)) \/ d = c
    BY <2>1, ItemFacts
  <2>7. \A d \in Calls : (Pending(Refusal(d))' <=> Pending(Refusal(d)))
                         /\ (Pending(Cancelling(d))' <=> Pending(Cancelling(d)))
    BY <2>1, ItemFacts
  <2>8. \A d \in Calls : PairCall(d)'
    <3> TAKE d \in Calls
    <3>1. CASE d = c
      BY <1>1, <1>2, <1>3, <2>2, <2>4, <2>6, <2>7, <3>1, NewCall DEF PairCall, Unserving
    <3>2. CASE d # c
      BY <1>1, <1>2, <1>3, <2>2, <2>4, <2>6, <2>7, <3>2 DEF PairCall, PairCalls, Unserving
    <3> QED BY <3>1, <3>2
  <2>9. \A d \in Calls : d # c /\ Unheard(d) => Unheard(d)'
    BY <1>3, <2>2, <2>4, <2>6, <2>7 DEF Unheard
  <2> QED BY <2>1, <2>3, <2>4, <2>5, <2>8, <2>9 DEF PairInv, PairCalls
<1>5. CASE queue' = Append(queue, Refusal(c)) /\ UNCHANGED <<table, call>>
  <2>1. /\ PairQueueInv' /\ queue' \in Seq(Items)
        /\ \A y : Pending(y)' <=> Pending(y) \/ y = Refusal(c)
    BY <1>1, <1>2, <1>5, ItemFacts, PairAppends
  <2>3. P!TypeOK'
    BY <1>1, <1>2, <1>5, <2>1, SameItems DEF P!TypeOK
  <2>4. PairTableInv' /\ \A d \in Calls : P!Holds(d)' <=> P!Holds(d)
    BY <1>1, <1>2, <1>5, PairTableKeeps
  <2>5. HandlersInv'
    BY <1>2, <1>5, HandlersKeep
  <2>6. \A d \in Calls : Pending(Refusal(d))' <=> Pending(Refusal(d)) \/ d = c
    BY <2>1, ItemFacts
  <2>7. \A d \in Calls : (Pending(Request(d))' <=> Pending(Request(d)))
                         /\ (Pending(Cancelling(d))' <=> Pending(Cancelling(d)))
    BY <2>1, ItemFacts
  <2>8. \A d \in Calls : PairCall(d)'
    BY <1>1, <1>2, <1>3, <1>5, <2>4, <2>6, <2>7 DEF PairCall, PairCalls, Unserving, Unheard
  <2>9. \A d \in Calls : d # c /\ Unheard(d) => Unheard(d)'
    BY <1>3, <1>5, <2>4, <2>6, <2>7 DEF Unheard
  <2> QED BY <2>1, <2>3, <2>4, <2>5, <2>8, <2>9 DEF PairInv, PairCalls
<1> QED BY <1>4, <1>5 DEF P!Admit, Request, Refusal

LEMMA AdmitEventKeeps ==
  ASSUME PairInv, P!AdmitEvent
  PROVE  PairInv' /\ \A d \in Calls : Unheard(d) => Unheard(d)'
<1> DEFINE x == [kind |-> "event", call |-> NoCall]
<1>1. /\ ~closed /\ ~P!Full /\ queue' = Append(queue, x)
      /\ UNCHANGED <<closed, table, call, hand, receiver, answers>>
  BY DEF P!AdmitEvent
<1>2. /\ P!TypeOK /\ PairQueueInv /\ PairTableInv /\ HandlersInv /\ PairCalls
  BY DEF PairInv
<1>3. x \in Items /\ x.kind = "event"
  BY DEF Items
<1>4. PairQueueInv' /\ queue' \in Seq(Items) /\ \A y : Pending(y)' <=> Pending(y) \/ y = x
  BY <1>1, <1>2, <1>3, PairAppends
<1>5. P!TypeOK'
  BY <1>1, <1>2, <1>4, SameItems DEF P!TypeOK
<1>6. PairTableInv' /\ \A d \in Calls : P!Holds(d)' <=> P!Holds(d)
  BY <1>1, <1>2, PairTableKeeps
<1>7. HandlersInv'
  BY <1>1, <1>2, HandlersKeep
<1>8. \A d \in Calls : /\ Pending(Request(d))' <=> Pending(Request(d))
                       /\ Pending(Refusal(d))' <=> Pending(Refusal(d))
                       /\ Pending(Cancelling(d))' <=> Pending(Cancelling(d))
                       /\ Delivering(d)' <=> Delivering(d)
  BY <1>1, <1>3, <1>4, ItemFacts DEF Delivering
<1> HIDE DEF x
<1>9. \A d \in Calls : PairCall(d)'
  BY <1>1, <1>2, <1>6, <1>8 DEF PairCall, PairCalls, Unserving
<1>10. \A d \in Calls : Unheard(d) => Unheard(d)'
  BY <1>1, <1>6, <1>8 DEF Unheard
<1> QED BY <1>4, <1>5, <1>6, <1>7, <1>9, <1>10 DEF PairInv, PairCalls

LEMMA CancelKeeps ==
  ASSUME PairInv, NEW k \in AllKeys, P!Cancel(k)
  PROVE  PairInv' /\ \A d \in Calls : Unheard(d) => Unheard(d)'
<1>1. PICK c : c = table[k]
  OBVIOUS
<1>2. /\ P!TypeOK /\ PairQueueInv /\ PairTableInv /\ HandlersInv /\ PairCalls
  BY DEF PairInv
<1>3. c \in Calls /\ ~closed /\ c # NoCall
  BY <1>1, <1>2, PairCallsTyped DEF P!Cancel
<1>4. /\ ~call[c].completed /\ ~call[c].cancelQueued
      /\ queue' = Append(queue, Cancelling(c)) /\ call' = [call EXCEPT ![c].cancelQueued = TRUE]
      /\ UNCHANGED <<closed, table, hand, receiver, answers>>
  BY <1>1 DEF P!Cancel, P!Cancellable, Cancelling
<1>5. P!Holds(c)
  BY <1>1, <1>2, <1>3 DEF PairTableInv, P!Holds
<1>6. ~Pending(Cancelling(c))
  BY <1>2, <1>3, <1>4 DEF PairCalls, PairCall
<1>7. PairQueueInv' /\ queue' \in Seq(Items) /\ \A y : Pending(y)' <=> Pending(y) \/ y = Cancelling(c)
  BY <1>2, <1>3, <1>4, <1>6, ItemFacts, PairAppends
<1>8. \A d \in Calls : call'[d] = IF d = c THEN [call[c] EXCEPT !.cancelQueued = TRUE] ELSE call[d]
  BY <1>2, <1>3, <1>4 DEF P!TypeOK
<1>9. \A d \in Calls : /\ call'[d].key = call[d].key /\ call'[d].by = call[d].by /\ call'[d].work = call[d].work
                       /\ call'[d].responded = call[d].responded /\ call'[d].completed = call[d].completed
                       /\ call'[d].active = call[d].active
                       /\ call'[d].cancelQueued <=> (d = c \/ call[d].cancelQueued)
  <2> TAKE d \in Calls
  <2>1. CASE d = c
    BY <1>2, <1>3, <1>8, <2>1 DEF P!TypeOK
  <2>2. CASE d # c
    BY <1>8, <2>2
  <2> QED BY <2>1, <2>2
<1>10. P!TypeOK'
  BY <1>2, <1>3, <1>4, <1>7, SameItems, ZenonT(60) DEF P!TypeOK
<1>11. PairTableInv' /\ \A d \in Calls : P!Holds(d)' <=> P!Holds(d)
  BY <1>2, <1>4, <1>9, PairTableKeeps
<1>12. HandlersInv'
  BY <1>2, <1>9, HandlersKeep
<1>13. \A d \in Calls : /\ Pending(Request(d))' <=> Pending(Request(d))
                        /\ Pending(Refusal(d))' <=> Pending(Refusal(d))
                        /\ Pending(Cancelling(d))' <=> Pending(Cancelling(d)) \/ d = c
                        /\ Delivering(d)' <=> Delivering(d)
  BY <1>3, <1>4, <1>7, ItemFacts DEF Delivering
<1>14. \A d \in Calls : PairCall(d)'
  BY <1>2, <1>4, <1>5, <1>9, <1>11, <1>13 DEF PairCall, PairCalls, Unserving
<1>15. \A d \in Calls : Unheard(d) => Unheard(d)'
  BY <1>5, <1>9, <1>11, <1>13 DEF Unheard
<1> QED BY <1>7, <1>10, <1>11, <1>12, <1>14, <1>15 DEF PairInv, PairCalls

\* The end of the pair: what the loop has in hand is all that is left.
LEMMA EndKeeps ==
  ASSUME PairInv, P!End
  PROVE  PairInv' /\ \A d \in Calls : Unheard(d) => Unheard(d)'
<1>1. /\ ~closed /\ closed' /\ queue' = <<>> /\ receiver' = "none" /\ hand' = hand
      /\ table' = [k \in AllKeys |-> NoCall]
  BY DEF P!End, AllKeys
<1>2. /\ P!TypeOK /\ PairQueueInv /\ PairTableInv /\ HandlersInv /\ PairCalls /\ NoCall \notin Calls
  BY ForwardAssumption DEF PairInv
<1>3. \A d \in Calls : call'[d] = IF P!Holds(d) THEN [call[d] EXCEPT !.responded = TRUE, !.completed = TRUE]
                                               ELSE call[d]
  BY DEF P!End
<1>4. \A d \in Calls : /\ call'[d].key = call[d].key /\ call'[d].by = call[d].by /\ call'[d].work = call[d].work
                       /\ call'[d].responded <=> call[d].responded \/ P!Holds(d)
                       /\ call'[d].completed <=> call[d].completed \/ P!Holds(d)
                       /\ call'[d].active = call[d].active /\ call'[d].cancelQueued = call[d].cancelQueued
  <2> TAKE d \in Calls
  <2>1. CASE P!Holds(d)
    <3>1. call'[d] = [call[d] EXCEPT !.responded = TRUE, !.completed = TRUE]
      BY <1>3, <2>1
    <3> QED BY <1>2, <2>1, <3>1 DEF P!TypeOK
  <2>2. CASE ~P!Holds(d)
    BY <1>3, <2>2
  <2> QED BY <2>1, <2>2
<1>40. answers' = [d \in Calls |-> answers[d] + IF P!Holds(d) /\ ~call[d].responded THEN 1 ELSE 0]
  BY DEF P!End, P!Answered
<1>5. PairQueueInv' /\ \A y : Pending(y)' <=> P!InHand(y)
  BY <1>1, PairEmpties
<1>6. \A d \in Calls : ~P!Holds(d)'
  <2> TAKE d \in Calls
  <2>1. call'[d].key \in AllKeys /\ (P!Holds(d)' <=> table'[call'[d].key] = d)
    BY <1>2, <1>4, PairCallsTyped DEF P!Holds
  <2> QED BY <1>1, <1>2, <2>1
<1>7. PairTableInv'
  <2>1. P!Slots' = {}
    BY <1>1 DEF P!Slots, AllKeys
  <2>2. Cardinality(P!Slots') = 0 /\ MaxPending \in Nat
    BY <2>1, FS_EmptySet, ForwardAssumption
  <2> QED BY <1>1, <2>2 DEF PairTableInv
<1>8. P!TypeOK'
  <2>1. answers' \in [Calls -> Nat]
    BY <1>2, <1>40 DEF P!TypeOK
  <2>2. call' \in [Calls -> CallType]
    <3>1. \A d \in Calls : call'[d] \in
            CallType
      <4> TAKE d \in Calls
      <4>1. CASE P!Holds(d)
        <5>1. call'[d] = [call[d] EXCEPT !.responded = TRUE, !.completed = TRUE]
          BY <1>3, <4>1
        <5>2. call[d] \in
                CallType
          BY <1>2 DEF P!TypeOK, AllKeys, CallType
        <5> QED BY <5>1, <5>2 DEF CallType
      <4>2. CASE ~P!Holds(d)
        BY <1>2, <1>3, <4>2 DEF P!TypeOK, AllKeys, CallType
      <4> QED BY <4>1, <4>2
    <3>2. call' = [d \in Calls |-> call'[d]]
      BY DEF P!End
    <3> QED BY <3>1, <3>2
  <2>3. closed' \in BOOLEAN
    BY DEF P!End
  <2> QED BY <1>1, <1>2, <2>1, <2>2, <2>3 DEF P!TypeOK, AllKeys, CallType, P!Receivers
<1>9. HandlersInv'
  BY <1>2, <1>4, HandlersKeep
<1>10. \A d \in Calls : /\ Pending(Request(d))' => Pending(Request(d))
                        /\ Pending(Refusal(d))' => Pending(Refusal(d))
                        /\ Pending(Cancelling(d))' => Pending(Cancelling(d))
                        /\ Delivering(d)' <=> Delivering(d)
  BY <1>1, <1>5 DEF Delivering, Pending
<1>11. \A d \in Calls : Pending(Refusal(d)) => answers'[d] = 0
  BY <1>2, <1>40 DEF PairCalls, PairCall, P!TypeOK
<1>12. \A d \in Calls : PairCall(d)'
  BY <1>1, <1>2, <1>4, <1>6, <1>10, <1>11 DEF PairCall, PairCalls, Unserving
<1>13. \A d \in Calls : Unheard(d) => Unheard(d)'
  BY <1>4, <1>6, <1>10 DEF Unheard
<1> QED BY <1>5, <1>7, <1>8, <1>9, <1>12, <1>13 DEF PairInv, PairCalls

-----------------------------------------------------------------------------
(* The run loop of the pair.                                               *)

\* What the loop holds is a delivery, whose call is one of ours.
LEMMA HandFacts ==
  ASSUME P!TypeOK
  PROVE  /\ hand.of \in Items /\ hand.to \in P!Receivers
         /\ hand.step = "taken" => P!InHand(hand.of) /\ Pending(hand.of)
         /\ hand.of.kind # "event" => hand.of.call \in Calls
         /\ hand.of.kind = "request" => hand.of = Request(hand.of.call)
         /\ hand.of.kind = "refusal" => hand.of = Refusal(hand.of.call)
         /\ hand.of.kind = "cancel" => hand.of = Cancelling(hand.of.call)
<1>1. hand.of \in Items /\ hand.to \in P!Receivers
  BY SameItems DEF P!TypeOK
<1> QED BY <1>1, KindFacts DEF P!InHand, Pending

\* A step of the loop or the registration that changes no call.
LEMMA RestKeeps ==
  ASSUME PairInv, UNCHANGED <<closed, table, call>>, P!TypeOK', PairQueueInv',
         \A d \in Calls : /\ Pending(Request(d))' => Pending(Request(d))
                          /\ Pending(Refusal(d))' => Pending(Refusal(d)) /\ answers'[d] = answers[d]
                          /\ Pending(Cancelling(d))' <=> Pending(Cancelling(d))
                          /\ Delivering(d)' => Delivering(d) /\ hand' = hand
  PROVE  PairInv' /\ \A d \in Calls : Unheard(d) => Unheard(d)'
<1>1. P!TypeOK /\ PairQueueInv /\ PairTableInv /\ HandlersInv /\ PairCalls
  BY DEF PairInv
<1>2. PairTableInv' /\ \A d \in Calls : P!Holds(d)' <=> P!Holds(d)
  BY <1>1, PairTableKeeps
<1>3. HandlersInv'
  BY <1>1, HandlersKeep
<1>4. \A d \in Calls : PairCall(d)'
  BY <1>1, <1>2 DEF PairCall, PairCalls, Unserving
<1>5. \A d \in Calls : Unheard(d) => Unheard(d)'
  BY <1>2 DEF Unheard
<1> QED BY <1>2, <1>3, <1>4, <1>5 DEF PairInv, PairCalls

LEMMA NothingTyped ==
  /\ P!Nothing.step = "idle"
  /\ P!Nothing \in [step : {"idle", "taken", "deliver", "answer"}, of : P!Delivery, to : P!Receivers]
BY DEF P!Nothing, P!Delivery, P!Receivers

LEMMA TakeKeeps ==
  ASSUME PairInv, P!Take
  PROVE  PairInv' /\ \A d \in Calls : Unheard(d) => Unheard(d)'
<1>1. P!TypeOK /\ PairQueueInv
  BY DEF PairInv
<1>2. PairQueueInv' /\ queue' \in Seq(Items) /\ hand'.step = "taken" /\ \A y : Pending(y)' <=> Pending(y)
  BY <1>1, PairTakes
<1>3. UNCHANGED <<closed, table, call, receiver, answers>>
  BY DEF P!Take
<1>4. P!TypeOK'
  <2>1. hand' \in [step : {"idle", "taken", "deliver", "answer"}, of : P!Delivery, to : P!Receivers]
    <3>1. Head(queue) \in Items
      BY <1>1, SameItems, TailParts DEF P!TypeOK, P!Take
    <3> QED BY <3>1, SameItems DEF P!Take, P!Receivers
  <2> QED BY <1>1, <1>2, <1>3, <2>1, SameItems DEF P!TypeOK
<1>5. \A d \in Calls : ~Delivering(d)'
  BY <1>2 DEF Delivering
<1> QED BY <1>2, <1>3, <1>4, <1>5, RestKeeps

LEMMA RefuseKeeps ==
  ASSUME PairInv, P!Refuse
  PROVE  PairInv' /\ \A d \in Calls : Unheard(d) => Unheard(d)'
<1>1. P!TypeOK /\ PairQueueInv
  BY DEF PairInv
<1>2. PICK c : c = hand.of.call
  OBVIOUS
<1>3. /\ hand.step = "taken" /\ hand.of = Refusal(c) /\ c \in Calls /\ hand' = P!Nothing
      /\ answers' = [answers EXCEPT ![c] = @ + 1]
      /\ UNCHANGED <<closed, queue, table, call, receiver>>
  BY <1>1, <1>2, HandFacts DEF P!Refuse, P!Holding
<1>4. PairQueueInv' /\ \A y \in Items : y.kind # "event" => (Pending(y)' <=> Pending(y) /\ y # hand.of)
  BY <1>1, <1>3, NothingTyped, PairDrops
<1>5. P!TypeOK'
  BY <1>1, <1>3, NothingTyped DEF P!TypeOK
<1>6. \A d \in Calls : /\ Pending(Request(d))' <=> Pending(Request(d))
                       /\ Pending(Refusal(d))' <=> Pending(Refusal(d)) /\ d # c
                       /\ Pending(Cancelling(d))' <=> Pending(Cancelling(d))
                       /\ ~Delivering(d)'
  BY <1>3, <1>4, ItemFacts, NothingTyped DEF Delivering
<1>7. \A d \in Calls : d # c => answers'[d] = answers[d]
  BY <1>1, <1>3 DEF P!TypeOK
<1> QED BY <1>3, <1>4, <1>5, <1>6, <1>7, RestKeeps

LEMMA StartEventKeeps ==
  ASSUME PairInv, P!StartEvent
  PROVE  PairInv' /\ \A d \in Calls : Unheard(d) => Unheard(d)'
<1>1. P!TypeOK /\ PairQueueInv
  BY DEF PairInv
<1>2. /\ hand.step = "taken" /\ hand.of.kind = "event"
      /\ UNCHANGED <<closed, queue, table, call, receiver, answers>>
      /\ hand' = P!Nothing \/ hand' = [hand EXCEPT !.step = "deliver", !.to = receiver]
  BY DEF P!StartEvent, P!Holding
<1>3. hand' = P!Nothing \/ (hand'.step = "deliver" /\ hand'.of = hand.of)
  BY <1>1, <1>2 DEF P!TypeOK
<1>4. PairQueueInv' /\ \A y \in Items : y.kind # "event" => (Pending(y)' <=> Pending(y) /\ y # hand.of)
  BY <1>1, <1>2, <1>3, NothingTyped, PairDrops
<1>5. P!TypeOK'
  BY <1>1, <1>2, NothingTyped DEF P!TypeOK
<1>6. \A d \in Calls : /\ Pending(Request(d))' <=> Pending(Request(d))
                       /\ Pending(Refusal(d))' <=> Pending(Refusal(d))
                       /\ Pending(Cancelling(d))' <=> Pending(Cancelling(d))
                       /\ ~Delivering(d)'
  BY <1>2, <1>3, <1>4, ItemFacts, NothingTyped DEF Delivering
<1> QED BY <1>2, <1>4, <1>5, <1>6, RestKeeps

LEMMA LeaveKeeps ==
  ASSUME PairInv, P!Leave
  PROVE  PairInv' /\ \A d \in Calls : Unheard(d) => Unheard(d)'
<1>1. P!TypeOK /\ PairQueueInv
  BY DEF PairInv
<1>2. /\ hand.step = "taken" /\ hand.of.kind \in {"request", "event"} /\ hand' = P!Nothing
      /\ UNCHANGED <<closed, queue, table, call, receiver, answers>>
  BY DEF P!Leave
<1>4. PairQueueInv' /\ \A y \in Items : y.kind # "event" => (Pending(y)' <=> Pending(y) /\ y # hand.of)
  BY <1>1, <1>2, NothingTyped, PairDrops
<1>5. P!TypeOK'
  BY <1>1, <1>2, NothingTyped DEF P!TypeOK
<1>6. \A d \in Calls : /\ Pending(Request(d))' => Pending(Request(d))
                       /\ Pending(Refusal(d))' <=> Pending(Refusal(d))
                       /\ Pending(Cancelling(d))' <=> Pending(Cancelling(d))
                       /\ ~Delivering(d)'
  BY <1>2, <1>4, ItemFacts, NothingTyped DEF Delivering
<1> QED BY <1>2, <1>4, <1>5, <1>6, RestKeeps

LEMMA RegisterKeeps ==
  ASSUME PairInv, UNCHANGED <<closed, queue, table, call, hand, answers>>, receiver' \in P!Receivers
  PROVE  PairInv' /\ \A d \in Calls : Unheard(d) => Unheard(d)'
<1>1. P!TypeOK /\ PairQueueInv
  BY DEF PairInv
<1>2. PairQueueInv' /\ \A y : Pending(y)' <=> Pending(y)
  BY <1>1, PairKeeps
<1>3. P!TypeOK'
  BY <1>1 DEF P!TypeOK
<1> QED BY <1>2, <1>3, RestKeeps DEF Delivering

\* A step that changes one call, which is in use.
LEMMA OneKeeps ==
  ASSUME PairInv, closed' = closed, NEW c \in Calls, ~Unheard(c), PairCall(c)',
         P!TypeOK', PairQueueInv', PairTableInv', HandlersInv',
         \A d \in Calls : d # c =>
           /\ call'[d] = call[d] /\ answers'[d] = answers[d] /\ (P!Holds(d)' <=> P!Holds(d))
           /\ Pending(Request(d))' => Pending(Request(d))
           /\ Pending(Refusal(d))' => Pending(Refusal(d))
           /\ Pending(Cancelling(d))' <=> Pending(Cancelling(d))
           /\ Delivering(d)' => Delivering(d) /\ hand' = hand
  PROVE  PairInv' /\ \A d \in Calls : Unheard(d) => Unheard(d)'
<1>1. \A d \in Calls : d # c => PairCall(d)'
  BY DEF PairInv, PairCall, PairCalls, Unserving
<1>2. \A d \in Calls : Unheard(d) => Unheard(d)'
  BY DEF Unheard
<1> QED BY <1>1, <1>2 DEF PairInv, PairCalls

\* The first response is the caller's.
LEMMA ReplyFacts ==
  ASSUME P!TypeOK, NEW c \in Calls, P!Reply(c), PairCall(c)
  PROVE  /\ call' \in [Calls -> CallType]
         /\ answers' \in [Calls -> Nat]
         /\ \A d \in Calls : d # c => call'[d] = call[d] /\ answers'[d] = answers[d]
         /\ call'[c].key = call[c].key /\ call'[c].by = call[c].by /\ call'[c].work = "replied"
         /\ call'[c].responded /\ call'[c].completed = call[c].completed /\ call'[c].active = call[c].active
         /\ call'[c].cancelQueued = call[c].cancelQueued
         /\ answers'[c] = IF call[c].responded THEN answers[c] ELSE answers[c] + 1
<1>1. call' = [call EXCEPT ![c].work = "replied", ![c].responded = TRUE]
  BY DEF P!Reply
<1>2. call \in [Calls -> CallType]
      /\ answers \in [Calls -> Nat]
  BY DEF P!TypeOK, AllKeys, CallType
<1>3. call' \in [Calls -> CallType]
  BY <1>1, <1>2, ZenonT(60) DEF CallType
<1>4. /\ \A d \in Calls : d # c => call'[d] = call[d]
      /\ call'[c].key = call[c].key /\ call'[c].by = call[c].by /\ call'[c].work = "replied"
      /\ call'[c].responded /\ call'[c].completed = call[c].completed /\ call'[c].active = call[c].active
      /\ call'[c].cancelQueued = call[c].cancelQueued
  BY <1>1, <1>2 DEF CallType
<1>5. CASE call[c].completed
  <2>1. answers' = answers /\ call[c].responded
    BY <1>5 DEF P!Reply, PairCall
  <2> QED BY <1>2, <1>3, <1>4, <2>1
<1>6. CASE ~call[c].completed
  <2>1. answers' = [d \in Calls |-> answers[d] + IF d \in {c} /\ ~call[d].responded THEN 1 ELSE 0]
    BY <1>6 DEF P!Reply, P!Answered
  <2> QED BY <1>2, <1>3, <1>4, <2>1
<1> QED BY <1>5, <1>6

\* The request was taken and no receiver took it, for want of one or a place.
LEMMA UnservedKeeps ==
  ASSUME PairInv, P!Unserved
  PROVE  PairInv' /\ \A d \in Calls : Unheard(d) => Unheard(d)'
<1>1. P!TypeOK /\ PairQueueInv /\ PairTableInv /\ HandlersInv /\ PairCalls
  BY DEF PairInv
<1>2. PICK c : c = hand.of.call
  OBVIOUS
<1>3. /\ hand.step = "taken" /\ hand.of = Request(c) /\ c \in Calls /\ ~closed /\ P!Reply(c)
      /\ hand' = [hand EXCEPT !.step = "answer"] /\ Pending(Request(c))
      /\ UNCHANGED <<closed, queue, table, receiver>>
  BY <1>1, <1>2, HandFacts DEF P!Unserved, P!Holding
<1>4. PairCall(c)
  BY <1>1, <1>3 DEF PairCalls
<1>5. hand'.step = "answer" /\ hand'.of = hand.of
  BY <1>1, <1>3 DEF P!TypeOK
<1>6. PairQueueInv' /\ \A y \in Items : y.kind # "event" => (Pending(y)' <=> Pending(y) /\ y # hand.of)
  BY <1>1, <1>3, <1>5, PairDrops
<1>7. \A d \in Calls : /\ Pending(Request(d))' <=> Pending(Request(d)) /\ d # c
                       /\ Pending(Refusal(d))' <=> Pending(Refusal(d))
                       /\ Pending(Cancelling(d))' <=> Pending(Cancelling(d))
                       /\ ~Delivering(d)'
  BY <1>3, <1>5, <1>6, ItemFacts DEF Delivering
<1>8. P!TypeOK'
  <2>1. hand' \in [step : {"idle", "taken", "deliver", "answer"}, of : P!Delivery, to : P!Receivers]
    BY <1>1, <1>3 DEF P!TypeOK
  <2> QED BY <1>1, <1>3, <1>4, <2>1, ReplyFacts DEF P!TypeOK, AllKeys, CallType
<1>9. /\ \A d \in Calls : d # c => call'[d] = call[d] /\ answers'[d] = answers[d]
      /\ call'[c].key = call[c].key /\ call'[c].by = call[c].by /\ call'[c].work = "replied"
      /\ call'[c].responded /\ call'[c].completed = call[c].completed /\ call'[c].active = call[c].active
      /\ call'[c].cancelQueued = call[c].cancelQueued
  BY <1>1, <1>3, <1>4, ReplyFacts
<1>10. PairTableInv' /\ \A d \in Calls : P!Holds(d)' <=> P!Holds(d)
  BY <1>1, <1>3, <1>9, PairTableKeeps
<1>11. HandlersInv'
  BY <1>1, <1>9, HandlersKeep
<1>12. PairCall(c)'
  BY <1>3, <1>4, <1>7, <1>9, <1>10 DEF PairCall, Unserving
<1>13. ~Unheard(c)
  BY <1>3 DEF Unheard
<1> QED BY <1>3, <1>6, <1>7, <1>8, <1>9, <1>10, <1>11, <1>12, <1>13, OneKeeps

LEMMA StartKeeps ==
  ASSUME PairInv, P!Start
  PROVE  PairInv' /\ \A d \in Calls : Unheard(d) => Unheard(d)'
<1>1. P!TypeOK /\ PairQueueInv /\ PairTableInv /\ HandlersInv /\ PairCalls
  BY DEF PairInv
<1>2. PICK c : c = hand.of.call
  OBVIOUS
<1>3. /\ hand.step = "taken" /\ hand.of = Request(c) /\ c \in Calls /\ ~closed /\ receiver # "none"
      /\ call' = [call EXCEPT ![c].active = TRUE, ![c].by = receiver]
      /\ hand' = [hand EXCEPT !.step = "deliver", !.to = receiver] /\ Pending(Request(c))
      /\ Cardinality(P!Active) < MaxHandlers
      /\ UNCHANGED <<closed, queue, table, receiver, answers>>
  BY <1>1, <1>2, HandFacts, SameCardinality DEF P!Start, P!Holding
<1>4. PairCall(c)
  BY <1>1, <1>3 DEF PairCalls
<1>5. hand'.step = "deliver" /\ hand'.of = hand.of /\ hand'.to = receiver
  BY <1>1, <1>3 DEF P!TypeOK
<1>6. PairQueueInv' /\ \A y \in Items : y.kind # "event" => (Pending(y)' <=> Pending(y) /\ y # hand.of)
  BY <1>1, <1>3, <1>5, PairDrops
<1>7. \A d \in Calls : /\ Pending(Request(d))' <=> Pending(Request(d)) /\ d # c
                       /\ Pending(Refusal(d))' <=> Pending(Refusal(d))
                       /\ Pending(Cancelling(d))' <=> Pending(Cancelling(d))
                       /\ Delivering(d)' <=> d = c
  BY <1>3, <1>5, <1>6, ItemFacts DEF Delivering
<1>8. P!TypeOK'
  <2>1. hand' \in [step : {"idle", "taken", "deliver", "answer"}, of : P!Delivery, to : P!Receivers]
    BY <1>1, <1>3 DEF P!TypeOK
  <2>2. call \in [Calls -> CallType] /\ receiver \in P!Receivers
    BY <1>1 DEF P!TypeOK, AllKeys, CallType
  <2>3. call' \in [Calls -> CallType]
    <3>1. c \in Calls /\ call' = [call EXCEPT ![c].active = TRUE, ![c].by = receiver]
      BY <1>3
    <3> QED BY <2>2, <3>1, ZenonT(60) DEF CallType
  <2> QED BY <1>1, <1>3, <2>1, <2>3 DEF P!TypeOK, AllKeys, CallType
<1>9. /\ \A d \in Calls : d # c => call'[d] = call[d]
      /\ call'[c].key = call[c].key /\ call'[c].by = receiver /\ call'[c].work = call[c].work
      /\ call'[c].responded = call[c].responded /\ call'[c].completed = call[c].completed /\ call'[c].active
      /\ call'[c].cancelQueued = call[c].cancelQueued
  BY <1>1, <1>3 DEF P!TypeOK
<1>10. PairTableInv' /\ \A d \in Calls : P!Holds(d)' <=> P!Holds(d)
  BY <1>1, <1>3, <1>9, PairTableKeeps
<1>11. HandlersInv'
  BY <1>3, <1>9, HandlersStart
<1>12. PairCall(c)'
  BY <1>3, <1>4, <1>5, <1>7, <1>9, <1>10 DEF PairCall, Unserving
<1>13. ~Unheard(c)
  BY <1>3 DEF Unheard
<1> QED BY <1>3, <1>6, <1>7, <1>8, <1>9, <1>10, <1>11, <1>12, <1>13, OneKeeps

LEMMA DeliverCancelKeeps ==
  ASSUME PairInv, P!DeliverCancel
  PROVE  PairInv' /\ \A d \in Calls : Unheard(d) => Unheard(d)'
<1>1. P!TypeOK /\ PairQueueInv /\ PairTableInv /\ HandlersInv /\ PairCalls
  BY DEF PairInv
<1>2. PICK c : c = hand.of.call
  OBVIOUS
<1>3. /\ hand.step = "taken" /\ hand.of = Cancelling(c) /\ c \in Calls /\ Pending(Cancelling(c))
      /\ call' = [call EXCEPT ![c].cancelQueued = FALSE, ![c].cancelled = TRUE]
      /\ table' = P!Retire(call', c)
      /\ hand' = P!Nothing \/ hand' = [hand EXCEPT !.step = "deliver", !.to = call[c].by]
      /\ UNCHANGED <<closed, queue, receiver, answers>>
  BY <1>1, <1>2, HandFacts DEF P!DeliverCancel, P!Holding
<1>4. PairCall(c)
  BY <1>1, <1>3 DEF PairCalls
<1>5. hand' = P!Nothing \/ (hand'.step = "deliver" /\ hand'.of = hand.of)
  BY <1>1, <1>3 DEF P!TypeOK
<1>6. PairQueueInv' /\ \A y \in Items : y.kind # "event" => (Pending(y)' <=> Pending(y) /\ y # hand.of)
  BY <1>1, <1>3, <1>5, NothingTyped, PairDrops
<1>7. \A d \in Calls : /\ Pending(Request(d))' <=> Pending(Request(d))
                       /\ Pending(Refusal(d))' <=> Pending(Refusal(d))
                       /\ Pending(Cancelling(d))' <=> Pending(Cancelling(d)) /\ d # c
                       /\ ~Delivering(d)'
  BY <1>3, <1>5, <1>6, ItemFacts, NothingTyped DEF Delivering
<1>8. /\ call' \in [Calls -> CallType]
      /\ \A d \in Calls : d # c => call'[d] = call[d]
      /\ call'[c].key = call[c].key /\ call'[c].by = call[c].by /\ call'[c].work = call[c].work
      /\ call'[c].responded = call[c].responded /\ call'[c].completed = call[c].completed
      /\ call'[c].active = call[c].active /\ ~call'[c].cancelQueued
  <2>1. call \in [Calls -> CallType]
    BY <1>1 DEF P!TypeOK, AllKeys, CallType
  <2>2. c \in Calls /\ call' = [call EXCEPT ![c].cancelQueued = FALSE, ![c].cancelled = TRUE]
    BY <1>3
  <2>3. call' \in [Calls -> CallType]
    BY <2>1, <2>2, ZenonT(60) DEF CallType
  <2> QED BY <2>1, <2>2, <2>3 DEF CallType
<1>9. P!TypeOK'
  <2>1. table' \in [AllKeys -> Calls \cup {NoCall}]
    BY <1>1, <1>3 DEF P!TypeOK, P!Retire, AllKeys
  <2>2. hand' \in [step : {"idle", "taken", "deliver", "answer"}, of : P!Delivery, to : P!Receivers]
    <3>1. call[c].by \in P!Receivers
      BY <1>1, <1>3 DEF P!TypeOK
    <3> QED BY <1>1, <1>3, <3>1, NothingTyped DEF P!TypeOK
  <2> QED BY <1>1, <1>3, <1>8, <2>1, <2>2 DEF P!TypeOK, AllKeys, CallType
<1>10. /\ PairTableInv'
       /\ \A d \in Calls : P!Holds(d)' <=> P!Holds(d) /\ ~(d = c /\ call'[c].completed)
  <2>1. \A d \in Calls : call'[d].key = call[d].key
    BY <1>8
  <2> QED BY <1>1, <1>3, <1>8, <1>9, <2>1, PairTableRetires
<1>11. HandlersInv'
  BY <1>1, <1>8, HandlersKeep
<1>12. PairCall(c)'
  BY <1>3, <1>4, <1>7, <1>8, <1>10 DEF PairCall, Unserving
<1>13. ~Unheard(c)
  BY <1>3 DEF Unheard
<1> QED BY <1>3, <1>6, <1>7, <1>8, <1>9, <1>10, <1>11, <1>12, <1>13, OneKeeps

-----------------------------------------------------------------------------
(* The receivers of the pair, answers and deadlines.                       *)

LEMMA DeliveredKeeps ==
  ASSUME PairInv, NEW r \in {"app", "forward"}, P!Delivered(r), receiver' \in P!Receivers
  PROVE  PairInv' /\ \A d \in Calls : Unheard(d) => Unheard(d)'
<1>1. P!TypeOK /\ PairQueueInv /\ PairTableInv /\ HandlersInv /\ PairCalls
  BY DEF PairInv
<1>2. /\ hand.step = "deliver" /\ hand.to = r /\ hand' = P!Nothing /\ hand'.step = "idle"
      /\ UNCHANGED <<closed, queue, table, answers>>
  BY NothingTyped DEF P!Delivered
<1>3. PairQueueInv' /\ \A y : Pending(y)' <=> Pending(y)
  BY <1>1, <1>2, PairKeeps
<1>4. \A d \in Calls : ~Delivering(d)'
  BY <1>2 DEF Delivering
<1>5. CASE hand.of.kind # "request"
  <2>1. call' = call
    BY <1>5 DEF P!Delivered
  <2>2. P!TypeOK'
    BY <1>1, <1>2, <2>1, NothingTyped DEF P!TypeOK
  <2> QED BY <1>2, <1>3, <1>4, <2>1, <2>2, RestKeeps
<1>6. CASE hand.of.kind = "request"
  <2>1. PICK c : c = hand.of.call
    OBVIOUS
  <2>2. c \in Calls /\ Delivering(c) /\ call' = [call EXCEPT ![c].work = "running"]
    BY <1>1, <1>2, <1>6, <2>1, HandFacts DEF P!Delivered, Delivering
  <2>3. PairCall(c)
    BY <1>1, <2>2 DEF PairCalls
  <2>4. call \in [Calls -> CallType]
    BY <1>1 DEF P!TypeOK, AllKeys, CallType
  <2>5. /\ call' \in [Calls -> CallType]
        /\ \A d \in Calls : d # c => call'[d] = call[d]
        /\ call'[c].key = call[c].key /\ call'[c].by = call[c].by /\ call'[c].work = "running"
        /\ call'[c].responded = call[c].responded /\ call'[c].completed = call[c].completed
        /\ call'[c].active = call[c].active /\ call'[c].cancelQueued = call[c].cancelQueued
    BY <2>2, <2>4 DEF CallType
  <2>6. P!TypeOK'
    BY <1>1, <1>2, <2>5, NothingTyped DEF P!TypeOK, AllKeys, CallType
  <2>7. PairTableInv' /\ \A d \in Calls : P!Holds(d)' <=> P!Holds(d)
    BY <1>1, <1>2, <2>5, PairTableKeeps
  <2>8. HandlersInv'
    BY <1>1, <2>5, HandlersKeep
  <2>9. PairCall(c)'
    BY <1>2, <1>3, <1>4, <2>2, <2>3, <2>5, <2>7 DEF PairCall, Unserving
  <2>10. ~Unheard(c)
    BY <2>2 DEF Unheard
  <2>11. \A d \in Calls : d # c =>
           /\ call'[d] = call[d] /\ answers'[d] = answers[d] /\ (P!Holds(d)' <=> P!Holds(d))
           /\ Pending(Request(d))' => Pending(Request(d))
           /\ Pending(Refusal(d))' => Pending(Refusal(d))
           /\ Pending(Cancelling(d))' <=> Pending(Cancelling(d))
           /\ Delivering(d)' => Delivering(d) /\ hand' = hand
    BY <1>2, <1>3, <1>4, <2>5, <2>7
  <2> QED BY <1>2, <1>3, <2>2, <2>6, <2>7, <2>8, <2>9, <2>10, <2>11, OneKeeps
<1> QED BY <1>5, <1>6

\* Whoever answers: the loop for a receiver that would not, or the body.
LEMMA RepliedKeeps ==
  ASSUME PairInv, NEW c \in Calls, P!Reply(c), Delivering(c) \/ call[c].work = "running",
         UNCHANGED <<closed, queue, table>>, receiver' \in P!Receivers,
         hand' = hand \/ (hand' = [hand EXCEPT !.step = "answer"] /\ hand.step = "deliver"),
         Delivering(c) => hand' # hand
  PROVE  PairInv' /\ \A d \in Calls : Unheard(d) => Unheard(d)'
<1>1. P!TypeOK /\ PairQueueInv /\ PairTableInv /\ HandlersInv /\ PairCalls /\ PairCall(c)
  BY DEF PairInv, PairCalls
<1>2. hand' = hand \/ (hand'.step = "answer" /\ hand'.of = hand.of /\ hand.step = "deliver")
  BY <1>1 DEF P!TypeOK
<1>3. PairQueueInv' /\ \A y : Pending(y)' <=> Pending(y)
  BY <1>1, <1>2, PairKeeps
<1>4. /\ \A d \in Calls : Delivering(d)' => Delivering(d) /\ hand' = hand
      /\ ~Delivering(c)'
  BY <1>2 DEF Delivering
<1>5. /\ call' \in [Calls -> CallType] /\ answers' \in [Calls -> Nat]
      /\ \A d \in Calls : d # c => call'[d] = call[d] /\ answers'[d] = answers[d]
      /\ call'[c].key = call[c].key /\ call'[c].by = call[c].by /\ call'[c].work = "replied"
      /\ call'[c].responded /\ call'[c].completed = call[c].completed /\ call'[c].active = call[c].active
      /\ call'[c].cancelQueued = call[c].cancelQueued
  BY <1>1, ReplyFacts
<1>6. P!TypeOK'
  <2>1. hand' \in [step : {"idle", "taken", "deliver", "answer"}, of : P!Delivery, to : P!Receivers]
    BY <1>1 DEF P!TypeOK
  <2> QED BY <1>1, <1>5, <2>1 DEF P!TypeOK, AllKeys, CallType
<1>7. PairTableInv' /\ \A d \in Calls : P!Holds(d)' <=> P!Holds(d)
  BY <1>1, <1>5, PairTableKeeps
<1>8. HandlersInv'
  BY <1>1, <1>5, HandlersKeep
<1>9. PairCall(c)' /\ ~Unheard(c)
  BY <1>1, <1>3, <1>4, <1>5, <1>7 DEF PairCall, Unserving, Unheard
<1>10. \A d \in Calls : d # c =>
         /\ call'[d] = call[d] /\ answers'[d] = answers[d] /\ (P!Holds(d)' <=> P!Holds(d))
         /\ Pending(Request(d))' => Pending(Request(d))
         /\ Pending(Refusal(d))' => Pending(Refusal(d))
         /\ Pending(Cancelling(d))' <=> Pending(Cancelling(d))
         /\ Delivering(d)' => Delivering(d) /\ hand' = hand
  BY <1>3, <1>4, <1>5, <1>7
<1> QED BY <1>3, <1>6, <1>7, <1>8, <1>9, <1>10, OneKeeps

LEMMA AnswerKeeps ==
  ASSUME PairInv, NEW c \in Calls, P!Answer(c)
  PROVE  PairInv' /\ \A d \in Calls : Unheard(d) => Unheard(d)'
<1>1. P!Reply(c) /\ call[c].work = "running" /\ UNCHANGED <<closed, queue, table, hand, receiver>>
  BY DEF P!Answer
<1>2. receiver' \in P!Receivers /\ PairCall(c)
  BY <1>1 DEF PairInv, P!TypeOK, PairCalls
<1>3. ~Delivering(c)
  BY <1>1, <1>2 DEF PairCall
<1> QED BY <1>1, <1>2, <1>3, RepliedKeeps

LEMMA UndeliveredKeeps ==
  ASSUME PairInv, NEW r, P!Undelivered(r), receiver' \in P!Receivers
  PROVE  PairInv' /\ \A d \in Calls : Unheard(d) => Unheard(d)'
<1>1. PICK c : c = hand.of.call
  OBVIOUS
<1>2. P!TypeOK
  BY DEF PairInv
<1>3. /\ P!Reply(c) /\ c \in Calls /\ Delivering(c) /\ hand.step = "deliver"
      /\ hand' = [hand EXCEPT !.step = "answer"] /\ UNCHANGED <<closed, queue, table>>
  BY <1>1, <1>2, HandFacts DEF P!Undelivered, P!Holding, Delivering
<1>4. hand' # hand
  <2>1. hand'.step = "answer"
    BY <1>2, <1>3 DEF P!TypeOK
  <2> QED BY <1>3, <2>1
<1> QED BY <1>3, <1>4, RepliedKeeps

LEMMA CompleteKeeps ==
  ASSUME PairInv, NEW c \in Calls, P!Complete(c)
  PROVE  PairInv' /\ \A d \in Calls : Unheard(d) => Unheard(d)'
<1>1. P!TypeOK /\ PairQueueInv /\ PairTableInv /\ HandlersInv /\ PairCalls /\ PairCall(c)
  BY DEF PairInv, PairCalls
<1>2. /\ call[c].work = "replied"
      /\ call' = [call EXCEPT ![c].work = "done", ![c].completed = TRUE,
                              ![c].active = @ /\ call[c].completed]
      /\ table' = P!Retire(call', c)
      /\ hand' = hand \/ (hand' = P!Nothing /\ hand.step = "answer")
      /\ UNCHANGED <<closed, queue, receiver, answers>>
  BY DEF P!Complete
<1>3. PairQueueInv' /\ \A y : Pending(y)' <=> Pending(y)
  BY <1>1, <1>2, NothingTyped, PairKeeps
<1>4. /\ \A d \in Calls : Delivering(d)' => Delivering(d) /\ hand' = hand
      /\ ~Delivering(c)'
  BY <1>1, <1>2, NothingTyped DEF Delivering, PairCall
<1>5. call \in [Calls -> CallType]
  BY <1>1 DEF P!TypeOK, AllKeys, CallType
<1>6. /\ call' \in [Calls -> CallType]
      /\ \A d \in Calls : d # c => call'[d] = call[d]
      /\ call'[c].key = call[c].key /\ call'[c].by = call[c].by /\ call'[c].work = "done"
      /\ call'[c].responded = call[c].responded /\ call'[c].completed
      /\ call'[c].active <=> call[c].active /\ call[c].completed
      /\ call'[c].cancelQueued = call[c].cancelQueued
  <2>1. call' = [call EXCEPT ![c] = [@ EXCEPT !.work = "done", !.completed = TRUE,
                                              !.active = call[c].active /\ call[c].completed]]
    BY <1>2, <1>5 DEF CallType
  <2>2. call'[c] = [call[c] EXCEPT !.work = "done", !.completed = TRUE,
                                   !.active = call[c].active /\ call[c].completed]
    BY <1>5, <2>1
  <2>3. call[c] \in CallType /\ (call[c].active /\ call[c].completed) \in BOOLEAN
    BY <1>5
  <2>4. call'[c] \in CallType
    BY <2>2, <2>3 DEF CallType
  <2> QED BY <1>5, <2>1, <2>2, <2>3, <2>4 DEF CallType
<1>7. P!TypeOK'
  <2>1. table' \in [AllKeys -> Calls \cup {NoCall}]
    BY <1>1, <1>2 DEF P!TypeOK, P!Retire, AllKeys
  <2>2. hand' \in [step : {"idle", "taken", "deliver", "answer"}, of : P!Delivery, to : P!Receivers]
    BY <1>1, <1>2, NothingTyped DEF P!TypeOK
  <2>3. call' \in [Calls -> CallType] /\ UNCHANGED <<closed, queue, receiver, answers>>
    BY <1>2, <1>6
  <2> QED BY <1>1, <2>1, <2>2, <2>3 DEF P!TypeOK, AllKeys, CallType
<1>8. /\ PairTableInv'
      /\ \A d \in Calls : P!Holds(d)' <=> P!Holds(d) /\ ~(d = c /\ ~call'[c].cancelQueued)
  <2>1. \A d \in Calls : call'[d].key = call[d].key
    BY <1>6
  <2> QED BY <1>1, <1>2, <1>6, <1>7, <2>1, PairTableRetires
<1>9. HandlersInv'
  <2>1. \A d \in Calls : call'[d].active => call[d].active
    BY <1>6
  <2> QED BY <1>1, <2>1, HandlersKeep
<1>10. PairCall(c)' /\ ~Unheard(c)
  BY <1>1, <1>2, <1>3, <1>4, <1>6, <1>8 DEF PairCall, Unserving, Unheard
<1>11. \A d \in Calls : d # c =>
         /\ call'[d] = call[d] /\ answers'[d] = answers[d] /\ (P!Holds(d)' <=> P!Holds(d))
         /\ Pending(Request(d))' => Pending(Request(d))
         /\ Pending(Refusal(d))' => Pending(Refusal(d))
         /\ Pending(Cancelling(d))' <=> Pending(Cancelling(d))
         /\ Delivering(d)' => Delivering(d) /\ hand' = hand
  BY <1>2, <1>3, <1>4, <1>6, <1>8
<1> QED BY <1>2, <1>3, <1>7, <1>8, <1>9, <1>10, <1>11, OneKeeps

LEMMA TimeoutKeeps ==
  ASSUME PairInv, NEW c \in Calls, P!Timeout(c)
  PROVE  PairInv' /\ \A d \in Calls : Unheard(d) => Unheard(d)'
<1>1. P!TypeOK /\ PairQueueInv /\ PairTableInv /\ HandlersInv /\ PairCalls /\ PairCall(c)
  BY DEF PairInv, PairCalls
<1> DEFINE cancels == ~call[c].cancelQueued /\ ~call[c].cancelled
<1>2. /\ ~closed /\ call[c].by # "none" /\ ~call[c].completed
      /\ call' = [call EXCEPT ![c].responded = TRUE, ![c].cancelQueued = @ \/ cancels]
      /\ queue' = IF cancels THEN Append(queue, Cancelling(c)) ELSE queue
      /\ answers' = [d \in Calls |-> answers[d] + IF d \in {c} /\ ~call[d].responded THEN 1 ELSE 0]
      /\ UNCHANGED <<closed, table, hand, receiver>>
  BY DEF P!Timeout, P!Answered, Cancelling
<1>3. P!Holds(c) /\ (call[c].cancelQueued <=> Pending(Cancelling(c)))
  BY <1>1, <1>2 DEF PairCall
<1>4. /\ PairQueueInv' /\ queue' \in Seq(Items)
      /\ \A d \in Calls : /\ Pending(Request(d))' <=> Pending(Request(d))
                          /\ Pending(Refusal(d))' <=> Pending(Refusal(d))
                          /\ Pending(Cancelling(d))' <=> Pending(Cancelling(d)) \/ (d = c /\ cancels)
                          /\ Delivering(d)' <=> Delivering(d)
  <2>1. CASE cancels
    <3>1. PairQueueInv' /\ queue' \in Seq(Items) /\ \A y : Pending(y)' <=> Pending(y) \/ y = Cancelling(c)
      BY <1>1, <1>2, <1>3, <2>1, ItemFacts, PairAppends
    <3> QED BY <1>2, <2>1, <3>1, ItemFacts DEF Delivering
  <2>2. CASE ~cancels
    <3>1. PairQueueInv' /\ \A y : Pending(y)' <=> Pending(y)
      BY <1>1, <1>2, <2>2, PairKeeps
    <3>2. queue' \in Seq(Items)
      BY <1>1, <1>2, <2>2, SameItems DEF P!TypeOK
    <3> QED BY <1>2, <2>2, <3>1, <3>2 DEF Delivering
  <2> QED BY <2>1, <2>2
<1>5. call \in [Calls -> CallType]
  BY <1>1 DEF P!TypeOK, AllKeys, CallType
<1>6. /\ call' \in [Calls -> CallType]
      /\ \A d \in Calls : d # c => call'[d] = call[d]
      /\ call'[c].key = call[c].key /\ call'[c].by = call[c].by /\ call'[c].work = call[c].work
      /\ call'[c].responded /\ call'[c].completed = call[c].completed
      /\ call'[c].active = call[c].active
      /\ call'[c].cancelQueued <=> call[c].cancelQueued \/ cancels
  <2>1. call'[c] = [call[c] EXCEPT !.responded = TRUE, !.cancelQueued = call[c].cancelQueued \/ cancels]
    BY <1>2, <1>5 DEF CallType
  <2>2. \A d \in Calls : d # c => call'[d] = call[d]
    BY <1>2, <1>5
  <2>3. call[c] \in CallType /\ (call[c].cancelQueued \/ cancels) \in BOOLEAN
    BY <1>5
  <2>4. call'[c] \in CallType
    BY <2>1, <2>3 DEF CallType
  <2>5. call' \in [Calls -> CallType]
    <3>1. call' = [d \in Calls |-> call'[d]]
      BY <1>2, <1>5
    <3>2. \A d \in Calls : call'[d] \in CallType
      BY <1>5, <2>2, <2>4
    <3> QED BY <3>1, <3>2
  <2> QED BY <2>1, <2>2, <2>3, <2>5 DEF CallType
<1>7. answers' \in [Calls -> Nat] /\ \A d \in Calls : d # c => answers'[d] = answers[d]
  BY <1>1, <1>2 DEF P!TypeOK
<1>8. P!TypeOK'
  BY <1>1, <1>2, <1>4, <1>6, <1>7, SameItems DEF P!TypeOK, AllKeys, CallType
<1>9. PairTableInv' /\ \A d \in Calls : P!Holds(d)' <=> P!Holds(d)
  BY <1>1, <1>2, <1>6, PairTableKeeps
<1>10. HandlersInv'
  BY <1>1, <1>6, HandlersKeep
<1>11. PairCall(c)' /\ ~Unheard(c)
  BY <1>1, <1>2, <1>3, <1>4, <1>6, <1>9 DEF PairCall, Unserving, Unheard
<1>12. \A d \in Calls : d # c =>
         /\ call'[d] = call[d] /\ answers'[d] = answers[d] /\ (P!Holds(d)' <=> P!Holds(d))
         /\ Pending(Request(d))' => Pending(Request(d))
         /\ Pending(Refusal(d))' => Pending(Refusal(d))
         /\ Pending(Cancelling(d))' <=> Pending(Cancelling(d))
         /\ Delivering(d)' => Delivering(d) /\ hand' = hand
  BY <1>2, <1>4, <1>6, <1>7, <1>9
<1> QED BY <1>2, <1>4, <1>8, <1>9, <1>10, <1>11, <1>12, OneKeeps

-----------------------------------------------------------------------------
(* The wire's queue and table.                                             *)

RemoteType ==
  [key : AllKeys, stage : W!Stages, completed : BOOLEAN, cancelQueued : BOOLEAN, cancelled : BOOLEAN]

LEMMA WireTyped ==
  ASSUME W!TypeOK
  PROVE  /\ remote \in [Calls -> RemoteType] /\ slots \in [AllKeys -> Calls \cup {NoCall}]
         /\ frames \in Seq(Items) /\ carried \in Items \cup {W!Nothing}
         /\ down \in BOOLEAN /\ swept \in BOOLEAN
BY SameItems DEF W!TypeOK, AllKeys, RemoteType

LEMMA WireTypes ==
  ASSUME remote \in [Calls -> RemoteType], slots \in [AllKeys -> Calls \cup {NoCall}],
         frames \in Seq(Items), carried \in Items \cup {W!Nothing},
         down \in BOOLEAN, swept \in BOOLEAN
  PROVE  W!TypeOK
BY SameItems DEF W!TypeOK, AllKeys, RemoteType

LEMMA NothingCarried == W!Nothing \notin Items /\ W!Nothing.kind = "none"
BY KindFacts DEF W!Nothing

LEMMA CarriedFacts ==
  ASSUME W!TypeOK, carried.kind # "none"
  PROVE  /\ carried \in Items /\ Going(carried)
         /\ carried.kind # "event" => carried.call \in Calls
         /\ carried.kind = "request" => carried = Request(carried.call)
         /\ carried.kind = "refusal" => carried = Refusal(carried.call)
         /\ carried.kind = "cancel" => carried = Cancelling(carried.call)
BY WireTyped, NothingCarried, KindFacts DEF Going

LEMMA WireAppends ==
  ASSUME W!TypeOK, WireQueueInv, ~down, UNCHANGED <<swept, carried>>, NEW x \in Items,
         frames' = Append(frames, x),
         x.kind = "event" \/ ~Going(x), x.kind = "cancel" \/ ~W!Full
  PROVE  /\ WireQueueInv' /\ frames' \in Seq(Items)
         /\ \A y : Going(y)' <=> Going(y) \/ y = x
<1>1. frames \in Seq(Items) /\ frames' \in Seq(Items)
  BY WireTyped, AppendParts
<1>2. /\ \A y : In(frames', y) <=> In(frames, y) \/ y = x
      /\ Single(frames')
      /\ x.kind = "cancel" => Cardinality(Weight(frames')) = Cardinality(Weight(frames))
      /\ x.kind # "cancel" => Cardinality(Weight(frames')) = Cardinality(Weight(frames)) + 1
  BY <1>1, Appends DEF WireQueueInv, Going
<1>3. \A y : Going(y)' <=> Going(y) \/ y = x
  BY <1>2 DEF Going
<1>4. Cardinality(Weight(frames')) <= WireCapacity
  <2>1. x.kind # "cancel" => ~(Cardinality(Weight(frames)) >= WireCapacity)
    BY SameData DEF W!Full
  <2>2. Cardinality(Weight(frames)) \in Nat /\ WireCapacity \in Nat
    BY <1>1, WeightFinite, ForwardAssumption
  <2> QED BY <1>2, <2>1, <2>2 DEF WireQueueInv
<1>5. \A y \in Items : y.kind # "event" /\ carried' = y => ~In(frames', y)
  BY <1>2 DEF WireQueueInv, Going
<1>6. ~swept
  BY DEF WireQueueInv
<1> QED BY <1>1, <1>2, <1>3, <1>4, <1>5, <1>6 DEF WireQueueInv

LEMMA WireTakes ==
  ASSUME W!TypeOK, WireQueueInv, W!Take
  PROVE  /\ WireQueueInv' /\ frames' \in Seq(Items) /\ carried' \in Items
         /\ \A y \in Items : Going(y)' <=> Going(y)
<1>1. /\ frames \in Seq(Items) /\ frames # <<>> /\ Single(frames) /\ frames' = Tail(frames)
      /\ carried = W!Nothing /\ carried' = Head(frames) /\ swept' = swept /\ ~swept
  BY WireTyped DEF W!Take, WireQueueInv
<1>2. frames' \in Seq(Items) /\ carried' \in Items /\ carried' = frames[1]
  BY <1>1, TailParts
<1>3. /\ \A y : In(frames, y) <=> In(frames', y) \/ y = frames[1]
      /\ frames[1].kind # "event" => ~In(frames', frames[1])
      /\ Single(frames') /\ Cardinality(Weight(frames')) <= Cardinality(Weight(frames))
  BY <1>1, Tails
<1>4. \A y \in Items : Going(y)' <=> Going(y)
  BY <1>1, <1>2, <1>3, NothingCarried DEF Going
<1>5. Cardinality(Weight(frames')) <= WireCapacity
  <2>1. Cardinality(Weight(frames)) \in Nat /\ Cardinality(Weight(frames')) \in Nat /\ WireCapacity \in Nat
    BY <1>1, <1>2, WeightFinite, ForwardAssumption
  <2> QED BY <1>3, <2>1 DEF WireQueueInv
<1> QED BY <1>1, <1>2, <1>3, <1>4, <1>5 DEF WireQueueInv

LEMMA WireDrops ==
  ASSUME W!TypeOK, WireQueueInv, UNCHANGED <<swept, frames>>, down => down',
         carried.kind # "none", carried' = W!Nothing
  PROVE  WireQueueInv' /\ \A y \in Items : y.kind # "event" => (Going(y)' <=> Going(y) /\ y # carried)
BY CarriedFacts, NothingCarried DEF WireQueueInv, Going

LEMMA WireKeeps ==
  ASSUME WireQueueInv, UNCHANGED <<swept, frames, carried>>, down => down'
  PROVE  WireQueueInv' /\ \A y : Going(y)' <=> Going(y)
BY DEF WireQueueInv, Going

LEMMA WireSlotsFinite == IsFiniteSet(W!Slots) /\ Cardinality(W!Slots) \in Nat
<1>1. W!Slots \in SUBSET AllKeys
  BY DEF W!Slots, AllKeys
<1>2. IsFiniteSet(W!Slots)
  BY <1>1, KeysFinite, FS_Subset
<1> QED BY <1>1, <1>2, FS_CardinalityType

LEMMA WireCallsTyped ==
  ASSUME W!TypeOK
  PROVE  /\ \A d \in Calls : remote[d].key \in AllKeys /\ (W!Holds(d) <=> slots[remote[d].key] = d)
         /\ \A k \in AllKeys : slots[k] \in Calls \cup {NoCall}
BY WireTyped DEF W!Holds, RemoteType

LEMMA WireTableAdds ==
  ASSUME W!TypeOK, W!TypeOK', WireTableInv, ~swept, ~swept',
         NEW c \in Calls, NEW k \in AllKeys, ~W!Holds(c),
         slots[k] = NoCall, Cardinality(W!Slots) < WirePending,
         slots' = [slots EXCEPT ![k] = c],
         \A d \in Calls : remote'[d].key = IF d = c THEN k ELSE remote[d].key
  PROVE  WireTableInv' /\ \A d \in Calls : W!Holds(d)' <=> d = c \/ W!Holds(d)
<1>1. NoCall \notin Calls /\ WirePending \in Nat
  BY ForwardAssumption
<1>2. \A j \in AllKeys : slots[j] \in Calls \cup {NoCall} /\ slots'[j] = IF j = k THEN c ELSE slots[j]
  BY WireTyped
<1>3. \A d \in Calls : W!Holds(d)' <=> d = c \/ W!Holds(d)
  <2> TAKE d \in Calls
  <2>1. (W!Holds(d)' <=> slots'[remote'[d].key] = d) /\ (W!Holds(d) <=> slots[remote[d].key] = d)
        /\ remote[d].key \in AllKeys
    BY WireCallsTyped DEF W!Holds
  <2> QED BY <1>1, <1>2, <2>1
<1>4. W!Slots' = W!Slots \cup {k} /\ k \notin W!Slots
  BY <1>1, <1>2 DEF W!Slots, AllKeys
<1>5. Cardinality(W!Slots') <= WirePending
  <2>1. Cardinality(W!Slots') = Cardinality(W!Slots) + 1
    BY <1>4, WireSlotsFinite, FS_AddElement
  <2> QED BY <1>1, <2>1, WireSlotsFinite
<1>6. \A j \in AllKeys : slots'[j] # NoCall => remote'[slots'[j]].key = j
  <2> SUFFICES ASSUME NEW j \in AllKeys, slots'[j] # NoCall PROVE remote'[slots'[j]].key = j
    OBVIOUS
  <2>1. CASE j = k
    BY <1>2, <2>1
  <2>2. CASE j # k
    <3>1. slots'[j] = slots[j] /\ slots[j] \in Calls /\ remote[slots[j]].key = j
      BY <1>2, <2>2 DEF WireTableInv
    <3>2. slots[j] # c
      BY <3>1, WireCallsTyped
    <3> QED BY <3>1, <3>2
  <2> QED BY <2>1, <2>2
<1> QED BY <1>3, <1>5, <1>6 DEF WireTableInv

LEMMA WireTableRetires ==
  ASSUME W!TypeOK, W!TypeOK', WireTableInv, swept' = swept, NEW c \in Calls,
         slots' = W!Retire(remote', c), \A d \in Calls : remote'[d].key = remote[d].key
  PROVE  /\ WireTableInv'
         /\ \A d \in Calls : W!Holds(d)' <=>
              W!Holds(d) /\ ~(d = c /\ remote'[c].completed /\ ~remote'[c].cancelQueued)
<1>1. NoCall \notin Calls /\ WirePending \in Nat
  BY ForwardAssumption
<1> DEFINE gone == remote'[c].completed /\ ~remote'[c].cancelQueued /\ W!Holds(c)
           k == remote[c].key
<1>2. \A j \in AllKeys : /\ slots[j] \in Calls \cup {NoCall}
                         /\ slots'[j] = IF gone /\ j = k THEN NoCall ELSE slots[j]
  <2>1. slots' = IF gone THEN [slots EXCEPT ![k] = NoCall] ELSE slots
    BY DEF W!Retire, W!Holds
  <2>2. slots \in [AllKeys -> Calls \cup {NoCall}] /\ k \in AllKeys
    BY WireCallsTyped, WireTyped
  <2> QED BY <2>1, <2>2
<1>3. ASSUME NEW d \in Calls
      PROVE  W!Holds(d)' <=> W!Holds(d) /\ ~(d = c /\ remote'[c].completed /\ ~remote'[c].cancelQueued)
  <2>1. (W!Holds(d)' <=> slots'[remote'[d].key] = d) /\ (W!Holds(d) <=> slots[remote[d].key] = d)
        /\ remote[d].key \in AllKeys /\ remote'[d].key = remote[d].key /\ (W!Holds(c) <=> slots[k] = c)
    BY WireCallsTyped DEF W!Holds
  <2> QED BY <1>1, <1>2, <2>1
<1>4. \A j \in AllKeys : slots'[j] # NoCall => slots[j] = slots'[j] /\ slots[j] \in Calls
  BY <1>2
<1>5. Cardinality(W!Slots') <= WirePending
  <2>1. W!Slots' \in SUBSET W!Slots
    BY <1>4 DEF W!Slots, AllKeys
  <2>2. Cardinality(W!Slots') <= Cardinality(W!Slots) /\ Cardinality(W!Slots') \in Nat
    BY <2>1, WireSlotsFinite, FS_Subset, FS_CardinalityType
  <2> QED BY <1>1, <2>2, WireSlotsFinite DEF WireTableInv
<1> QED BY <1>3, <1>4, <1>5 DEF WireTableInv

\* A call without a slot may take another return address.
LEMMA WireTableKeeps ==
  ASSUME W!TypeOK, W!TypeOK', WireTableInv, swept' = swept, slots' = slots, NEW c \in Calls,
         \A d \in Calls : remote'[d].key = remote[d].key \/ (d = c /\ ~W!Holds(c))
  PROVE  WireTableInv' /\ \A d \in Calls : W!Holds(d)' <=> W!Holds(d)
<1>1. NoCall \notin Calls
  BY ForwardAssumption
<1>2. ASSUME NEW d \in Calls PROVE W!Holds(d)' <=> W!Holds(d)
  <2>1. CASE remote'[d].key = remote[d].key
    BY <2>1 DEF W!Holds
  <2>2. CASE remote'[d].key # remote[d].key
    <3>1. d = c /\ ~W!Holds(c)
      BY <2>2
    <3>2. remote'[d].key \in AllKeys /\ (W!Holds(d)' <=> slots[remote'[d].key] = d)
      BY WireTyped DEF W!Holds, RemoteType, W!TypeOK, AllKeys
    <3>3. slots[remote'[d].key] = d => remote[d].key = remote'[d].key
      BY <1>1, <3>2 DEF WireTableInv
    <3> QED BY <2>2, <3>1, <3>2, <3>3
  <2> QED BY <2>1, <2>2
<1>3. W!Slots' = W!Slots
  BY DEF W!Slots
<1>4. \A k \in AllKeys : slots'[k] # NoCall => ~swept' /\ remote'[slots'[k]].key = k
  <2> SUFFICES ASSUME NEW k \in AllKeys, slots[k] # NoCall PROVE ~swept /\ remote'[slots[k]].key = k
    OBVIOUS
  <2>1. slots[k] \in Calls /\ ~swept /\ remote[slots[k]].key = k /\ W!Holds(slots[k])
    BY WireCallsTyped DEF WireTableInv
  <2> QED BY <2>1
<1> QED BY <1>2, <1>3, <1>4 DEF WireTableInv

\* A step that changes one call on the wire.
LEMMA OneOnWire ==
  ASSUME WireInv, swept' = swept, NEW c \in Calls, WireCall(c)',
         W!TypeOK', WireQueueInv', WireTableInv',
         \A d \in Calls : d # c =>
           /\ remote'[d] = remote[d] /\ (W!Holds(d)' <=> W!Holds(d))
           /\ Going(Request(d))' => Going(Request(d))
           /\ Going(Refusal(d))' => Going(Refusal(d))
           /\ Going(Cancelling(d))' <=> Going(Cancelling(d))
  PROVE  WireInv'
<1>1. \A d \in Calls : d # c => WireCall(d)'
  BY DEF WireInv, WireCall, WireCalls
<1> QED BY <1>1 DEF WireInv, WireCalls

\* A step that changes none.
LEMMA NoneOnWire ==
  ASSUME WireInv, UNCHANGED <<swept, slots, remote>>, down => down', down' \in BOOLEAN,
         frames' \in Seq(Items), carried' \in Items \cup {W!Nothing}, WireQueueInv',
         \A d \in Calls : /\ Going(Request(d))' => Going(Request(d))
                          /\ Going(Refusal(d))' => Going(Refusal(d))
                          /\ Going(Cancelling(d))' <=> Going(Cancelling(d))
  PROVE  WireInv'
<1>1. W!TypeOK /\ WireTableInv /\ WireCalls
  BY DEF WireInv
<1>2. W!TypeOK'
  BY <1>1, SameItems, WireTyped DEF W!TypeOK
<1>3. WireTableInv'
  BY <1>1 DEF WireTableInv, W!Slots
<1>4. \A d \in Calls : W!Holds(d)' <=> W!Holds(d)
  BY DEF W!Holds
<1>5. \A d \in Calls : WireCall(d)'
  BY <1>1, <1>4 DEF WireCall, WireCalls
<1> QED BY <1>2, <1>3, <1>5 DEF WireInv, WireCalls

-----------------------------------------------------------------------------
(* The steps of the wire.                                                  *)

LEMMA WireAdmitKeeps ==
  ASSUME WireInv, NEW c \in Calls, NEW k \in AllKeys, W!Admit(c, k)
  PROVE  /\ WireInv' /\ remote'[c].key = k /\ remote'[c].stage \in {"queued", "refused"}
         /\ \A d \in Calls : d # c => remote'[d] = remote[d] /\ (W!Holds(d)' <=> W!Holds(d))
<1>1. W!TypeOK /\ WireQueueInv /\ WireTableInv /\ WireCall(c)
  BY DEF WireInv, WireCalls
<1>2. ~down /\ ~W!Full /\ remote[c].stage = "unsent" /\ UNCHANGED <<down, swept, carried>>
  BY DEF W!Admit
<1>3. ~swept /\ ~W!Holds(c) /\ ~Going(Request(c)) /\ ~Going(Refusal(c)) /\ ~Going(Cancelling(c))
  BY <1>1, <1>2 DEF WireQueueInv, WireCall
<1>4. remote \in [Calls -> RemoteType] /\ slots \in [AllKeys -> Calls \cup {NoCall}]
      /\ carried \in Items \cup {W!Nothing} /\ down \in BOOLEAN /\ swept \in BOOLEAN
  BY <1>1, WireTyped
<1>5. \A stage \in {"queued", "refused"} :
        /\ W!Fresh(k, stage) \in RemoteType /\ W!Fresh(k, stage).key = k /\ W!Fresh(k, stage).stage = stage
        /\ ~W!Fresh(k, stage).completed /\ ~W!Fresh(k, stage).cancelQueued
  BY DEF W!Fresh, RemoteType, W!Stages
<1>6. CASE /\ slots[k] = NoCall /\ W!Cardinality(W!Slots) < WirePending
           /\ slots' = [slots EXCEPT ![k] = c]
           /\ remote' = [remote EXCEPT ![c] = W!Fresh(k, "queued")]
           /\ frames' = Append(frames, Request(c))
  <2>1. WireQueueInv' /\ frames' \in Seq(Items) /\ \A y : Going(y)' <=> Going(y) \/ y = Request(c)
    BY <1>1, <1>2, <1>3, <1>6, ItemFacts, WireAppends
  <2>2. /\ remote' \in [Calls -> RemoteType] /\ slots' \in [AllKeys -> Calls \cup {NoCall}]
        /\ \A d \in Calls : remote'[d] = IF d = c THEN W!Fresh(k, "queued") ELSE remote[d]
    BY <1>4, <1>5, <1>6
  <2>3. W!TypeOK'
    BY <1>2, <1>4, <2>1, <2>2, SameItems DEF W!TypeOK, AllKeys, RemoteType
  <2>4. WireTableInv' /\ \A d \in Calls : W!Holds(d)' <=> d = c \/ W!Holds(d)
    <3>1. Cardinality(W!Slots) < WirePending
      BY <1>6, SameCardinality
    <3>2. \A d \in Calls : remote'[d].key = IF d = c THEN k ELSE remote[d].key
      BY <1>5, <2>2
    <3> QED BY <1>1, <1>2, <1>3, <1>6, <2>3, <3>1, <3>2, WireTableAdds
  <2>5. \A d \in Calls : /\ Going(Request(d))' <=> Going(Request(d)) \/ d = c
                         /\ Going(Refusal(d))' <=> Going(Refusal(d))
                         /\ Going(Cancelling(d))' <=> Going(Cancelling(d))
    BY <2>1, ItemFacts
  <2>6. WireCall(c)'
    BY <1>2, <1>3, <1>5, <2>2, <2>4, <2>5 DEF WireCall
  <2>7. WireInv'
    BY <1>2, <2>1, <2>2, <2>3, <2>4, <2>5, <2>6, OneOnWire
  <2> QED BY <1>5, <2>2, <2>4, <2>7
<1>7. CASE /\ frames' = Append(frames, Refusal(c))
           /\ remote' = [remote EXCEPT ![c] = W!Fresh(k, "refused")]
           /\ slots' = slots
  <2>1. WireQueueInv' /\ frames' \in Seq(Items) /\ \A y : Going(y)' <=> Going(y) \/ y = Refusal(c)
    BY <1>1, <1>2, <1>3, <1>7, ItemFacts, WireAppends
  <2>2. /\ remote' \in [Calls -> RemoteType]
        /\ \A d \in Calls : remote'[d] = IF d = c THEN W!Fresh(k, "refused") ELSE remote[d]
    BY <1>4, <1>5, <1>7
  <2>3. W!TypeOK'
    BY <1>1, <1>2, <1>4, <1>7, <2>1, <2>2, SameItems DEF W!TypeOK, AllKeys, RemoteType
  <2>4. WireTableInv' /\ \A d \in Calls : W!Holds(d)' <=> W!Holds(d)
    <3>1. \A d \in Calls : remote'[d].key = remote[d].key \/ (d = c /\ ~W!Holds(c))
      BY <1>3, <2>2
    <3> QED BY <1>1, <1>2, <1>7, <2>3, <3>1, WireTableKeeps
  <2>5. \A d \in Calls : /\ Going(Request(d))' <=> Going(Request(d))
                         /\ Going(Refusal(d))' <=> Going(Refusal(d)) \/ d = c
                         /\ Going(Cancelling(d))' <=> Going(Cancelling(d))
    BY <2>1, ItemFacts
  <2>6. WireCall(c)'
    BY <1>2, <1>3, <1>5, <2>2, <2>4, <2>5 DEF WireCall
  <2>7. WireInv'
    BY <1>2, <2>1, <2>2, <2>3, <2>4, <2>5, <2>6, OneOnWire
  <2> QED BY <1>5, <2>2, <2>4, <2>7
<1> QED BY <1>6, <1>7 DEF W!Admit, Request, Refusal

LEMMA WireEventKeeps ==
  ASSUME WireInv, W!AdmitEvent
  PROVE  WireInv'
<1> DEFINE x == [kind |-> "event", call |-> NoCall]
<1>1. /\ ~down /\ ~W!Full /\ frames' = Append(frames, x)
      /\ UNCHANGED <<down, swept, slots, remote, carried>>
  BY DEF W!AdmitEvent
<1>2. W!TypeOK /\ WireQueueInv
  BY DEF WireInv
<1>3. x \in Items /\ x.kind = "event"
  BY DEF Items
<1>4. WireQueueInv' /\ frames' \in Seq(Items) /\ \A y : Going(y)' <=> Going(y) \/ y = x
  BY <1>1, <1>2, <1>3, WireAppends
<1> HIDE DEF x
<1>5. \A d \in Calls : /\ Going(Request(d))' => Going(Request(d))
                       /\ Going(Refusal(d))' => Going(Refusal(d))
                       /\ Going(Cancelling(d))' <=> Going(Cancelling(d))
  BY <1>3, <1>4, ItemFacts
<1>6. down' \in BOOLEAN /\ carried' \in Items \cup {W!Nothing}
  BY <1>1, <1>2, WireTyped
<1> QED BY <1>1, <1>4, <1>5, <1>6, NoneOnWire

\* A call that changes and keeps its return address and its slot.
LEMMA WireCancelKeeps ==
  ASSUME WireInv, NEW k \in AllKeys, W!Cancel(k)
  PROVE  /\ WireInv' /\ \A d \in Calls : W!Holds(d)' <=> W!Holds(d)
         /\ \A d \in Calls : /\ remote'[d].key = remote[d].key /\ remote'[d].stage = remote[d].stage
                             /\ remote'[d].completed = remote[d].completed
<1>1. PICK c : c = slots[k]
  OBVIOUS
<1>2. W!TypeOK /\ WireQueueInv /\ WireTableInv /\ WireCalls
  BY DEF WireInv
<1>3. c \in Calls /\ ~down /\ c # NoCall
  BY <1>1, <1>2, WireCallsTyped DEF W!Cancel
<1>4. /\ ~remote[c].completed /\ ~remote[c].cancelQueued
      /\ frames' = Append(frames, Cancelling(c)) /\ remote' = [remote EXCEPT ![c].cancelQueued = TRUE]
      /\ UNCHANGED <<down, swept, slots, carried>>
  BY <1>1 DEF W!Cancel, W!Cancellable, Cancelling
<1>5. W!Holds(c) /\ ~swept /\ WireCall(c)
  BY <1>1, <1>2, <1>3 DEF WireTableInv, W!Holds, WireCalls
<1>6. ~Going(Cancelling(c))
  BY <1>4, <1>5 DEF WireCall
<1>7. WireQueueInv' /\ frames' \in Seq(Items) /\ \A y : Going(y)' <=> Going(y) \/ y = Cancelling(c)
  BY <1>2, <1>3, <1>4, <1>6, ItemFacts, WireAppends
<1>8. remote \in [Calls -> RemoteType]
  BY <1>2, WireTyped
<1>9. /\ remote' \in [Calls -> RemoteType]
      /\ \A d \in Calls : d # c => remote'[d] = remote[d]
      /\ remote'[c].key = remote[c].key /\ remote'[c].stage = remote[c].stage
      /\ remote'[c].completed = remote[c].completed /\ remote'[c].cancelQueued
  BY <1>3, <1>4, <1>8 DEF RemoteType
<1>10. W!TypeOK'
  BY <1>2, <1>4, <1>7, <1>9, SameItems DEF W!TypeOK, AllKeys, RemoteType
<1>11. WireTableInv' /\ \A d \in Calls : W!Holds(d)' <=> W!Holds(d)
  BY <1>2, <1>3, <1>4, <1>9, <1>10, WireTableKeeps
<1>12. \A d \in Calls : /\ Going(Request(d))' <=> Going(Request(d))
                        /\ Going(Refusal(d))' <=> Going(Refusal(d))
                        /\ Going(Cancelling(d))' <=> Going(Cancelling(d)) \/ d = c
  BY <1>3, <1>7, ItemFacts
<1>13. WireCall(c)'
  BY <1>4, <1>5, <1>9, <1>11, <1>12 DEF WireCall
<1>14. WireInv'
  BY <1>3, <1>4, <1>7, <1>9, <1>10, <1>11, <1>12, <1>13, OneOnWire
<1> QED BY <1>9, <1>11, <1>14

LEMMA WireTakeKeeps ==
  ASSUME WireInv, W!Take
  PROVE  WireInv'
<1>1. W!TypeOK /\ WireQueueInv
  BY DEF WireInv
<1>2. /\ WireQueueInv' /\ frames' \in Seq(Items) /\ carried' \in Items
      /\ \A y \in Items : Going(y)' <=> Going(y)
  BY <1>1, WireTakes
<1>3. UNCHANGED <<down, swept, slots, remote>> /\ down' \in BOOLEAN
  BY <1>1, WireTyped DEF W!Take
<1>4. \A d \in Calls : /\ Going(Request(d))' => Going(Request(d))
                       /\ Going(Refusal(d))' => Going(Refusal(d))
                       /\ Going(Cancelling(d))' <=> Going(Cancelling(d))
  BY <1>2, ItemFacts
<1> QED BY <1>2, <1>3, <1>4, NoneOnWire

\* The loop is done with an event, or the peer ends.
LEMMA WireEmitKeeps ==
  ASSUME WireInv, W!Emit \/ W!EmitFails \/ W!PeerEnds
  PROVE  WireInv'
<1>1. W!TypeOK /\ WireQueueInv
  BY DEF WireInv
<1>2. /\ UNCHANGED <<swept, slots, remote, frames>> /\ (down => down') /\ down' \in BOOLEAN
      /\ carried' = carried \/ (carried.kind = "event" /\ carried' = W!Nothing)
  <2>1. down \in BOOLEAN
    BY <1>1, WireTyped
  <2>2. CASE W!Emit
    BY <2>1, <2>2 DEF W!Emit
  <2>3. CASE W!EmitFails
    BY <2>3 DEF W!EmitFails
  <2>4. CASE W!PeerEnds
    BY <2>4 DEF W!PeerEnds
  <2> QED BY <2>2, <2>3, <2>4
<1>3. frames' \in Seq(Items) /\ carried' \in Items \cup {W!Nothing}
  BY <1>1, <1>2, WireTyped
<1>4. WireQueueInv' /\ \A d \in Calls : /\ Going(Request(d))' <=> Going(Request(d))
                                        /\ Going(Refusal(d))' <=> Going(Refusal(d))
                                        /\ Going(Cancelling(d))' <=> Going(Cancelling(d))
  <2>1. CASE carried' = carried
    BY <1>1, <1>2, <2>1, WireKeeps
  <2>2. CASE carried.kind = "event" /\ carried' = W!Nothing
    <3>1. /\ WireQueueInv'
          /\ \A y \in Items : y.kind # "event" => (Going(y)' <=> Going(y) /\ y # carried)
      BY <1>1, <1>2, <2>2, WireDrops
    <3> QED BY <2>2, <3>1, ItemFacts
  <2> QED BY <1>2, <2>1, <2>2
<1> QED BY <1>2, <1>3, <1>4, NoneOnWire

\* What the stages of a call say, as the loop and the peer move it on.
LEMMA StageMoves ==
  ASSUME WireInv, NEW c \in Calls, NEW stage \in W!Stages, remote' = [remote EXCEPT ![c].stage = stage],
         UNCHANGED <<down, swept, frames, slots>>,
         \/ carried' = carried /\ remote[c].stage = "returned" /\ stage = "settled"
         \/ carried' = W!Nothing /\ carried = Request(c) /\ stage = "begun"
         \/ carried' = W!Nothing /\ carried = Refusal(c) /\ stage = "settled"
  PROVE  /\ WireInv' /\ \A d \in Calls : W!Holds(d)' <=> W!Holds(d)
         /\ \A d \in Calls : /\ d # c => remote'[d] = remote[d]
                             /\ remote'[d].key = remote[d].key /\ remote'[d].completed = remote[d].completed
         /\ remote'[c].stage = stage
<1>1. W!TypeOK /\ WireQueueInv /\ WireTableInv /\ WireCall(c)
  BY DEF WireInv, WireCalls
<1>2. remote \in [Calls -> RemoteType]
  BY <1>1, WireTyped
<1>3. /\ remote' \in [Calls -> RemoteType]
      /\ \A d \in Calls : d # c => remote'[d] = remote[d]
      /\ remote'[c].key = remote[c].key /\ remote'[c].stage = stage
      /\ remote'[c].completed = remote[c].completed /\ remote'[c].cancelQueued = remote[c].cancelQueued
  BY <1>2 DEF RemoteType
<1>4. /\ WireQueueInv' /\ ~Going(Request(c))' /\ ~Going(Refusal(c))'
      /\ Going(Cancelling(c))' <=> Going(Cancelling(c))
      /\ \A d \in Calls : d # c => /\ Going(Request(d))' <=> Going(Request(d))
                                   /\ Going(Refusal(d))' <=> Going(Refusal(d))
                                   /\ Going(Cancelling(d))' <=> Going(Cancelling(d))
  <2>1. CASE carried' = carried /\ remote[c].stage = "returned"
    <3>1. WireQueueInv' /\ \A y : Going(y)' <=> Going(y)
      BY <1>1, <2>1, WireKeeps
    <3> QED BY <1>1, <2>1, <3>1 DEF WireCall
  <2>2. CASE carried' = W!Nothing /\ carried \in {Request(c), Refusal(c)}
    <3>1. carried.kind # "none" /\ carried.kind # "event" /\ carried \in Items /\ Going(carried)
      BY <2>2, ItemFacts DEF Going
    <3>2. /\ WireQueueInv'
          /\ \A y \in Items : y.kind # "event" => (Going(y)' <=> Going(y) /\ y # carried)
      BY <1>1, <2>2, <3>1, WireDrops
    <3>3. ~(Going(Request(c)) /\ Going(Refusal(c)))
      BY <1>1 DEF WireCall
    <3> QED BY <2>2, <3>1, <3>2, <3>3, ItemFacts
  <2> QED BY <2>1, <2>2
<1>5. W!TypeOK'
  <2>1. carried' \in Items \cup {W!Nothing}
    BY <1>1, WireTyped
  <2> QED BY <1>1, <1>3, <2>1, SameItems DEF W!TypeOK, AllKeys, RemoteType
<1>6. WireTableInv' /\ \A d \in Calls : W!Holds(d)' <=> W!Holds(d)
  <2>1. \A d \in Calls : remote'[d].key = remote[d].key
    BY <1>3
  <2> QED BY <1>1, <1>5, <2>1, WireTableKeeps
<1>7. WireCall(c)'
  <2>1. CASE stage = "begun"
    BY <1>1, <1>3, <1>4, <1>6, <2>1 DEF WireCall
  <2>2. CASE stage = "settled" /\ remote[c].stage = "returned"
    BY <1>1, <1>3, <1>4, <1>6, <2>2 DEF WireCall
  <2>3. CASE stage = "settled" /\ carried = Refusal(c)
    <3>1. Going(Refusal(c))
      BY <2>3 DEF Going
    <3> QED BY <1>1, <1>3, <1>4, <1>6, <2>3, <3>1 DEF WireCall
  <2> QED BY <2>1, <2>2, <2>3
<1>8. WireInv'
  BY <1>3, <1>4, <1>5, <1>6, <1>7, OneOnWire
<1> QED BY <1>3, <1>6, <1>8

LEMMA WireRefuseKeeps ==
  ASSUME WireInv, W!Refuse, NEW c, c = carried.call
  PROVE  /\ c \in Calls /\ remote[c].stage = "refused" /\ ~W!Holds(c)
         /\ WireInv' /\ \A d \in Calls : W!Holds(d)' <=> W!Holds(d)
         /\ \A d \in Calls : /\ d # c => remote'[d] = remote[d]
                             /\ remote'[d].key = remote[d].key /\ remote'[d].completed = remote[d].completed
         /\ remote'[c].stage = "settled"
<1>1. W!TypeOK
  BY DEF WireInv
<1>2. c \in Calls /\ carried = Refusal(c) /\ Going(Refusal(c))
  BY <1>1, CarriedFacts DEF W!Refuse
<1>3. /\ carried' = W!Nothing /\ remote' = [remote EXCEPT ![c].stage = "settled"]
      /\ UNCHANGED <<down, swept, frames, slots>>
  BY DEF W!Refuse
<1>4. "settled" \in W!Stages
  BY DEF W!Stages
<1>5. remote[c].stage = "refused" /\ ~W!Holds(c)
  BY <1>2 DEF WireInv, WireCalls, WireCall
<1> QED BY <1>2, <1>3, <1>4, <1>5, StageMoves, ZenonT(60)

LEMMA BeginKeeps ==
  ASSUME WireInv, W!Begin
  PROVE  /\ WireInv' /\ \A d \in Calls : W!Holds(d)' <=> W!Holds(d)
         /\ \A d \in Calls : /\ remote'[d].key = remote[d].key /\ remote'[d].completed = remote[d].completed
                             /\ remote'[d].stage = remote[d].stage \/ remote[d].stage = "queued"
                             /\ remote'[d].stage \in {remote[d].stage, "begun"}
<1> DEFINE c == carried.call
<1>1. W!TypeOK
  BY DEF WireInv
<1>2. c \in Calls /\ carried = Request(c) /\ Going(Request(c))
  BY <1>1, CarriedFacts DEF W!Begin
<1>3. /\ carried' = W!Nothing /\ remote' = [remote EXCEPT ![c].stage = "begun"]
      /\ UNCHANGED <<down, swept, frames, slots>>
  BY DEF W!Begin
<1>4. "begun" \in W!Stages
  BY DEF W!Stages
<1>5. remote[c].stage = "queued"
  BY <1>2 DEF WireInv, WireCalls, WireCall
<1> HIDE DEF c
<1> QED BY <1>2, <1>3, <1>4, <1>5, StageMoves

LEMMA RespondKeeps ==
  ASSUME WireInv, NEW c \in Calls, W!Respond(c)
  PROVE  /\ remote[c].stage = "returned" /\ remote[c].completed
         /\ WireInv' /\ \A d \in Calls : W!Holds(d)' <=> W!Holds(d)
         /\ \A d \in Calls : /\ d # c => remote'[d] = remote[d]
                             /\ remote'[d].key = remote[d].key /\ remote'[d].completed = remote[d].completed
         /\ remote'[c].stage = "settled"
<1>1. /\ remote[c].stage = "returned" /\ carried' = carried
      /\ remote' = [remote EXCEPT ![c].stage = "settled"]
      /\ UNCHANGED <<down, swept, frames, slots>>
  BY DEF W!Respond
<1>2. "settled" \in W!Stages
  BY DEF W!Stages
<1>3. remote[c].completed
  BY <1>1 DEF WireInv, WireCalls, WireCall
<1> QED BY <1>1, <1>2, <1>3, StageMoves

\* The call returns from the peer, or cannot begin there: its slot is free.
LEMMA CompletedKeeps ==
  ASSUME WireInv, NEW c \in Calls, W!Completed(c), UNCHANGED <<down, swept, frames>>,
         \/ carried' = carried /\ remote[c].stage = "begun"
         \/ carried' = W!Nothing /\ carried = Request(c)
  PROVE  /\ WireInv' /\ \A d \in Calls : W!Holds(d)' => W!Holds(d)
         /\ \A d \in Calls : /\ remote'[d].key = remote[d].key
                             /\ remote[d].completed => remote'[d].completed
                             /\ remote'[d].stage \in {remote[d].stage, "returned"}
                             /\ remote'[d].stage = remote[d].stage \/ remote[d].stage \in {"begun", "queued"}
<1>1. W!TypeOK /\ WireQueueInv /\ WireTableInv /\ WireCall(c)
  BY DEF WireInv, WireCalls
<1>2. remote \in [Calls -> RemoteType] /\ slots \in [AllKeys -> Calls \cup {NoCall}]
  BY <1>1, WireTyped
<1>3. /\ remote' = [remote EXCEPT ![c].stage = "returned", ![c].completed = TRUE]
      /\ slots' = W!Retire(remote', c)
  BY DEF W!Completed
<1>4. /\ remote' \in [Calls -> RemoteType]
      /\ \A d \in Calls : d # c => remote'[d] = remote[d]
      /\ remote'[c].key = remote[c].key /\ remote'[c].stage = "returned"
      /\ remote'[c].completed /\ remote'[c].cancelQueued = remote[c].cancelQueued
  <2>1. "returned" \in W!Stages
    BY DEF W!Stages
  <2> QED BY <1>2, <1>3, <2>1 DEF RemoteType
<1>5. /\ WireQueueInv' /\ ~Going(Request(c))' /\ ~Going(Refusal(c))'
      /\ Going(Cancelling(c))' <=> Going(Cancelling(c))
      /\ \A d \in Calls : d # c => /\ Going(Request(d))' <=> Going(Request(d))
                                   /\ Going(Refusal(d))' <=> Going(Refusal(d))
                                   /\ Going(Cancelling(d))' <=> Going(Cancelling(d))
      /\ remote[c].stage \in {"begun", "queued"}
  <2>1. CASE carried' = carried /\ remote[c].stage = "begun"
    <3>1. WireQueueInv' /\ \A y : Going(y)' <=> Going(y)
      BY <1>1, <2>1, WireKeeps
    <3> QED BY <1>1, <2>1, <3>1 DEF WireCall
  <2>2. CASE carried' = W!Nothing /\ carried = Request(c)
    <3>1. carried.kind # "none" /\ carried.kind # "event" /\ carried \in Items /\ Going(carried)
      BY <2>2, ItemFacts DEF Going
    <3>2. /\ WireQueueInv'
          /\ \A y \in Items : y.kind # "event" => (Going(y)' <=> Going(y) /\ y # carried)
      BY <1>1, <2>2, <3>1, WireDrops
    <3>3. ~Going(Refusal(c)) /\ remote[c].stage = "queued"
      BY <1>1, <2>2, <3>1 DEF WireCall
    <3> QED BY <2>2, <3>1, <3>2, <3>3, ItemFacts
  <2> QED BY <2>1, <2>2
<1>6. W!TypeOK'
  <2>1. carried' \in Items \cup {W!Nothing}
    BY <1>1, WireTyped
  <2>2. slots' \in [AllKeys -> Calls \cup {NoCall}]
    BY <1>2, <1>3 DEF W!Retire
  <2> QED BY <1>1, <1>4, <2>1, <2>2, SameItems DEF W!TypeOK, AllKeys, RemoteType
<1>7. /\ WireTableInv'
      /\ \A d \in Calls : W!Holds(d)' <=> W!Holds(d) /\ ~(d = c /\ ~remote'[c].cancelQueued)
  <2>1. \A d \in Calls : remote'[d].key = remote[d].key
    BY <1>4
  <2> QED BY <1>1, <1>3, <1>4, <1>6, <2>1, WireTableRetires
<1>8. WireCall(c)'
  BY <1>1, <1>4, <1>5, <1>7 DEF WireCall
<1>9. WireInv'
  BY <1>4, <1>5, <1>6, <1>7, <1>8, OneOnWire
<1> QED BY <1>4, <1>5, <1>7, <1>9

LEMMA DrainKeeps ==
  ASSUME WireInv, W!DrainCancel
  PROVE  /\ WireInv' /\ \A d \in Calls : W!Holds(d)' => W!Holds(d)
         /\ \A d \in Calls : /\ remote'[d].key = remote[d].key /\ remote'[d].stage = remote[d].stage
                             /\ remote'[d].completed = remote[d].completed
<1>1. W!TypeOK /\ WireQueueInv /\ WireTableInv /\ WireCalls
  BY DEF WireInv
<1>2. PICK c : c = carried.call
  OBVIOUS
<1>3. /\ c \in Calls /\ carried = Cancelling(c) /\ Going(Cancelling(c)) /\ carried.kind = "cancel"
      /\ carried' = W!Nothing /\ UNCHANGED <<down, swept, frames>>
  BY <1>1, <1>2, CarriedFacts DEF W!DrainCancel
<1>4. ~swept /\ WireCall(c)
  BY <1>1, <1>3, NothingCarried DEF WireQueueInv, WireCalls
<1>5. W!Holds(c)
  BY <1>3, <1>4 DEF WireCall
<1>6. /\ remote' = [remote EXCEPT ![c].cancelQueued = FALSE, ![c].cancelled = TRUE]
      /\ slots' = W!Retire(remote', c)
  BY <1>2, <1>5 DEF W!DrainCancel
<1>7. remote \in [Calls -> RemoteType] /\ slots \in [AllKeys -> Calls \cup {NoCall}]
  BY <1>1, WireTyped
<1>8. /\ remote' \in [Calls -> RemoteType]
      /\ \A d \in Calls : d # c => remote'[d] = remote[d]
      /\ remote'[c].key = remote[c].key /\ remote'[c].stage = remote[c].stage
      /\ remote'[c].completed = remote[c].completed /\ ~remote'[c].cancelQueued
  BY <1>3, <1>6, <1>7 DEF RemoteType
<1>9. /\ WireQueueInv'
      /\ \A y \in Items : y.kind # "event" => (Going(y)' <=> Going(y) /\ y # carried)
  BY <1>1, <1>3, WireDrops
<1>10. \A d \in Calls : /\ Going(Request(d))' <=> Going(Request(d))
                        /\ Going(Refusal(d))' <=> Going(Refusal(d))
                        /\ Going(Cancelling(d))' <=> Going(Cancelling(d)) /\ d # c
  BY <1>3, <1>9, ItemFacts
<1>11. W!TypeOK'
  <2>1. slots' \in [AllKeys -> Calls \cup {NoCall}]
    BY <1>6, <1>7 DEF W!Retire
  <2> QED BY <1>1, <1>3, <1>8, <2>1, SameItems DEF W!TypeOK, AllKeys, RemoteType
<1>12. /\ WireTableInv'
       /\ \A d \in Calls : W!Holds(d)' <=> W!Holds(d) /\ ~(d = c /\ remote'[c].completed)
  <2>1. \A d \in Calls : remote'[d].key = remote[d].key
    BY <1>8
  <2> QED BY <1>1, <1>3, <1>6, <1>8, <1>11, <2>1, WireTableRetires
<1>13. WireCall(c)'
  BY <1>3, <1>4, <1>8, <1>10, <1>12 DEF WireCall
<1>14. WireInv'
  BY <1>3, <1>8, <1>9, <1>10, <1>11, <1>12, <1>13, OneOnWire
<1> QED BY <1>8, <1>12, <1>14

\* The end of the peer: no slot and no frame is left.
LEMMA SweepKeeps ==
  ASSUME WireInv, W!Sweep
  PROVE  /\ WireInv' /\ \A d \in Calls : ~W!Holds(d)'
         /\ \A d \in Calls : /\ remote'[d].key = remote[d].key /\ remote'[d].completed = remote[d].completed
                             /\ remote'[d].stage = remote[d].stage \/
                                  (remote[d].stage \in {"queued", "refused"} /\ remote'[d].stage = "dropped")
<1>1. W!TypeOK /\ WireCalls /\ NoCall \notin Calls
  BY ForwardAssumption DEF WireInv
<1>2. /\ down /\ carried = W!Nothing /\ swept' = TRUE /\ frames' = <<>>
      /\ slots' = [k \in AllKeys |-> NoCall] /\ UNCHANGED <<down, carried>>
      /\ remote' = [c \in Calls |-> IF remote[c].stage \in {"queued", "refused"}
                                      THEN [remote[c] EXCEPT !.stage = "dropped"] ELSE remote[c]]
  BY DEF W!Sweep, AllKeys
<1>3. remote \in [Calls -> RemoteType]
  BY <1>1, WireTyped
<1>4. \A d \in Calls : /\ remote'[d] \in RemoteType
                       /\ remote'[d].key = remote[d].key /\ remote'[d].completed = remote[d].completed
                       /\ remote'[d].stage = IF remote[d].stage \in {"queued", "refused"} THEN "dropped"
                                                                                    ELSE remote[d].stage
  <2> TAKE d \in Calls
  <2>1. remote[d] \in RemoteType
    BY <1>3
  <2>2. CASE remote[d].stage \in {"queued", "refused"}
    <3>1. remote'[d] = [remote[d] EXCEPT !.stage = "dropped"]
      BY <1>2, <2>2
    <3> QED BY <2>1, <2>2, <3>1 DEF RemoteType, W!Stages
  <2>3. CASE remote[d].stage \notin {"queued", "refused"}
    BY <1>2, <2>1, <2>3
  <2> QED BY <2>2, <2>3
<1>5. W!TypeOK'
  <2>1. remote' \in [Calls -> RemoteType]
    BY <1>2, <1>4
  <2> QED BY <1>1, <1>2, <2>1 DEF W!TypeOK, AllKeys, RemoteType
<1>6. WireQueueInv' /\ \A y \in Items : ~Going(y)'
  <2>1. (\A x : ~In(frames', x)) /\ Single(frames') /\ Cardinality(Weight(frames')) = 0
    BY <1>2, Empties
  <2>2. WireCapacity \in Nat
    BY ForwardAssumption
  <2> QED BY <1>2, <2>1, <2>2, NothingCarried DEF WireQueueInv, Going
<1>7. WireTableInv'
  <2>1. W!Slots' = {}
    BY <1>2 DEF W!Slots, AllKeys
  <2>2. Cardinality(W!Slots') = 0 /\ WirePending \in Nat
    BY <2>1, FS_EmptySet, ForwardAssumption
  <2> QED BY <1>2, <2>2 DEF WireTableInv
<1>8. \A d \in Calls : ~W!Holds(d)'
  <2> TAKE d \in Calls
  <2>1. remote'[d].key \in AllKeys /\ (W!Holds(d)' <=> slots'[remote'[d].key] = d)
    BY <1>4 DEF W!Holds, RemoteType
  <2> QED BY <1>1, <1>2, <2>1
<1>9. \A d \in Calls : WireCall(d)'
  BY <1>1, <1>2, <1>4, <1>6, <1>8, ItemFacts DEF WireCall, WireCalls
<1> QED BY <1>4, <1>5, <1>6, <1>7, <1>8, <1>9 DEF WireInv, WireCalls

-----------------------------------------------------------------------------
(* What a step of the pair does to a call and its answers.                 *)

\* Nothing that the caller would notice.
Silent(d) ==
  answers'[d] = answers[d] /\ (call'[d].responded <=> call[d].responded) /\ (Idle(d) => Idle(d)')

\* The first response, to a caller who was waiting for one.
Speaks(d) ==
  ~call[d].responded /\ call'[d].responded /\ ~Idle(d) /\ answers'[d] = answers[d] + 1

\* The refusal that admission decided.
Refuses(d) ==
  Pending(Refusal(d)) /\ Idle(d)' /\ ~call'[d].responded /\ answers'[d] = answers[d] + 1

\* What the forwarder took stays its own.
Kept(d) ==
  call[d].by = "forward" /\ call[d].work # "none" => call'[d].by = "forward" /\ call'[d].work # "none"
Runs(d) == call[d].by = "forward" /\ call[d].work = "running" => call'[d].work = "running"

Moves(d) == Kept(d) /\ (Silent(d) \/ Speaks(d) \/ Refuses(d))

LEMMA HoldsLess ==
  ASSUME P!TypeOK, NEW d \in Calls, call'[d].key = call[d].key,
         \/ table' = table
         \/ table' = [k \in AllKeys |-> NoCall]
         \/ \E c \in Calls : table' = P!Retire(call', c)
  PROVE  P!Holds(d)' => P!Holds(d)
<1>1. /\ call[d].key \in AllKeys /\ (P!Holds(d) <=> table[call[d].key] = d)
      /\ (P!Holds(d)' <=> table'[call[d].key] = d)
      /\ d # NoCall /\ table \in [AllKeys -> Calls \cup {NoCall}]
  BY PairCallsTyped, ForwardAssumption DEF P!Holds, P!TypeOK, AllKeys
<1>2. ASSUME NEW c \in Calls, table' = P!Retire(call', c) PROVE P!Holds(d)' => P!Holds(d)
  BY <1>1, <1>2 DEF P!Retire
<1> QED BY <1>1, <1>2

LEMMA StillCall ==
  ASSUME NEW d \in Calls, P!Holds(d)' => P!Holds(d), answers'[d] = answers[d],
         call'[d].responded <=> call[d].responded, call'[d].active <=> call[d].active,
         call'[d].by = call[d].by, call'[d].work = call[d].work
  PROVE  Moves(d) /\ Runs(d)
BY DEF Moves, Runs, Kept, Silent, Idle, Unserving

LEMMA StillPair ==
  ASSUME P!TypeOK, UNCHANGED <<table, call, answers>>
  PROVE  \A d \in Calls : Moves(d) /\ Runs(d)
<1> TAKE d \in Calls
<1>1. P!Holds(d)' => P!Holds(d)
  BY HoldsLess
<1> QED BY <1>1, StillCall

LEMMA AdmitMoves ==
  ASSUME PairInv, NEW c \in Calls, NEW k \in AllKeys, P!Admit(c, k), Unheard(c)
  PROVE  /\ answers' = answers /\ ~call'[c].responded
         /\ \A d \in Calls : d # c => Moves(d) /\ Runs(d)
<1>1. P!TypeOK /\ answers' = answers /\ call \in [Calls -> CallType] /\ ~call[c].responded
  BY DEF P!Admit, PairInv, P!TypeOK, CallType, AllKeys, Unheard
<1>2. CASE call' = [call EXCEPT ![c] = P!Fresh(k)] /\ table' = [table EXCEPT ![k] = c]
  <2>1. ~call'[c].responded /\ \A d \in Calls : d # c => call'[d] = call[d]
    BY <1>1, <1>2, NewCall
  <2>2. \A d \in Calls : d # c => (P!Holds(d)' => P!Holds(d))
    <3> SUFFICES ASSUME NEW d \in Calls, d # c PROVE P!Holds(d)' => P!Holds(d)
      OBVIOUS
    <3>1. call[d].key \in AllKeys /\ (P!Holds(d) <=> table[call[d].key] = d)
          /\ (P!Holds(d)' <=> table'[call[d].key] = d) /\ table \in [AllKeys -> Calls \cup {NoCall}]
      BY <1>1, <2>1, PairCallsTyped DEF P!Holds, P!TypeOK, AllKeys
    <3> QED BY <1>2, <3>1
  <2> QED BY <1>1, <2>1, <2>2, StillCall
<1>3. CASE UNCHANGED <<table, call>>
  BY <1>1, <1>3, StillPair
<1> QED BY <1>2, <1>3 DEF P!Admit

LEMMA EndMoves ==
  ASSUME PairInv, P!End
  PROVE  \A d \in Calls : Moves(d) /\ Runs(d)
<1>1. P!TypeOK /\ call \in [Calls -> CallType]
  BY DEF PairInv, P!TypeOK, CallType, AllKeys
<1>2. /\ table' = [k \in AllKeys |-> NoCall]
      /\ call' = [d \in Calls |-> IF P!Holds(d) THEN [call[d] EXCEPT !.responded = TRUE, !.completed = TRUE]
                                                ELSE call[d]]
      /\ answers' = [d \in Calls |-> answers[d] + IF P!Holds(d) /\ ~call[d].responded THEN 1 ELSE 0]
  BY DEF P!End, P!Answered, AllKeys
<1> TAKE d \in Calls
<1>3. /\ call[d] \in CallType /\ answers[d] \in Nat
      /\ answers'[d] = answers[d] + IF P!Holds(d) /\ ~call[d].responded THEN 1 ELSE 0
  BY <1>1, <1>2 DEF P!TypeOK
<1>4. CASE P!Holds(d)
  <2>1. call'[d] = [call[d] EXCEPT !.responded = TRUE, !.completed = TRUE]
    BY <1>2, <1>4
  <2>2. /\ call'[d].responded /\ call'[d].by = call[d].by /\ call'[d].work = call[d].work
    BY <1>3, <2>1 DEF CallType
  <2>3. answers'[d] = IF call[d].responded THEN answers[d] ELSE answers[d] + 1
    BY <1>3, <1>4
  <2> QED BY <1>4, <2>2, <2>3 DEF Moves, Runs, Kept, Silent, Speaks, Idle
<1>5. CASE ~P!Holds(d)
  <2>1. call'[d] = call[d]
    BY <1>2, <1>5
  <2>2. P!Holds(d)' => P!Holds(d)
    BY <1>1, <1>2, <2>1, HoldsLess
  <2>3. answers'[d] = answers[d]
    BY <1>3, <1>5
  <2> QED BY <2>1, <2>2, <2>3, StillCall
<1> QED BY <1>4, <1>5

LEMMA CancelMoves ==
  ASSUME PairInv, NEW k \in AllKeys, P!Cancel(k)
  PROVE  \A d \in Calls : Moves(d) /\ Runs(d)
<1>1. P!TypeOK /\ call \in [Calls -> CallType] /\ UNCHANGED <<table, answers>>
  BY DEF PairInv, P!TypeOK, CallType, AllKeys, P!Cancel
<1>2. PICK c : c = table[k]
  OBVIOUS
<1>3. c \in Calls /\ call' = [call EXCEPT ![c].cancelQueued = TRUE]
  BY <1>1, <1>2, PairCallsTyped DEF P!Cancel
<1> TAKE d \in Calls
<1>4. /\ call'[d].key = call[d].key /\ call'[d].by = call[d].by /\ call'[d].work = call[d].work
      /\ call'[d].responded = call[d].responded /\ call'[d].active = call[d].active
  <2>1. CASE d = c
    BY <1>1, <1>3, <2>1 DEF CallType
  <2>2. CASE d # c
    BY <1>1, <1>3, <2>2
  <2> QED BY <2>1, <2>2
<1>5. P!Holds(d)' => P!Holds(d)
  BY <1>1, <1>4, HoldsLess
<1> QED BY <1>1, <1>4, <1>5, StillCall

\* A reply is the caller's first response, or nothing to the caller.
LEMMA ReplyMoves ==
  ASSUME PairInv, NEW c \in Calls, P!Reply(c), table' = table, ~Idle(c)
  PROVE  /\ \A d \in Calls : Kept(d) => Moves(d)
         /\ \A d \in Calls : d # c => Moves(d) /\ Runs(d)
         /\ call'[c].by = call[c].by /\ call'[c].work = "replied"
<1>1. P!TypeOK /\ PairCall(c)
  BY DEF PairInv, PairCalls
<1>2. /\ \A d \in Calls : d # c => call'[d] = call[d] /\ answers'[d] = answers[d]
      /\ call'[c].key = call[c].key /\ call'[c].by = call[c].by /\ call'[c].work = "replied"
      /\ call'[c].responded
      /\ answers'[c] = IF call[c].responded THEN answers[c] ELSE answers[c] + 1
  BY <1>1, ReplyFacts
<1>3. \A d \in Calls : d # c => Moves(d) /\ Runs(d)
  <2> SUFFICES ASSUME NEW d \in Calls, d # c PROVE Moves(d) /\ Runs(d)
    OBVIOUS
  <2>1. P!Holds(d)' => P!Holds(d)
    BY <1>1, <1>2, HoldsLess
  <2> QED BY <1>2, <2>1, StillCall
<1>4. Silent(c) \/ Speaks(c)
  BY <1>2 DEF Silent, Speaks
<1> QED BY <1>2, <1>3, <1>4 DEF Moves

LEMMA AnswerMoves ==
  ASSUME PairInv, NEW c \in Calls, P!Answer(c)
  PROVE  /\ \A d \in Calls : Moves(d)
         /\ \A d \in Calls : d # c => Runs(d)
         /\ call[c].by # "forward" => Runs(c)
<1>1. P!Reply(c) /\ call[c].work = "running" /\ table' = table
  BY DEF P!Answer
<1>2. ~Idle(c)
  BY <1>1 DEF Idle, Unserving
<1>3. /\ \A d \in Calls : Kept(d) => Moves(d)
      /\ \A d \in Calls : d # c => Moves(d) /\ Runs(d)
      /\ call'[c].by = call[c].by /\ call'[c].work = "replied"
  BY <1>1, <1>2, ReplyMoves
<1> QED BY <1>3 DEF Kept, Runs

\* Nobody was handed the request: the loop answers it.
LEMMA LoopAnswerMoves ==
  ASSUME PairInv, P!Unserved \/ \E r : P!Undelivered(r)
  PROVE  \A d \in Calls : Moves(d) /\ Runs(d)
<1>1. PICK c : c = hand.of.call
  OBVIOUS
<1>2. P!TypeOK /\ PairCalls
  BY DEF PairInv
<1>3. P!Reply(c) /\ c \in Calls /\ table' = table
      /\ (Delivering(c) \/ (Pending(Request(c)) /\ ~closed))
  BY <1>1, <1>2, HandFacts DEF P!Undelivered, P!Unserved, P!Holding, Delivering
<1>4. PairCall(c)
  BY <1>2, <1>3 DEF PairCalls
<1>5. call[c].work = "none" /\ ~Idle(c)
  BY <1>3, <1>4 DEF PairCall, Unserving, Idle
<1>6. Kept(c) /\ Runs(c)
  BY <1>5 DEF Kept, Runs
<1> QED BY <1>3, <1>5, <1>6, ReplyMoves

LEMMA StartMoves ==
  ASSUME PairInv, P!Start
  PROVE  \A d \in Calls : Moves(d) /\ Runs(d)
<1>1. P!TypeOK /\ PairCalls
  BY DEF PairInv
<1>2. PICK c : c = hand.of.call
  OBVIOUS
<1>3. /\ c \in Calls /\ Pending(Request(c)) /\ ~closed
      /\ call' = [call EXCEPT ![c].active = TRUE, ![c].by = receiver] /\ UNCHANGED <<table, answers>>
  BY <1>1, <1>2, HandFacts DEF P!Start, P!Holding
<1>4. call[c].by = "none" /\ call[c].work = "none" /\ ~Idle(c)
  BY <1>1, <1>3 DEF PairCalls, PairCall, Unserving, Idle
<1>5. /\ \A d \in Calls : d # c => call'[d] = call[d]
      /\ call'[c].responded = call[c].responded
  BY <1>1, <1>3 DEF P!TypeOK
<1> TAKE d \in Calls
<1>6. CASE d = c
  BY <1>3, <1>4, <1>5, <1>6 DEF Moves, Runs, Kept, Silent
<1>7. CASE d # c
  <2>1. P!Holds(d)' => P!Holds(d)
    BY <1>1, <1>3, <1>5, <1>7, HoldsLess
  <2> QED BY <1>3, <1>5, <1>7, <2>1, StillCall
<1> QED BY <1>6, <1>7

LEMMA DeliverCancelMoves ==
  ASSUME PairInv, P!DeliverCancel
  PROVE  \A d \in Calls : Moves(d) /\ Runs(d)
<1>1. P!TypeOK /\ call \in [Calls -> CallType]
  BY DEF PairInv, P!TypeOK, CallType, AllKeys
<1>2. PICK c : c = hand.of.call
  OBVIOUS
<1>3. /\ c \in Calls /\ call' = [call EXCEPT ![c].cancelQueued = FALSE, ![c].cancelled = TRUE]
      /\ table' = P!Retire(call', c) /\ answers' = answers
  BY <1>1, <1>2, HandFacts DEF P!DeliverCancel, P!Holding
<1> TAKE d \in Calls
<1>4. /\ call'[d].key = call[d].key /\ call'[d].by = call[d].by /\ call'[d].work = call[d].work
      /\ call'[d].responded = call[d].responded /\ call'[d].active = call[d].active
  <2>1. CASE d = c
    BY <1>1, <1>3, <2>1 DEF CallType
  <2>2. CASE d # c
    BY <1>1, <1>3, <2>2
  <2> QED BY <2>1, <2>2
<1>5. P!Holds(d)' => P!Holds(d)
  BY <1>1, <1>3, <1>4, HoldsLess
<1> QED BY <1>3, <1>4, <1>5, StillCall

\* A refusal is pending once, and answers a caller whom nothing else will.
LEMMA RefuseMoves ==
  ASSUME PairInv, P!Refuse
  PROVE  \A d \in Calls : Moves(d) /\ Runs(d)
<1>1. P!TypeOK /\ PairCalls
  BY DEF PairInv
<1>2. PICK c : c = hand.of.call
  OBVIOUS
<1>3. /\ c \in Calls /\ Pending(Refusal(c)) /\ UNCHANGED <<table, call>>
      /\ answers' = [answers EXCEPT ![c] = @ + 1]
  BY <1>1, <1>2, HandFacts DEF P!Refuse, P!Holding
<1>4. PairCall(c)
  BY <1>1, <1>3 DEF PairCalls
<1> TAKE d \in Calls
<1>5. P!Holds(d)' => P!Holds(d)
  BY <1>1, <1>3, HoldsLess
<1>6. CASE d = c
  <2>1. answers'[d] = answers[d] + 1
    BY <1>1, <1>3, <1>6 DEF P!TypeOK
  <2>2. Refuses(d)
    BY <1>3, <1>4, <1>5, <1>6, <2>1 DEF Refuses, PairCall, Idle, Unserving
  <2> QED BY <1>3, <2>2 DEF Moves, Kept, Runs
<1>7. CASE d # c
  <2>1. answers'[d] = answers[d]
    BY <1>1, <1>3, <1>7 DEF P!TypeOK
  <2> QED BY <1>3, <1>5, <2>1, StillCall
<1> QED BY <1>6, <1>7

LEMMA DeliveredMoves ==
  ASSUME PairInv, NEW r \in {"app", "forward"}, P!Delivered(r)
  PROVE  /\ \A d \in Calls : Moves(d) /\ Runs(d)
         /\ hand.of.kind = "request" =>
              LET c == hand.of.call IN
              c \in Calls /\ Delivering(c) /\ call[c].work = "none" /\ call'[c].work = "running" /\ call'[c].by = r
<1>1. P!TypeOK /\ PairCalls
  BY DEF PairInv
<1>2. hand.step = "deliver" /\ hand.to = r /\ UNCHANGED <<table, answers>>
  BY DEF P!Delivered
<1>3. CASE hand.of.kind # "request"
  <2>1. call' = call
    BY <1>3 DEF P!Delivered
  <2> QED BY <1>1, <1>2, <1>3, <2>1, StillPair
<1>4. CASE hand.of.kind = "request"
  <2>1. PICK c : c = hand.of.call
    OBVIOUS
  <2>2. c \in Calls /\ Delivering(c) /\ call' = [call EXCEPT ![c].work = "running"]
    BY <1>1, <1>2, <1>4, <2>1, HandFacts DEF P!Delivered, Delivering
  <2>3. call[c].by = r /\ call[c].work = "none" /\ ~Idle(c)
    BY <1>1, <1>2, <2>2 DEF PairCalls, PairCall, Idle, Unserving
  <2>4. /\ \A d \in Calls : d # c => call'[d] = call[d]
        /\ call'[c].by = r /\ call'[c].work = "running" /\ call'[c].responded = call[c].responded
    BY <1>1, <2>2, <2>3 DEF P!TypeOK
  <2>5. ASSUME NEW d \in Calls PROVE Moves(d) /\ Runs(d)
    <3>1. CASE d = c
      BY <1>2, <2>3, <2>4, <3>1 DEF Moves, Runs, Kept, Silent
    <3>2. CASE d # c
      <4>1. P!Holds(d)' => P!Holds(d)
        BY <1>1, <1>2, <2>4, <3>2, HoldsLess
      <4> QED BY <1>2, <2>4, <3>2, <4>1, StillCall
    <3> QED BY <3>1, <3>2
  <2> QED BY <2>1, <2>2, <2>3, <2>4, <2>5
<1> QED BY <1>3, <1>4

LEMMA CompleteMoves ==
  ASSUME PairInv, NEW c \in Calls, P!Complete(c)
  PROVE  \A d \in Calls : Moves(d) /\ Runs(d)
<1>1. P!TypeOK /\ call \in [Calls -> CallType]
  BY DEF PairInv, P!TypeOK, CallType, AllKeys
<1>2. /\ call[c].work = "replied" /\ answers' = answers
      /\ call' = [call EXCEPT ![c].work = "done", ![c].completed = TRUE,
                              ![c].active = @ /\ call[c].completed]
      /\ table' = P!Retire(call', c)
  BY DEF P!Complete
<1>3. /\ \A d \in Calls : d # c => call'[d] = call[d]
      /\ call'[c].key = call[c].key /\ call'[c].by = call[c].by /\ call'[c].work = "done"
      /\ call'[c].responded = call[c].responded
  <2>1. call' = [call EXCEPT ![c] = [@ EXCEPT !.work = "done", !.completed = TRUE,
                                              !.active = call[c].active /\ call[c].completed]]
    BY <1>1, <1>2 DEF CallType
  <2>2. call'[c] = [call[c] EXCEPT !.work = "done", !.completed = TRUE,
                                   !.active = call[c].active /\ call[c].completed]
    BY <1>1, <2>1
  <2> QED BY <1>1, <2>1, <2>2 DEF CallType
<1>4. ~Idle(c)
  BY <1>2 DEF Idle, Unserving
<1> TAKE d \in Calls
<1>5. CASE d = c
  BY <1>2, <1>3, <1>4, <1>5 DEF Moves, Runs, Kept, Silent
<1>6. CASE d # c
  <2>1. P!Holds(d)' => P!Holds(d)
    BY <1>1, <1>2, <1>3, <1>6, HoldsLess
  <2> QED BY <1>2, <1>3, <1>6, <2>1, StillCall
<1> QED BY <1>5, <1>6

LEMMA TimeoutMoves ==
  ASSUME PairInv, NEW c \in Calls, P!Timeout(c)
  PROVE  \A d \in Calls : Moves(d) /\ Runs(d)
<1>1. P!TypeOK /\ call \in [Calls -> CallType]
  BY DEF PairInv, P!TypeOK, CallType, AllKeys
<1> DEFINE cancels == ~call[c].cancelQueued /\ ~call[c].cancelled
<1>2. /\ call[c].by # "none" /\ table' = table
      /\ call' = [call EXCEPT ![c].responded = TRUE, ![c].cancelQueued = @ \/ cancels]
      /\ answers' = [d \in Calls |-> answers[d] + IF d \in {c} /\ ~call[d].responded THEN 1 ELSE 0]
  BY DEF P!Timeout, P!Answered
<1>3. /\ \A d \in Calls : d # c => call'[d] = call[d]
      /\ call'[c].key = call[c].key /\ call'[c].by = call[c].by /\ call'[c].work = call[c].work
      /\ call'[c].responded
  BY <1>1, <1>2 DEF CallType
<1>4. ~Idle(c)
  BY <1>2 DEF Idle, Unserving
<1> TAKE d \in Calls
<1>5. answers[d] \in Nat /\ answers'[d] = answers[d] + IF d \in {c} /\ ~call[d].responded THEN 1 ELSE 0
  BY <1>1, <1>2 DEF P!TypeOK
<1>6. CASE d = c
  <2>1. answers'[d] = IF call[d].responded THEN answers[d] ELSE answers[d] + 1
    BY <1>5, <1>6
  <2> QED BY <1>3, <1>4, <1>6, <2>1 DEF Moves, Runs, Kept, Silent, Speaks
<1>7. CASE d # c
  <2>1. P!Holds(d)' => P!Holds(d)
    BY <1>1, <1>2, <1>3, <1>7, HoldsLess
  <2>2. answers'[d] = answers[d]
    BY <1>5, <1>7
  <2> QED BY <1>3, <1>7, <2>1, <2>2, StillCall
<1> QED BY <1>6, <1>7

\* A step of the run loop that no receiver is part of.
LEMMA LoopKeeps ==
  ASSUME PairInv,
         P!Take \/ P!Refuse \/ P!Unserved \/ P!Start \/ P!StartEvent \/ P!Leave \/ P!DeliverCancel
  PROVE  PairInv' /\ \A d \in Calls : (Unheard(d) => Unheard(d)') /\ Moves(d) /\ Runs(d)
<1>1. CASE P!Take
  <2>1. P!TypeOK /\ UNCHANGED <<table, call, answers>>
    BY <1>1 DEF PairInv, P!Take
  <2> QED BY <1>1, <2>1, TakeKeeps, StillPair
<1>2. CASE P!Refuse
  BY <1>2, RefuseKeeps, RefuseMoves
<1>3. CASE P!Unserved
  BY <1>3, UnservedKeeps, LoopAnswerMoves
<1>4. CASE P!Start
  BY <1>4, StartKeeps, StartMoves
<1>5. CASE P!StartEvent
  <2>1. P!TypeOK /\ UNCHANGED <<table, call, answers>>
    BY <1>5 DEF PairInv, P!StartEvent
  <2> QED BY <1>5, <2>1, StartEventKeeps, StillPair
<1>6. CASE P!Leave
  <2>1. P!TypeOK /\ UNCHANGED <<table, call, answers>>
    BY <1>6 DEF PairInv, P!Leave
  <2> QED BY <1>6, <2>1, LeaveKeeps, StillPair
<1>7. CASE P!DeliverCancel
  BY <1>7, DeliverCancelKeeps, DeliverCancelMoves
<1> QED BY <1>1, <1>2, <1>3, <1>4, <1>5, <1>6, <1>7

-----------------------------------------------------------------------------
(* What a step of the wire does to a call, when it neither admits it nor   *)
(* answers its direct caller.                                              *)

WireMoves(d) ==
  /\ remote'[d].key = remote[d].key /\ (remote[d].completed => remote'[d].completed)
  /\ W!Holds(d)' => W!Holds(d)
  /\ remote'[d].stage = "unsent" <=> remote[d].stage = "unsent"
  /\ OnWire(d) => (remote'[d].stage = "settled" <=> remote[d].stage = "settled")

LEMMA StillWire ==
  ASSUME UNCHANGED <<slots, remote>>
  PROVE  \A d \in Calls : WireMoves(d)
BY DEF WireMoves, W!Holds

LEMMA SameWire ==
  ASSUME WireInv, UNCHANGED wire
  PROVE  WireInv' /\ \A d \in Calls : WireMoves(d)
<1>1. UNCHANGED <<down, swept, frames, slots, remote, carried>>
  BY DEF wire
<1>2. /\ down' \in BOOLEAN /\ frames' \in Seq(Items) /\ carried' \in Items \cup {W!Nothing} /\ WireQueueInv
  BY <1>1, WireTyped DEF WireInv
<1>3. WireQueueInv' /\ \A y : Going(y)' <=> Going(y)
  BY <1>1, <1>2, WireKeeps
<1> QED BY <1>1, <1>2, <1>3, NoneOnWire, StillWire

LEMMA SamePair ==
  ASSUME PairInv, UNCHANGED pair
  PROVE  PairInv' /\ \A d \in Calls : (Unheard(d) => Unheard(d)') /\ Moves(d) /\ Runs(d)
<1>1. UNCHANGED <<closed, queue, table, call, hand, receiver, answers>>
  BY DEF pair
<1>2. P!TypeOK /\ receiver' \in P!Receivers
  BY <1>1 DEF PairInv, P!TypeOK
<1> QED BY <1>1, <1>2, RegisterKeeps, StillPair

LEMMA WireEndKeeps ==
  ASSUME WireInv, W!PeerEnds \/ W!Refused
  PROVE  WireInv' /\ \A d \in Calls : WireMoves(d)
<1>1. CASE W!PeerEnds
  <2>1. UNCHANGED <<slots, remote>>
    BY <1>1 DEF W!PeerEnds
  <2> QED BY <1>1, <2>1, WireEmitKeeps, StillWire
<1>2. CASE UNCHANGED wire
  BY <1>2, SameWire
<1> QED BY <1>1, <1>2 DEF W!Refused, W!Overflow, W!vars, wire

LEMMA WireCancelMoves ==
  ASSUME WireInv, NEW k \in AllKeys, W!Cancel(k) \/ W!CancelDropped(k)
  PROVE  WireInv' /\ \A d \in Calls : WireMoves(d)
<1>1. CASE W!Cancel(k)
  BY <1>1, WireCancelKeeps DEF WireMoves
<1>2. CASE W!CancelDropped(k)
  BY <1>2, SameWire DEF W!CancelDropped, W!vars, wire
<1> QED BY <1>1, <1>2

LEMMA CompletedMoves ==
  ASSUME WireInv, W!BeginFails \/ \E c \in Calls : W!Returns(c)
  PROVE  WireInv' /\ \A d \in Calls : WireMoves(d)
<1>1. PICK c : /\ c \in Calls /\ W!Completed(c) /\ UNCHANGED <<down, swept, frames>>
               /\ \/ carried' = carried /\ remote[c].stage = "begun"
                  \/ carried' = W!Nothing /\ carried = Request(c)
  <2>1. CASE W!BeginFails
    <3>1. W!TypeOK /\ carried.kind = "request" /\ carried' = W!Nothing
          /\ W!Completed(carried.call) /\ UNCHANGED <<down, swept, frames>>
      BY <2>1 DEF WireInv, W!BeginFails
    <3> QED BY <3>1, CarriedFacts
  <2>2. CASE \E c \in Calls : W!Returns(c)
    BY <2>2 DEF W!Returns
  <2> QED BY <2>1, <2>2
<1>2. /\ WireInv' /\ \A d \in Calls : W!Holds(d)' => W!Holds(d)
      /\ \A d \in Calls : /\ remote'[d].key = remote[d].key
                          /\ remote[d].completed => remote'[d].completed
                          /\ remote'[d].stage \in {remote[d].stage, "returned"}
                          /\ remote'[d].stage = remote[d].stage \/ remote[d].stage \in {"begun", "queued"}
  BY <1>1, CompletedKeeps
<1> QED BY <1>2 DEF WireMoves

LEMMA WireLoopKeeps ==
  ASSUME WireInv,
         W!Take \/ W!Begin \/ W!BeginFails \/ W!DrainCancel \/ W!Emit \/ W!EmitFails \/ W!Sweep
  PROVE  WireInv' /\ \A d \in Calls : WireMoves(d)
<1>1. CASE W!Take
  <2>1. UNCHANGED <<slots, remote>>
    BY <1>1 DEF W!Take
  <2> QED BY <1>1, <2>1, WireTakeKeeps, StillWire
<1>2. CASE W!Begin
  <2>1. \A d \in Calls : /\ remote'[d].key = remote[d].key /\ remote'[d].completed = remote[d].completed
                         /\ remote'[d].stage = remote[d].stage \/ remote[d].stage = "queued"
                         /\ remote'[d].stage \in {remote[d].stage, "begun"}
                         /\ W!Holds(d)' <=> W!Holds(d)
    BY <1>2, BeginKeeps
  <2> QED BY <1>2, <2>1, BeginKeeps DEF WireMoves
<1>3. CASE W!BeginFails
  BY <1>3, CompletedMoves
<1>4. CASE W!DrainCancel
  BY <1>4, DrainKeeps DEF WireMoves
<1>5. CASE W!Emit \/ W!EmitFails
  <2>1. UNCHANGED <<slots, remote>>
    BY <1>5 DEF W!Emit, W!EmitFails
  <2> QED BY <1>5, <2>1, WireEmitKeeps, StillWire
<1>6. CASE W!Sweep
  BY <1>6, SweepKeeps DEF WireMoves
<1> QED BY <1>1, <1>2, <1>3, <1>4, <1>5, <1>6

-----------------------------------------------------------------------------
(* The composition.                                                        *)

\* A step that neither admits a call nor answers its direct caller.
Steps(d) ==
  /\ Tried(d) => Tried(d)'
  /\ passing'[d] = "returned" => passing[d] = "returned" \/ answers[d] > 0 \/ Unheard(d)'
  /\ Unheard(d) => Unheard(d)'
  /\ Moves(d) /\ WireMoves(d) /\ (Runs(d) \/ ~W!Holds(d)' \/ remote'[d].completed)

LEMMA FreshKeeps ==
  ASSUME NEW d \in Calls, PairCall(d), CallInv(d), answers[d] \in Nat, setting' = setting, Steps(d)
  PROVE  FreshCall(d)'
<1>1. OnWire(d)' <=> OnWire(d)
  BY DEF OnWire
<1>2. OnWire(d) \/ ~Tried(d)' => Unheard(d) /\ Unheard(d)'
  BY DEF CallInv, FreshCall, Steps
<1>3. Unheard(d) /\ Unheard(d)' => answers'[d] = answers[d]
  BY DEF Steps, Moves, Silent, Speaks, Refuses, Unheard
<1>4. ~Tried(d)' => answers[d] = 0
  BY DEF CallInv, FreshCall, Steps
<1>5. answers[d] > 0 => answers'[d] > 0
  BY DEF Steps, Moves, Silent, Speaks, Refuses
<1>6. passing'[d] = "returned" => answers'[d] > 0 \/ Unheard(d)'
  BY <1>5 DEF CallInv, FreshCall, Steps
<1> QED BY <1>1, <1>2, <1>3, <1>4, <1>6 DEF FreshCall

LEMMA ForwardKeeps ==
  ASSUME NEW d \in Calls, CallInv(d), setting' = setting, Steps(d)
  PROVE  ForwardCall(d)'
BY DEF CallInv, ForwardCall, Steps, Moves, Kept, Runs, WireMoves, OnWire, Forwarded

LEMMA AnswersKeep ==
  ASSUME NEW d \in Calls, PairCall(d), CallInv(d), answers[d] \in Nat, setting' = setting, Steps(d)
  PROVE  AnswerCall(d)'
<1>1. OnWire(d)' <=> OnWire(d)
  BY DEF OnWire
<1>2. CASE OnWire(d)
  <2>1. answers'[d] = answers[d]
    BY <1>2 DEF CallInv, FreshCall, Steps, Moves, Silent, Speaks, Refuses, Unheard
  <2>2. answers[d] = IF remote[d].stage = "settled" THEN 1 ELSE 0
    BY <1>2 DEF CallInv, AnswerCall
  <2>3. remote'[d].stage = "settled" <=> remote[d].stage = "settled"
    BY <1>2 DEF Steps, WireMoves
  <2> QED BY <1>1, <1>2, <2>1, <2>2, <2>3 DEF AnswerCall
<1>3. CASE ~OnWire(d)
  <2>1. /\ call[d].responded => answers[d] = 1
        /\ ~call[d].responded => answers[d] = 0 \/ (answers[d] = 1 /\ Idle(d))
    BY <1>3 DEF CallInv, AnswerCall
  <2>2. CASE Silent(d)
    BY <1>1, <1>3, <2>1, <2>2 DEF AnswerCall, Silent
  <2>3. CASE Speaks(d)
    BY <1>1, <1>3, <2>1, <2>3 DEF AnswerCall, Speaks
  <2>4. CASE Refuses(d)
    <3>1. answers[d] = 0
      BY <2>4 DEF Refuses, PairCall
    <3> QED BY <1>1, <1>3, <2>4, <3>1 DEF AnswerCall, Refuses
  <2> QED BY <2>2, <2>3, <2>4 DEF Steps, Moves
<1> QED BY <1>2, <1>3

LEMMA StepKeeps ==
  ASSUME ForwardInv, PairInv', WireInv', SentInv', setting' = setting,
         \A d \in Calls : Steps(d) \/ CallInv(d)'
  PROVE  ForwardInv'
<1>1. \A d \in Calls : PairCall(d) /\ CallInv(d) /\ answers[d] \in Nat
  BY DEF ForwardInv, PairInv, PairCalls, P!TypeOK
<1>2. \A d \in Calls : CallInv(d)'
  BY <1>1, FreshKeeps, ForwardKeeps, AnswersKeep DEF CallInv
<1> QED BY <1>2 DEF ForwardInv

LEMMA PairStepKeeps ==
  ASSUME ForwardInv, PairInv', UNCHANGED <<wire, sent, passing, setting>>,
         \A d \in Calls : (Unheard(d) => Unheard(d)') /\ Moves(d) /\ Runs(d)
  PROVE  ForwardInv'
<1>1. WireInv' /\ \A d \in Calls : WireMoves(d)
  BY SameWire DEF ForwardInv
<1>2. SentInv'
  BY DEF ForwardInv, SentInv, OnWire
<1>3. \A d \in Calls : Steps(d)
  BY <1>1 DEF Steps, Tried
<1> QED BY <1>1, <1>2, <1>3, StepKeeps

LEMMA WireStepKeeps ==
  ASSUME ForwardInv, WireInv', UNCHANGED <<pair, sent, passing, setting>>,
         \A d \in Calls : WireMoves(d)
  PROVE  ForwardInv'
<1>1. PairInv' /\ \A d \in Calls : (Unheard(d) => Unheard(d)') /\ Moves(d) /\ Runs(d)
  BY SamePair DEF ForwardInv
<1>2. SentInv'
  BY DEF ForwardInv, SentInv, OnWire
<1>3. \A d \in Calls : Steps(d)
  BY <1>1 DEF Steps, Tried
<1> QED BY <1>1, <1>2, <1>3, StepKeeps

LEMMA SettingFacts ==
  ASSUME SentInv
  PROVE  \A c \in Calls :
           /\ KeyOf[c] \in AllKeys /\ c \in AllKeys /\ KeyOf[c] # c
           /\ c \in setting.to["pair"] => ~OnWire(c) /\ passing[c] = "none"
           /\ c \in setting.passes => ~OnWire(c) /\ c \notin sent
<1>1. /\ setting \in Settings /\ KeyOf \in [Calls -> Keys] /\ Keys \cap Calls = {}
      /\ \A s \in Settings : /\ s.to["pair"] \cap s.to["wire"] = {}
                             /\ s.passes \cap (s.to["pair"] \cup s.to["wire"]) = {}
  BY ForwardAssumption DEF SentInv
<1> QED BY <1>1 DEF SentInv, AllKeys, OnWire

LEMMA SentGrows ==
  ASSUME SentInv, NEW c \in Calls, c \in setting.to["pair"] \/ OnWire(c),
         sent' = sent \cup {c}, UNCHANGED <<passing, setting>>
  PROVE  SentInv' /\ \A d \in Calls : Tried(d) => Tried(d)'
BY DEF SentInv, OnWire, Tried

LEMMA PassingMoves ==
  ASSUME SentInv, NEW c \in Calls, c \in setting.passes, NEW to \in {"waiting", "withdrawn", "returned"},
         passing' = [passing EXCEPT ![c] = to], UNCHANGED <<sent, setting>>
  PROVE  /\ SentInv' /\ \A d \in Calls : Tried(d) => Tried(d)'
         /\ passing'[c] = to /\ \A d \in Calls : d # c => passing'[d] = passing[d]
<1>1. passing \in [Calls -> {"none", "waiting", "withdrawn", "returned"}]
  BY DEF SentInv
<1>2. passing'[c] = to /\ \A d \in Calls : d # c => passing'[d] = passing[d]
  BY <1>1
<1>3. passing' \in [Calls -> {"none", "waiting", "withdrawn", "returned"}]
  BY <1>1
<1> QED BY <1>2, <1>3 DEF SentInv, OnWire, Tried

\* What nobody tried before is admitted, or refused, by the pair.
LEMMA AdmittedCall ==
  ASSUME ForwardInv, NEW c \in Calls, NEW k \in AllKeys, P!Admit(c, k), UNCHANGED <<remote, slots, setting>>,
         ~Tried(c), ~OnWire(c), Tried(c)', passing'[c] # "returned"
  PROVE  /\ PairInv' /\ CallInv(c)'
         /\ \A d \in Calls : d # c => (Unheard(d) => Unheard(d)') /\ Moves(d) /\ Runs(d)
<1>1. PairInv /\ CallInv(c)
  BY DEF ForwardInv
<1>2. Unheard(c) /\ answers[c] = 0 /\ ~(OnWire(c)')
  BY <1>1 DEF CallInv, FreshCall, OnWire
<1>3. PairInv' /\ \A d \in Calls : d # c /\ Unheard(d) => Unheard(d)'
  BY <1>1, <1>2, AdmitKeeps
<1>4. answers' = answers /\ ~call'[c].responded /\ \A d \in Calls : d # c => Moves(d) /\ Runs(d)
  BY <1>1, <1>2, AdmitMoves
<1>5. FreshCall(c)'
  BY <1>2 DEF FreshCall
<1>6. ForwardCall(c)'
  <2>1. remote[c].stage = "unsent" /\ ~Forwarded(c)
    BY <1>1, <1>2 DEF CallInv, ForwardCall, Unheard
  <2> QED BY <1>2, <2>1 DEF ForwardCall, Forwarded
<1>7. AnswerCall(c)'
  BY <1>2, <1>4 DEF AnswerCall
<1> QED BY <1>3, <1>4, <1>5, <1>6, <1>7 DEF CallInv

\* Overflow ends the pair; a pair that ended takes nothing.
LEMMA NotAdmitted ==
  ASSUME PairInv, P!Overflow \/ (closed /\ UNCHANGED pair)
  PROVE  PairInv' /\ \A d \in Calls : (Unheard(d) => Unheard(d)') /\ Moves(d) /\ Runs(d)
<1>1. CASE P!End
  BY <1>1, EndKeeps, EndMoves
<1>2. CASE UNCHANGED pair
  BY <1>2, SamePair
<1> QED BY <1>1, <1>2 DEF P!Overflow

LEMMA SendToPairKeeps ==
  ASSUME ForwardInv, NEW c \in Calls, SendToPair(c)
  PROVE  ForwardInv'
<1>1. /\ c \in setting.to["pair"] /\ c \notin sent /\ sent' = sent \cup {c}
      /\ UNCHANGED <<wire, passing, setting>>
      /\ P!Admit(c, KeyOf[c]) \/ P!Overflow \/ (closed /\ UNCHANGED pair)
  BY DEF SendToPair
<1>2. PairInv /\ WireInv /\ SentInv
  BY DEF ForwardInv
<1>3. SentInv' /\ \A d \in Calls : Tried(d) => Tried(d)'
  BY <1>1, <1>2, SentGrows
<1>4. WireInv' /\ \A d \in Calls : WireMoves(d)
  BY <1>1, <1>2, SameWire
<1>5. CASE P!Admit(c, KeyOf[c])
  <2>1. ~Tried(c) /\ ~OnWire(c) /\ Tried(c)' /\ passing'[c] # "returned" /\ KeyOf[c] \in AllKeys
    BY <1>1, <1>2, SettingFacts DEF Tried
  <2>2. UNCHANGED <<remote, slots, setting>>
    BY <1>1 DEF wire
  <2>3. /\ PairInv' /\ CallInv(c)'
        /\ \A d \in Calls : d # c => (Unheard(d) => Unheard(d)') /\ Moves(d) /\ Runs(d)
    BY <1>5, <2>1, <2>2, AdmittedCall
  <2>4. \A d \in Calls : Steps(d) \/ CallInv(d)'
    BY <1>1, <1>3, <1>4, <2>3 DEF Steps
  <2> QED BY <1>1, <1>3, <1>4, <2>3, <2>4, StepKeeps
<1>6. CASE P!Overflow \/ (closed /\ UNCHANGED pair)
  <2>1. PairInv' /\ \A d \in Calls : (Unheard(d) => Unheard(d)') /\ Moves(d) /\ Runs(d)
    BY <1>2, <1>6, NotAdmitted
  <2>2. \A d \in Calls : Steps(d)
    BY <1>1, <1>3, <1>4, <2>1 DEF Steps
  <2> QED BY <1>1, <1>3, <1>4, <2>1, <2>2, StepKeeps
<1> QED BY <1>1, <1>5, <1>6

LEMMA PeerPassesKeeps ==
  ASSUME ForwardInv, NEW c \in Calls, PeerPasses(c)
  PROVE  ForwardInv'
<1>1. /\ c \in setting.passes /\ passing[c] = "none" /\ UNCHANGED <<wire, sent, setting>>
      /\ \/ P!Admit(c, c) /\ passing' = [passing EXCEPT ![c] = "waiting"]
         \/ (P!Overflow \/ (closed /\ UNCHANGED pair)) /\ passing' = [passing EXCEPT ![c] = "returned"]
  BY DEF PeerPasses
<1>2. PairInv /\ WireInv /\ SentInv /\ CallInv(c)
  BY DEF ForwardInv
<1>3. ~Tried(c) /\ ~OnWire(c) /\ c \in AllKeys
  BY <1>1, <1>2, SettingFacts DEF Tried
<1>4. WireInv' /\ \A d \in Calls : WireMoves(d)
  BY <1>1, <1>2, SameWire
<1>5. CASE P!Admit(c, c) /\ passing' = [passing EXCEPT ![c] = "waiting"]
  <2>1. /\ SentInv' /\ \A d \in Calls : Tried(d) => Tried(d)'
        /\ passing'[c] = "waiting" /\ \A d \in Calls : d # c => passing'[d] = passing[d]
    BY <1>1, <1>2, <1>5, PassingMoves
  <2>2. UNCHANGED <<remote, slots, setting>> /\ Tried(c)'
    BY <1>1, <2>1 DEF wire, Tried
  <2>3. /\ PairInv' /\ CallInv(c)'
        /\ \A d \in Calls : d # c => (Unheard(d) => Unheard(d)') /\ Moves(d) /\ Runs(d)
    BY <1>3, <1>5, <2>1, <2>2, AdmittedCall
  <2>4. \A d \in Calls : Steps(d) \/ CallInv(d)'
    BY <1>4, <2>1, <2>3 DEF Steps
  <2> QED BY <1>1, <1>4, <2>1, <2>3, <2>4, StepKeeps
<1>6. CASE /\ P!Overflow \/ (closed /\ UNCHANGED pair)
           /\ passing' = [passing EXCEPT ![c] = "returned"]
  <2>1. /\ SentInv' /\ \A d \in Calls : Tried(d) => Tried(d)'
        /\ passing'[c] = "returned" /\ \A d \in Calls : d # c => passing'[d] = passing[d]
    BY <1>1, <1>2, <1>6, PassingMoves
  <2>2. PairInv' /\ \A d \in Calls : (Unheard(d) => Unheard(d)') /\ Moves(d) /\ Runs(d)
    BY <1>2, <1>6, NotAdmitted
  <2>3. Unheard(c)'
    BY <1>2, <1>3, <2>2 DEF CallInv, FreshCall
  <2>4. \A d \in Calls : Steps(d)
    BY <1>4, <2>1, <2>2, <2>3 DEF Steps
  <2> QED BY <1>1, <1>4, <2>1, <2>2, <2>4, StepKeeps
<1> QED BY <1>1, <1>5, <1>6

LEMMA PeerWithdrawsKeeps ==
  ASSUME ForwardInv, NEW c \in Calls, PeerWithdraws(c)
  PROVE  ForwardInv'
<1>1. /\ passing[c] = "waiting" /\ passing' = [passing EXCEPT ![c] = "withdrawn"]
      /\ P!Cancel(c) \/ UNCHANGED pair
      /\ UNCHANGED <<wire, sent, setting>>
  BY DEF PeerWithdraws
<1>2. PairInv /\ WireInv /\ SentInv
  BY DEF ForwardInv
<1>3. c \in setting.passes /\ c \in AllKeys
  BY <1>1, <1>2 DEF SentInv, AllKeys
<1>4. /\ SentInv' /\ \A d \in Calls : Tried(d) => Tried(d)'
      /\ passing'[c] = "withdrawn" /\ \A d \in Calls : d # c => passing'[d] = passing[d]
  BY <1>1, <1>2, <1>3, PassingMoves
<1>5. WireInv' /\ \A d \in Calls : WireMoves(d)
  BY <1>1, <1>2, SameWire
<1>6. PairInv' /\ \A d \in Calls : (Unheard(d) => Unheard(d)') /\ Moves(d) /\ Runs(d)
  BY <1>1, <1>2, <1>3, CancelKeeps, CancelMoves, SamePair
<1>7. \A d \in Calls : Steps(d)
  BY <1>4, <1>5, <1>6 DEF Steps
<1> QED BY <1>1, <1>4, <1>5, <1>6, <1>7, StepKeeps

LEMMA PeerResumesKeeps ==
  ASSUME ForwardInv, NEW c \in Calls, PeerResumes(c)
  PROVE  ForwardInv'
<1>1. /\ passing[c] # "none" /\ answers[c] > 0 /\ passing' = [passing EXCEPT ![c] = "returned"]
      /\ UNCHANGED <<pair, wire, sent, setting>>
  BY DEF PeerResumes
<1>2. PairInv /\ WireInv /\ SentInv
  BY DEF ForwardInv
<1>3. c \in setting.passes
  BY <1>1, <1>2 DEF SentInv
<1>4. /\ SentInv' /\ \A d \in Calls : Tried(d) => Tried(d)'
      /\ passing'[c] = "returned" /\ \A d \in Calls : d # c => passing'[d] = passing[d]
  BY <1>1, <1>2, <1>3, PassingMoves
<1>5. WireInv' /\ \A d \in Calls : WireMoves(d)
  BY <1>1, <1>2, SameWire
<1>6. PairInv' /\ \A d \in Calls : (Unheard(d) => Unheard(d)') /\ Moves(d) /\ Runs(d)
  BY <1>1, <1>2, SamePair
<1>7. \A d \in Calls : Steps(d)
  BY <1>1, <1>4, <1>5, <1>6 DEF Steps
<1> QED BY <1>1, <1>4, <1>5, <1>6, <1>7, StepKeeps

LEMMA SendToWireKeeps ==
  ASSUME ForwardInv, NEW c \in Calls, SendToWire(c)
  PROVE  ForwardInv'
<1>1. /\ OnWire(c) /\ c \notin sent /\ sent' = sent \cup {c}
      /\ UNCHANGED <<pair, passing, setting>>
      /\ W!Admit(c, KeyOf[c]) \/ W!Refused
  BY DEF SendToWire, OnWire
<1>2. PairInv /\ WireInv /\ SentInv /\ CallInv(c)
  BY DEF ForwardInv
<1>3. SentInv' /\ \A d \in Calls : Tried(d) => Tried(d)'
  BY <1>1, <1>2, SentGrows
<1>4. PairInv' /\ \A d \in Calls : (Unheard(d) => Unheard(d)') /\ Moves(d) /\ Runs(d)
  BY <1>1, <1>2, SamePair
<1>5. CASE W!Admit(c, KeyOf[c])
  <2>1. KeyOf[c] \in AllKeys /\ KeyOf[c] # c /\ remote[c].stage = "unsent" /\ Tried(c)'
    BY <1>1, <1>2, <1>5, SettingFacts DEF W!Admit, Tried
  <2>2. /\ WireInv' /\ remote'[c].key = KeyOf[c] /\ remote'[c].stage \in {"queued", "refused"}
        /\ \A d \in Calls : d # c => remote'[d] = remote[d] /\ (W!Holds(d)' <=> W!Holds(d))
    BY <1>2, <1>5, <2>1, WireAdmitKeeps
  <2>3. \A d \in Calls : d # c => WireMoves(d)
    BY <2>2 DEF WireMoves
  <2>4. OnWire(c)' /\ ~(Forwarded(c)')
    BY <1>1, <2>1, <2>2 DEF OnWire, Forwarded
  <2>5. answers[c] = 0 /\ answers' = answers /\ Unheard(c)'
    BY <1>1, <1>2, <1>4, <2>1 DEF CallInv, AnswerCall, FreshCall, pair
  <2>6. FreshCall(c)'
    BY <2>1, <2>5 DEF FreshCall
  <2>7. ForwardCall(c)'
    BY <2>1, <2>4 DEF ForwardCall
  <2>8. AnswerCall(c)'
    BY <2>2, <2>4, <2>5 DEF AnswerCall
  <2>9. \A d \in Calls : Steps(d) \/ CallInv(d)'
    BY <1>1, <1>3, <1>4, <2>3, <2>6, <2>7, <2>8 DEF Steps, CallInv
  <2> QED BY <1>1, <1>3, <1>4, <2>2, <2>9, StepKeeps
<1>6. CASE W!Refused
  <2>1. WireInv' /\ \A d \in Calls : WireMoves(d)
    BY <1>2, <1>6, WireEndKeeps
  <2>2. \A d \in Calls : Steps(d)
    BY <1>1, <1>3, <1>4, <2>1 DEF Steps
  <2> QED BY <1>1, <1>3, <1>4, <2>1, <2>2, StepKeeps
<1> QED BY <1>1, <1>5, <1>6

LEMMA SentSame ==
  ASSUME ForwardInv, UNCHANGED <<sent, passing, setting>>
  PROVE  SentInv' /\ \A d \in Calls : (Tried(d) => Tried(d)') /\ passing'[d] = passing[d]
BY DEF ForwardInv, SentInv, OnWire, Tried

LEMMA StopsTyped ==
  ASSUME PairInv, Stops \/ UNCHANGED receiver
  PROVE  receiver' \in P!Receivers
BY DEF PairInv, P!TypeOK, Stops, P!Receivers

\* A request that the pair's receiver put on the wire is its own from then on.
LEMMA ForwardRequestKeeps ==
  ASSUME ForwardInv, ForwardRequest
  PROVE  ForwardInv'
<1>1. PICK c : c = hand.of.call
  OBVIOUS
<1>2. /\ P!Holding("deliver", "request") /\ UNCHANGED <<sent, passing, setting>>
      /\ \/ W!Admit(c, c) /\ P!Delivered("forward") /\ UNCHANGED receiver
         \/ W!Refused /\ P!Undelivered("forward") /\ Stops
  BY <1>1 DEF ForwardRequest
<1>3. PairInv /\ WireInv /\ SentInv /\ P!TypeOK /\ PairCalls
  BY DEF ForwardInv, PairInv
<1>4. c \in Calls /\ Delivering(c) /\ c \in AllKeys
  BY <1>1, <1>2, <1>3, HandFacts DEF P!Holding, Delivering, AllKeys
<1>5. CallInv(c) /\ PairCall(c)
  BY <1>3, <1>4 DEF ForwardInv, PairCalls
<1>6. ~OnWire(c) /\ Tried(c)
  BY <1>4, <1>5 DEF CallInv, FreshCall, Unheard
<1>7. SentInv' /\ \A d \in Calls : (Tried(d) => Tried(d)') /\ passing'[d] = passing[d]
  BY <1>2, SentSame
<1>8. CASE W!Admit(c, c) /\ P!Delivered("forward") /\ UNCHANGED receiver
  <2>1. receiver' \in P!Receivers
    BY <1>3, <1>8, StopsTyped
  <2>2. PairInv' /\ \A d \in Calls : Unheard(d) => Unheard(d)'
    BY <1>3, <1>8, <2>1, DeliveredKeeps
  <2>3. /\ \A d \in Calls : Moves(d) /\ Runs(d)
        /\ call'[c].work = "running" /\ call'[c].by = "forward"
    BY <1>1, <1>2, <1>3, <1>8, DeliveredMoves DEF P!Holding
  <2>4. /\ WireInv' /\ remote'[c].key = c /\ remote'[c].stage \in {"queued", "refused"}
        /\ \A d \in Calls : d # c => remote'[d] = remote[d] /\ (W!Holds(d)' <=> W!Holds(d))
    BY <1>3, <1>4, <1>8, WireAdmitKeeps
  <2>5. \A d \in Calls : d # c => WireMoves(d)
    BY <2>4 DEF WireMoves
  <2>6. ~(OnWire(c)') /\ Tried(c)'
    BY <1>2, <1>6, <1>7, <1>4 DEF OnWire
  <2>7. ForwardCall(c)'
    BY <2>3, <2>4, <2>6 DEF ForwardCall, Forwarded
  <2>8. answers' = answers
    BY <1>8 DEF P!Delivered
  <2>9. FreshCall(c)'
    <3>1. passing'[c] = "returned" => answers'[c] > 0 \/ Unheard(c)'
      BY <1>4, <1>5, <1>7, <2>2, <2>8 DEF CallInv, FreshCall
    <3> QED BY <2>6, <3>1 DEF FreshCall
  <2>10. AnswerCall(c)'
    <3>1. ~Idle(c)
      BY <1>4, <1>5 DEF PairCall, Idle, Unserving
    <3>2. /\ call[c].responded => answers[c] = 1
          /\ ~call[c].responded => answers[c] = 0
      BY <1>5, <1>6, <3>1 DEF CallInv, AnswerCall
    <3>3. call'[c].responded <=> call[c].responded
      BY <1>4, <2>3, <2>8, <3>1, <3>2 DEF P!Delivered, P!TypeOK, Moves, Silent, Speaks, Refuses, PairInv, Unserving, Idle
    <3> QED BY <2>6, <2>8, <3>2, <3>3 DEF AnswerCall
  <2>11. \A d \in Calls : Steps(d) \/ CallInv(d)'
    BY <1>7, <2>2, <2>3, <2>5, <2>7, <2>9, <2>10 DEF Steps, CallInv
  <2> QED BY <1>2, <1>7, <2>2, <2>4, <2>11, StepKeeps
<1>9. CASE W!Refused /\ P!Undelivered("forward") /\ Stops
  <2>1. receiver' \in P!Receivers
    BY <1>3, <1>9, StopsTyped
  <2>2. PairInv' /\ \A d \in Calls : (Unheard(d) => Unheard(d)') /\ Moves(d) /\ Runs(d)
    BY <1>3, <1>9, <2>1, UndeliveredKeeps, LoopAnswerMoves
  <2>3. WireInv' /\ \A d \in Calls : WireMoves(d)
    BY <1>3, <1>9, WireEndKeeps
  <2>4. \A d \in Calls : Steps(d)
    BY <1>7, <2>2, <2>3 DEF Steps
  <2> QED BY <1>2, <1>7, <2>2, <2>3, <2>4, StepKeeps
<1> QED BY <1>2, <1>8, <1>9

LEMMA ForwardOtherKeeps ==
  ASSUME ForwardInv, ForwardCancel \/ ForwardEvent
  PROVE  ForwardInv'
<1>1. PICK c : c = hand.of.call
  OBVIOUS
<1>2. PairInv /\ WireInv /\ SentInv /\ P!TypeOK
  BY DEF ForwardInv, PairInv
<1>3. P!Delivered("forward") /\ UNCHANGED <<sent, passing, setting>> /\ (Stops \/ UNCHANGED receiver)
  BY DEF ForwardCancel, ForwardEvent
<1>4. WireInv' /\ \A d \in Calls : WireMoves(d)
  <2>1. CASE ForwardCancel
    <3>1. c \in AllKeys
      BY <1>1, <1>2, <2>1, HandFacts DEF ForwardCancel, P!Holding, AllKeys
    <3>2. W!Cancel(c) \/ W!CancelDropped(c) \/ UNCHANGED wire
      BY <1>1, <2>1 DEF ForwardCancel
    <3> QED BY <1>2, <3>1, <3>2, WireCancelMoves, SameWire
  <2>2. CASE ForwardEvent
    <3>1. CASE W!AdmitEvent
      <4>1. UNCHANGED <<slots, remote>>
        BY <3>1 DEF W!AdmitEvent
      <4> QED BY <1>2, <3>1, <4>1, WireEventKeeps, StillWire
    <3>2. CASE W!Refused
      BY <1>2, <3>2, WireEndKeeps
    <3> QED BY <2>2, <3>1, <3>2 DEF ForwardEvent
  <2> QED BY <2>1, <2>2
<1>5. receiver' \in P!Receivers
  BY <1>2, <1>3, StopsTyped
<1>6. PairInv' /\ \A d \in Calls : (Unheard(d) => Unheard(d)') /\ Moves(d) /\ Runs(d)
  BY <1>2, <1>3, <1>5, DeliveredKeeps, DeliveredMoves
<1>7. SentInv' /\ \A d \in Calls : (Tried(d) => Tried(d)') /\ passing'[d] = passing[d]
  BY <1>3, SentSame
<1>8. \A d \in Calls : Steps(d)
  BY <1>4, <1>6, <1>7 DEF Steps
<1> QED BY <1>3, <1>4, <1>6, <1>7, <1>8, StepKeeps

\* An answer on the wire reaches the direct caller, or the pair's handler that
\* waits for it: the wire no longer holds the call, or has it complete.
LEMMA WireAnswerKeeps ==
  ASSUME ForwardInv, WireInv', NEW c \in Calls, Answers(c), UNCHANGED <<sent, passing, setting>>,
         remote[c].stage \in {"refused", "returned"}, remote'[c].stage = "settled",
         ~W!Holds(c)' \/ remote'[c].completed,
         \A d \in Calls : /\ W!Holds(d)' <=> W!Holds(d)
                          /\ d # c => remote'[d] = remote[d]
                          /\ remote'[d].key = remote[d].key /\ remote'[d].completed = remote[d].completed
  PROVE  ForwardInv'
<1>1. PairInv /\ P!TypeOK /\ CallInv(c)
  BY DEF ForwardInv, PairInv
<1>2. SentInv' /\ \A d \in Calls : (Tried(d) => Tried(d)') /\ passing'[d] = passing[d]
  BY SentSame
<1>3. \A d \in Calls : d # c => WireMoves(d)
  BY DEF WireMoves
<1>4. CASE Forwarded(c)
  <2>1. P!Answer(c) /\ ~OnWire(c)
    BY <1>1, <1>4 DEF Answers, CallInv, ForwardCall
  <2>2. PairInv' /\ \A d \in Calls : Unheard(d) => Unheard(d)'
    BY <1>1, <2>1, AnswerKeeps
  <2>3. \A d \in Calls : Moves(d) /\ (d # c => Runs(d))
    BY <1>1, <2>1, AnswerMoves
  <2>4. WireMoves(c)
    BY <2>1 DEF WireMoves
  <2>5. \A d \in Calls : Steps(d)
    BY <1>2, <1>3, <2>2, <2>3, <2>4 DEF Steps
  <2> QED BY <1>2, <2>2, <2>5, StepKeeps
<1>5. CASE ~Forwarded(c)
  <2>1. /\ answers' = [answers EXCEPT ![c] = @ + 1]
        /\ UNCHANGED <<closed, queue, table, call, hand, receiver>>
    BY <1>5 DEF Answers
  <2>2. OnWire(c) /\ Tried(c) /\ Unheard(c) /\ answers[c] = 0
    BY <1>1, <1>5 DEF CallInv, ForwardCall, FreshCall, AnswerCall
  <2>3. answers'[c] = 1 /\ answers' \in [Calls -> Nat] /\ \A d \in Calls : d # c => answers'[d] = answers[d]
    BY <1>1, <2>1, <2>2 DEF P!TypeOK
  <2>4. PairInv' /\ \A d \in Calls : Unheard(d) => Unheard(d)'
    <3>1. P!TypeOK'
      BY <1>1, <2>1, <2>3 DEF P!TypeOK
    <3>2. PairQueueInv' /\ \A y : Pending(y)' <=> Pending(y)
      BY <1>1, <2>1, PairKeeps DEF PairInv
    <3>3. \A d \in Calls : /\ Pending(Refusal(d))' => Pending(Refusal(d)) /\ answers'[d] = answers[d]
                           /\ Delivering(d)' => Delivering(d)
      BY <2>1, <2>2, <2>3, <3>2 DEF Unheard, Delivering
    <3> QED BY <1>1, <2>1, <3>1, <3>2, <3>3, RestKeeps
  <2>5. \A d \in Calls : d # c => Moves(d) /\ Runs(d)
    <3> SUFFICES ASSUME NEW d \in Calls, d # c PROVE Moves(d) /\ Runs(d)
      OBVIOUS
    <3>1. P!Holds(d)' => P!Holds(d)
      BY <1>1, <2>1, HoldsLess
    <3> QED BY <2>1, <2>3, <3>1, StillCall
  <2>6. OnWire(c)' /\ Tried(c)' /\ ~(Forwarded(c)') /\ Unheard(c)'
    BY <1>2, <1>5, <2>2, <2>4 DEF OnWire, Forwarded
  <2>7. FreshCall(c)'
    BY <2>3, <2>6 DEF FreshCall
  <2>8. ForwardCall(c)'
    BY <2>6 DEF ForwardCall
  <2>9. AnswerCall(c)'
    BY <2>3, <2>6 DEF AnswerCall
  <2>10. \A d \in Calls : Steps(d) \/ CallInv(d)'
    BY <1>2, <1>3, <2>4, <2>5, <2>7, <2>8, <2>9 DEF Steps, CallInv
  <2> QED BY <1>2, <2>4, <2>10, StepKeeps
<1> QED BY <1>4, <1>5

LEMMA NextKeeps ==
  ASSUME ForwardInv, [Next]_vars
  PROVE  ForwardInv'
<1>1. PairInv /\ WireInv /\ SentInv /\ \A c \in Calls : CallInv(c)
  BY DEF ForwardInv
<1>2. P!TypeOK /\ Keys \subseteq AllKeys
  BY <1>1 DEF PairInv, AllKeys
<1>3. CASE EmitToPair
  <2>1. CASE P!AdmitEvent
    <3>1. UNCHANGED <<table, call, answers>>
      BY <2>1 DEF P!AdmitEvent
    <3>2. PairInv' /\ \A d \in Calls : (Unheard(d) => Unheard(d)') /\ Moves(d) /\ Runs(d)
      BY <1>1, <1>2, <2>1, <3>1, AdmitEventKeeps, StillPair
    <3> QED BY <1>3, <3>2, PairStepKeeps DEF EmitToPair
  <2>2. CASE P!Overflow
    <3>1. PairInv' /\ \A d \in Calls : (Unheard(d) => Unheard(d)') /\ Moves(d) /\ Runs(d)
      BY <1>1, <2>2, NotAdmitted
    <3> QED BY <1>3, <3>1, PairStepKeeps DEF EmitToPair
  <2> QED BY <1>3, <2>1, <2>2 DEF EmitToPair
<1>4. CASE EmitToWire
  <2>1. CASE W!AdmitEvent
    <3>1. UNCHANGED <<slots, remote>>
      BY <2>1 DEF W!AdmitEvent
    <3>2. WireInv' /\ \A d \in Calls : WireMoves(d)
      BY <1>1, <2>1, <3>1, WireEventKeeps, StillWire
    <3> QED BY <1>4, <3>2, WireStepKeeps DEF EmitToWire
  <2>2. CASE W!Overflow
    <3>1. WireInv' /\ \A d \in Calls : WireMoves(d)
      BY <1>1, <2>2, WireEndKeeps DEF W!Refused
    <3> QED BY <1>4, <3>1, WireStepKeeps DEF EmitToWire
  <2> QED BY <1>4, <2>1, <2>2 DEF EmitToWire
<1>5. CASE Closes \/ AppStalls
  <2>1. P!End /\ UNCHANGED <<wire, sent, passing, setting>>
    BY <1>5 DEF Closes, AppStalls, P!EventStalls
  <2> QED BY <1>1, <2>1, EndKeeps, EndMoves, PairStepKeeps
<1>6. CASE PeerEnds
  BY <1>1, <1>6, WireEndKeeps, WireStepKeeps DEF PeerEnds
<1>7. CASE AppTakes
  <2>1. P!Delivered("app") /\ receiver' \in P!Receivers /\ UNCHANGED <<wire, sent, passing, setting>>
    BY <1>2, <1>7 DEF AppTakes, P!TypeOK
  <2> QED BY <1>1, <2>1, DeliveredKeeps, DeliveredMoves, PairStepKeeps
<1>8. CASE Receives \/ Detaches
  <2>1. /\ UNCHANGED <<closed, queue, table, call, hand, answers>> /\ receiver' \in P!Receivers
        /\ UNCHANGED <<wire, sent, passing, setting>>
    BY <1>8 DEF Receives, Detaches, P!Receive, P!Detach, P!Receivers
  <2> QED BY <1>1, <1>2, <2>1, RegisterKeeps, StillPair, PairStepKeeps
<1>9. CASE Forwarding
  BY <1>9, ForwardRequestKeeps, ForwardOtherKeeps DEF Forwarding
<1>10. CASE PairLoop
  BY <1>1, <1>10, LoopKeeps, PairStepKeeps DEF PairLoop
<1>11. CASE WireLoop
  BY <1>1, <1>11, WireLoopKeeps, WireStepKeeps DEF WireLoop
<1>12. CASE WireRefuses
  <2>1. PICK c : c = carried.call
    OBVIOUS
  <2>2. W!Refuse /\ Answers(c) /\ UNCHANGED <<sent, passing, setting>>
    BY <1>12, <2>1 DEF WireRefuses
  <2>3. /\ c \in Calls /\ remote[c].stage = "refused" /\ ~W!Holds(c)
        /\ WireInv' /\ \A d \in Calls : W!Holds(d)' <=> W!Holds(d)
        /\ \A d \in Calls : /\ d # c => remote'[d] = remote[d]
                            /\ remote'[d].key = remote[d].key /\ remote'[d].completed = remote[d].completed
        /\ remote'[c].stage = "settled"
    BY <1>1, <2>1, <2>2, WireRefuseKeeps
  <2> QED BY <2>2, <2>3, WireAnswerKeeps
<1>13. ASSUME NEW c \in Calls, WireAnswers(c) PROVE ForwardInv'
  <2>1. W!Respond(c) /\ Answers(c) /\ UNCHANGED <<sent, passing, setting>>
    BY <1>13 DEF WireAnswers
  <2>2. /\ remote[c].stage = "returned" /\ remote[c].completed
        /\ WireInv' /\ \A d \in Calls : W!Holds(d)' <=> W!Holds(d)
        /\ \A d \in Calls : /\ d # c => remote'[d] = remote[d]
                            /\ remote'[d].key = remote[d].key /\ remote'[d].completed = remote[d].completed
        /\ remote'[c].stage = "settled"
    BY <1>1, <2>1, RespondKeeps
  <2>3. remote'[c].completed
    BY <2>2
  <2> QED BY <2>1, <2>2, <2>3, WireAnswerKeeps
<1>14. ASSUME NEW c \in Calls, AppAnswers(c) PROVE ForwardInv'
  <2>1. call[c].by # "forward" /\ P!Answer(c) /\ UNCHANGED <<wire, sent, passing, setting>>
    BY <1>14 DEF AppAnswers, InBody
  <2>2. PairInv' /\ \A d \in Calls : Unheard(d) => Unheard(d)'
    BY <1>1, <2>1, AnswerKeeps
  <2>3. \A d \in Calls : Moves(d) /\ Runs(d)
    BY <1>1, <2>1, AnswerMoves
  <2> QED BY <2>1, <2>2, <2>3, PairStepKeeps
<1>15. ASSUME NEW c \in Calls, Completes(c) PROVE ForwardInv'
  BY <1>1, <1>15, CompleteKeeps, CompleteMoves, PairStepKeeps DEF Completes
<1>16. ASSUME NEW c \in Calls, Expires(c) PROVE ForwardInv'
  BY <1>1, <1>16, TimeoutKeeps, TimeoutMoves, PairStepKeeps DEF Expires
<1>17. ASSUME NEW c \in Calls, Returns(c) PROVE ForwardInv'
  BY <1>1, <1>17, CompletedMoves, WireStepKeeps DEF Returns
<1>18. ASSUME NEW k \in Keys, CancelOnPair(k) PROVE ForwardInv'
  BY <1>1, <1>2, <1>18, CancelKeeps, CancelMoves, PairStepKeeps DEF CancelOnPair
<1>19. ASSUME NEW k \in Keys, CancelOnWire(k) PROVE ForwardInv'
  BY <1>1, <1>2, <1>19, WireCancelMoves, WireStepKeeps DEF CancelOnWire
<1>20. CASE UNCHANGED vars
  <2>1. UNCHANGED <<pair, wire, sent, passing, setting>>
    BY <1>20 DEF vars
  <2> QED BY <1>1, <2>1, SamePair, PairStepKeeps
<1>21. CASE Progress
  BY <1>13, <1>15, <1>16, <1>17, <1>21, PeerResumesKeeps DEF Progress
<1>22. CASE \E c \in Calls : \/ SendToPair(c) \/ SendToWire(c) \/ AppAnswers(c)
                             \/ PeerPasses(c) \/ PeerWithdraws(c)
  BY <1>14, <1>22, SendToPairKeeps, SendToWireKeeps, PeerPassesKeeps, PeerWithdrawsKeeps
<1> QED BY <1>3, <1>4, <1>5, <1>6, <1>7, <1>8, <1>9, <1>10, <1>11, <1>12, <1>18, <1>19, <1>20, <1>21, <1>22 DEF Next

LEMMA InitHolds ==
  ASSUME Init
  PROVE  ForwardInv
<1>1. /\ closed = FALSE /\ queue = <<>> /\ hand = P!Nothing /\ receiver = setting.receiver
      /\ table = [k \in AllKeys |-> NoCall] /\ call = [c \in Calls |-> P!Fresh(KeyOf[c])]
      /\ answers = [c \in Calls |-> 0] /\ setting \in Settings
  BY DEF Init, P!Init, AllKeys
<1>2. /\ down = FALSE /\ swept = FALSE /\ frames = <<>> /\ carried = W!Nothing
      /\ slots = [k \in AllKeys |-> NoCall]
      /\ remote = [c \in Calls |-> W!Fresh(KeyOf[c], "unsent")]
      /\ sent = {} /\ passing = [c \in Calls |-> "none"]
  BY DEF Init, W!Init, AllKeys
<1>3. /\ NoCall \notin Calls /\ KeyOf \in [Calls -> Keys] /\ Keys \cap Calls = {}
      /\ setting.receiver \in P!Receivers
      /\ {QueueCapacity, MaxPending, MaxHandlers, WireCapacity, WirePending} \subseteq Nat
  BY <1>1, ForwardAssumption DEF P!Receivers
<1>4. \A c \in Calls : KeyOf[c] \in AllKeys /\ KeyOf[c] # c
  BY <1>3 DEF AllKeys
<1>5. (\A x : ~In(<<>>, x)) /\ Single(<<>>) /\ Cardinality(Weight(<<>>)) = 0 /\ Cardinality({}) = 0
  BY Empties, FS_EmptySet
<1>6. P!Nothing.step = "idle"
  BY NothingTyped
<1>7. \A x \in Items : ~Pending(x) /\ ~Going(x)
  BY <1>1, <1>2, <1>5, <1>6, NothingCarried DEF Pending, Going, P!InHand
<1>8. \A c \in Calls : /\ call[c].key = KeyOf[c] /\ call[c].by = "none" /\ call[c].work = "none"
                       /\ ~call[c].responded /\ ~call[c].completed /\ ~call[c].active
                       /\ ~call[c].cancelQueued /\ call[c] \in CallType
  BY <1>1, <1>4, NewCall
<1>9. \A c \in Calls : /\ remote[c].key = KeyOf[c] /\ remote[c].stage = "unsent"
                       /\ ~remote[c].completed /\ ~remote[c].cancelQueued /\ remote[c] \in RemoteType
  BY <1>2, <1>4 DEF W!Fresh, W!Stages, RemoteType
<1>10. \A c \in Calls : ~P!Holds(c) /\ ~W!Holds(c)
  BY <1>1, <1>2, <1>3, <1>4, <1>8, <1>9 DEF P!Holds, W!Holds
<1>11. PairInv
  <2>1. P!TypeOK
    <3>1. call \in [Calls -> CallType] /\ answers \in [Calls -> Nat]
      BY <1>1, <1>8
    <3>2. table \in [AllKeys -> Calls \cup {NoCall}] /\ queue \in Seq(P!Delivery)
      BY <1>1
    <3> QED BY <1>1, <1>3, <3>1, <3>2, NothingTyped DEF P!TypeOK, AllKeys, CallType
  <2>2. PairQueueInv
    BY <1>1, <1>3, <1>5 DEF PairQueueInv
  <2>3. PairTableInv
    <3>1. P!Slots = {}
      BY <1>1 DEF P!Slots, AllKeys
    <3> QED BY <1>1, <1>3, <1>5, <3>1 DEF PairTableInv
  <2>4. HandlersInv
    <3>1. P!Active = {}
      BY <1>8 DEF P!Active
    <3> QED BY <1>3, <1>5, <3>1 DEF HandlersInv
  <2>5. PairCalls
    BY <1>1, <1>6, <1>7, <1>8, ItemFacts DEF PairCalls, PairCall, Delivering
  <2> QED BY <2>1, <2>2, <2>3, <2>4, <2>5 DEF PairInv
<1>12. WireInv
  <2>1. W!TypeOK
    <3>1. remote \in [Calls -> RemoteType] /\ slots \in [AllKeys -> Calls \cup {NoCall}] /\ frames \in Seq(Items)
      BY <1>2, <1>9
    <3> QED BY <1>2, <3>1, WireTypes
  <2>2. WireQueueInv
    BY <1>2, <1>3, <1>5 DEF WireQueueInv
  <2>3. WireTableInv
    <3>1. W!Slots = {}
      BY <1>2 DEF W!Slots, AllKeys
    <3> QED BY <1>2, <1>3, <1>5, <3>1 DEF WireTableInv
  <2>4. WireCalls
    BY <1>7, <1>9, <1>10, ItemFacts DEF WireCalls, WireCall
  <2> QED BY <2>1, <2>2, <2>3, <2>4 DEF WireInv
<1>13. SentInv
  BY <1>1, <1>2 DEF SentInv
<1>14. \A c \in Calls : CallInv(c)
  <2> TAKE c \in Calls
  <2>1. Unheard(c) /\ answers[c] = 0 /\ passing[c] = "none"
    BY <1>1, <1>2, <1>6, <1>7, <1>8, <1>10, ItemFacts DEF Unheard, Delivering
  <2>2. ~Forwarded(c) /\ remote[c].stage = "unsent"
    BY <1>4, <1>9 DEF Forwarded
  <2> QED BY <1>8, <2>1, <2>2 DEF CallInv, FreshCall, ForwardCall, AnswerCall
<1> QED BY <1>11, <1>12, <1>13, <1>14 DEF ForwardInv

-----------------------------------------------------------------------------
(* The theorems.                                                           *)

LEMMA ForwardInvariant == Spec => []ForwardInv
<1>1. Init => ForwardInv
  BY InitHolds
<1>2. ForwardInv /\ [Next]_vars => ForwardInv'
  BY NextKeeps
<1> QED BY <1>1, <1>2, PTL DEF Spec

\* What is there once takes one place.
LEMMA OnePlace ==
  ASSUME NEW q \in Seq(Items), Single(q), NEW x \in Items, x.kind # "event"
  PROVE  LET S == {i \in 1 .. Len(q) : q[i] = x} IN
         /\ S # {} <=> In(q, x)
         /\ Cardinality(S) = IF In(q, x) THEN 1 ELSE 0
<1> DEFINE S == {i \in 1 .. Len(q) : q[i] = x}
<1>1. S # {} <=> In(q, x)
  BY DEF In
<1>2. CASE In(q, x)
  <2>1. PICK i \in 1 .. Len(q) : q[i] = x
    BY <1>2 DEF In
  <2>2. S = {i}
    BY <2>1 DEF Single
  <2> QED BY <1>1, <1>2, <2>2, FS_Singleton
<1>3. CASE ~In(q, x)
  BY <1>1, <1>3, FS_EmptySet
<1> QED BY <1>1, <1>2, <1>3

LEMMA PairReserved ==
  ASSUME PairInv
  PROVE  P!CancelsReserved /\ P!HandlersCounted
<1>1. P!TypeOK /\ PairQueueInv /\ PairTableInv /\ HandlersInv /\ PairCalls /\ queue \in Seq(Items)
  BY SameItems DEF PairInv, P!TypeOK
<1>2. P!Data(queue) <= QueueCapacity /\ P!Cardinality(P!Slots) <= MaxPending
  BY <1>1, SameData, SameCardinality DEF PairQueueInv, PairTableInv
<1>3. ASSUME NEW c \in Calls
      PROVE  LET d == [kind |-> "cancel", call |-> c] IN
             /\ P!Cardinality(P!Queued(d)) + (IF P!InHand(d) THEN 1 ELSE 0) <= 1
             /\ ~closed => (call[c].cancelQueued <=> P!InHand(d) \/ P!Queued(d) # {})
             /\ ~closed /\ call[c].cancelQueued => P!Holds(c)
  <2> DEFINE d == Cancelling(c)
  <2>1. d \in Items /\ d.kind = "cancel" /\ d = [kind |-> "cancel", call |-> c]
    BY ItemFacts DEF Cancelling
  <2>2. /\ P!Queued(d) # {} <=> In(queue, d)
        /\ P!Cardinality(P!Queued(d)) = IF In(queue, d) THEN 1 ELSE 0
    <3>1. Single(queue) /\ d.kind # "event"
      BY <1>1, <2>1 DEF PairQueueInv
    <3> HIDE DEF d
    <3> QED BY <1>1, <2>1, <3>1, OnePlace, SameCardinality DEF P!Queued
  <2>3. P!InHand(d) => ~In(queue, d)
    BY <1>1, <2>1 DEF PairQueueInv
  <2>4. PairCall(c)
    BY <1>1 DEF PairCalls
  <2> QED BY <2>1, <2>2, <2>3, <2>4 DEF PairCall, Pending
<1>4. P!HandlersCounted
  BY <1>1, SameCardinality DEF P!HandlersCounted, HandlersInv, PairCalls, PairCall
<1> QED BY <1>2, <1>3, <1>4 DEF P!CancelsReserved

LEMMA WireReserved ==
  ASSUME WireInv
  PROVE  W!CancelsReserved
<1>1. W!TypeOK /\ WireQueueInv /\ WireTableInv /\ WireCalls /\ frames \in Seq(Items)
  BY SameItems DEF WireInv, W!TypeOK
<1>2. W!Data(frames) <= WireCapacity /\ W!Cardinality(W!Slots) <= WirePending
  BY <1>1, SameData, SameCardinality DEF WireQueueInv, WireTableInv
<1>3. ASSUME NEW c \in Calls
      PROVE  LET f == [kind |-> "cancel", call |-> c] IN
             /\ W!Cardinality(W!Queued(f)) + (IF carried = f THEN 1 ELSE 0) <= 1
             /\ ~swept => (remote[c].cancelQueued <=> carried = f \/ W!Queued(f) # {})
             /\ ~swept /\ remote[c].cancelQueued => W!Holds(c)
  <2> DEFINE f == Cancelling(c)
  <2>1. f \in Items /\ f.kind = "cancel" /\ f = [kind |-> "cancel", call |-> c]
    BY ItemFacts DEF Cancelling
  <2>2. /\ W!Queued(f) # {} <=> In(frames, f)
        /\ W!Cardinality(W!Queued(f)) = IF In(frames, f) THEN 1 ELSE 0
    <3>1. Single(frames) /\ f.kind # "event"
      BY <1>1, <2>1 DEF WireQueueInv
    <3> HIDE DEF f
    <3> QED BY <1>1, <2>1, <3>1, OnePlace, SameCardinality DEF W!Queued
  <2>3. carried = f => ~In(frames, f)
    BY <1>1, <2>1 DEF WireQueueInv
  <2>4. WireCall(c)
    BY <1>1 DEF WireCalls
  <2> QED BY <2>1, <2>2, <2>3, <2>4 DEF WireCall, Going
<1> QED BY <1>2, <1>3 DEF W!CancelsReserved

LEMMA CallsBounded ==
  ASSUME ForwardInv
  PROVE  BoundsHold
<1>1. PairInv /\ WireInv /\ SentInv /\ PairCalls /\ \A c \in Calls : CallInv(c)
  BY DEF ForwardInv, PairInv
<1>2. ASSUME NEW c \in Calls, Forwarded(c), W!Holds(c), ~remote[c].completed
      PROVE  call[c].work = "running" /\ call[c].active
  BY <1>1, <1>2 DEF CallInv, ForwardCall, PairCalls, PairCall
<1>3. ASSUME NEW c \in setting.passes, InBody(c), ~call[c].responded
      PROVE  passing[c] # "returned"
  <2>1. c \in Calls /\ ~OnWire(c)
    <3>1. c \in Calls
      BY <1>1, ForwardAssumption DEF SentInv
    <3> QED BY <1>1, <3>1, SettingFacts
  <2>2. call[c].active /\ call[c].work = "running"
    BY <1>1, <1>3, <2>1 DEF PairCalls, PairCall, InBody
  <2>3. ~Idle(c) /\ ~Unheard(c)
    BY <2>2 DEF Idle, Unserving, Unheard
  <2> QED BY <1>1, <1>3, <2>1, <2>3 DEF CallInv, FreshCall, AnswerCall
<1> QED BY <1>1, <1>2, <1>3, PairReserved, WireReserved DEF BoundsHold

\* Every variable keeps its type: the carriers' own, what their callers sent and
\* where the peer's handlers stand.
THEOREM ForwardTypes == Spec => []TypeOK
<1>1. ForwardInv => TypeOK
  BY DEF ForwardInv, PairInv, WireInv, SentInv, TypeOK
<1> QED BY <1>1, ForwardInvariant, PTL

\* Neither carrier's queue, slots nor handlers grow past their bounds, each call
\* that keeps its slot has one cancellation, at most, on its way, and the pair's
\* slot and handler's place span the call that it forwarded; a handler of the
\* peer's waits while the body it passed the request to has not answered.
THEOREM BoundsAreKept == Spec => []BoundsHold
BY CallsBounded, ForwardInvariant, PTL

\* A caller is answered at most once, whichever of the handler, the deadline, a
\* refusal, the peer's wire or the end of the pair comes first.
THEOREM AnswersComeOnce == Spec => []AnsweredOnce
<1>1. ForwardInv => AnsweredOnce
  <2> SUFFICES ASSUME ForwardInv, NEW c \in Calls PROVE answers[c] <= 1
    BY DEF AnsweredOnce
  <2> QED BY DEF ForwardInv, CallInv, AnswerCall
<1> QED BY <1>1, ForwardInvariant, PTL
=============================================================================
