---------------------------- MODULE RecordProofs ----------------------------
(***************************************************************************)
(* Theorems about Record, for every value of its constants: from its       *)
(* admission to any follower no message is missed, repeated or overtaken,  *)
(* and Head answers for every message admitted before it was called.       *)
(***************************************************************************)
EXTENDS Record, TLAPS

-----------------------------------------------------------------------------
(* The store: the worker has at most one message more than the target.     *)

StoreInv ==
  /\ head = Len(log)
  /\ \A i \in 1 .. Len(log) : log[i] = i
  /\ At("append") => worker.message = Len(log) + 1
  /\ At("offer") \/ At("endFull") => worker.message = Len(log) /\ Len(log) > Stored
  /\ Stored + Len(sent) <= Len(log)
  /\ \A i \in 1 .. Len(sent) : sent[i] = Stored + i
  /\ ~closed =>
       Len(log) = Stored + Len(sent) + (IF At("offer") \/ At("endFull") THEN 1 ELSE 0)

\* The store is given with the messages in it, and those are whole numbers.
LEMMA StoreInit == Init => StoreInv
BY RecordAssumption DEF Init, StoreInv, At

\* The actions of the worker that touch the store or the target.
LEMMA StoreStep ==
  ASSUME TypeOK, StoreInv, [Next]_vars, At("idle") /\ ~closed /\ queue # <<>> /\
           queue[1].kind = "message" => queue[1].n = Len(log) + 1
  PROVE  StoreInv'
<1> USE RecordAssumption
<1>1. /\ log \in Seq(Nat) /\ sent \in Seq(Nat) /\ Len(log) \in Nat /\ Len(sent) \in Nat
      /\ Stored \in Nat
  BY DEF TypeOK
<1>2. CASE UNCHANGED <<log, head, worker, sent, closed>>
  BY <1>2 DEF StoreInv, At
<1>3. CASE UNCHANGED <<log, head, worker, sent>> /\ closed'
  BY <1>3 DEF StoreInv, At
<1>4. CASE TakeMessage
  <2>1. /\ At("idle") /\ ~closed /\ worker' = [step |-> "append", message |-> queue[1].n]
        /\ queue[1].n = Len(log) + 1 /\ UNCHANGED <<log, head, sent, closed>>
    BY <1>4 DEF TakeMessage, Takes, Goto
  <2> QED BY <1>1, <2>1 DEF StoreInv, At
<1>5. CASE TakeFollow \/ Attach \/ AttachRefused
  <2>1. /\ ~At("offer") /\ ~At("endFull") /\ worker'.step \in {"idle", "attach"}
        /\ UNCHANGED <<log, head, sent, closed>>
    BY <1>5 DEF TakeFollow, Takes, Attach, AttachRefused, Register, Goto, At, recorderVars
  <2> QED BY <1>1, <2>1 DEF StoreInv, At
<1>6. CASE AppendEntry
  <2>1. /\ worker.message = Len(log) + 1 /\ log' = Append(log, Len(log) + 1) /\ head' = Len(log) + 1
        /\ worker' = [step |-> "offer", message |-> worker.message] /\ UNCHANGED <<sent, closed>>
        /\ ~At("offer") /\ ~At("endFull")
    BY <1>6 DEF AppendEntry, StoreInv, At, Goto, recorderVars
  <2>2. Len(log') = Len(log) + 1 /\ \A i \in 1 .. Len(log') : log'[i] = i
    BY <1>1, <2>1 DEF StoreInv
  <2>3. /\ worker'.step = "offer" /\ worker'.message = Len(log')
    BY <2>1, <2>2
  <2>4. At("offer")' /\ ~At("append")' /\ ~At("endFull")'
    BY <2>1 DEF At
  <2>5. Stored + Len(sent) <= Len(log) /\ Len(log') > Stored
    BY <1>1, <2>2 DEF StoreInv
  <2>6. ~closed => Len(log') = Stored + Len(sent) + 1
    BY <1>1, <2>1, <2>2 DEF StoreInv
  <2> QED BY <1>1, <2>1, <2>2, <2>3, <2>4, <2>5, <2>6 DEF StoreInv
<1>7. CASE AppendFails \/ TargetRefuses \/ WorkerStops
  <2>1. worker'.step \in {"idle", "stopped"} /\ closed' /\ UNCHANGED <<log, head, sent>>
    BY <1>7 DEF AppendFails, TargetRefuses, WorkerStops, Goto, End
  <2> QED BY <1>1, <2>1 DEF StoreInv, At
<1>8. CASE Offer
  <2>1. /\ At("offer") /\ worker' = [step |-> "endFull", message |-> worker.message]
        /\ UNCHANGED <<log, head, sent, closed>>
    BY <1>8 DEF Offer, Goto, recorderVars
  <2> QED BY <1>1, <2>1 DEF StoreInv, At
<1>9. CASE SendTarget
  <2>1. /\ At("endFull") /\ ~closed /\ sent' = Append(sent, worker.message)
        /\ worker' = [step |-> "idle", message |-> 0] /\ UNCHANGED <<log, head, closed>>
    BY <1>9 DEF SendTarget, Goto, recorderVars
  <2>2. worker.message = Len(log) /\ Len(log) = Stored + Len(sent) + 1
    BY <2>1 DEF StoreInv
  <2>3. Len(sent') = Len(sent) + 1 /\ \A i \in 1 .. Len(sent') : sent'[i] = Stored + i
    <3>1. worker.message \in Nat
      BY <1>1, <2>2
    <3>2. /\ Len(sent') = Len(sent) + 1 /\ sent'[Len(sent) + 1] = worker.message
          /\ \A i \in 1 .. Len(sent) : sent'[i] = sent[i]
      BY <1>1, <2>1, <3>1
    <3>3. \A i \in 1 .. Len(sent') : i \in 1 .. Len(sent) \/ i = Len(sent) + 1
      BY <1>1, <3>2
    <3>4. \A i \in 1 .. Len(sent) : sent'[i] = Stored + i
      BY <3>2 DEF StoreInv
    <3>5. sent'[Len(sent) + 1] = Stored + (Len(sent) + 1)
      BY <1>1, <2>2, <3>2
    <3> QED BY <3>2, <3>3, <3>4, <3>5
  <2>4. ~At("append")' /\ ~At("offer")' /\ ~At("endFull")'
    BY <2>1 DEF At
  <2> QED BY <1>1, <2>1, <2>2, <2>3, <2>4 DEF StoreInv
<1>10. CASE Send \/ AskHead \/ \E f \in Followers : AskFollow(f)
  BY <1>2, <1>10 DEF Send, AskHead, AskFollow, Admit, workerVars
<1>11. CASE Overflows \/ Close
  BY <1>3, <1>11 DEF Overflows, Close, End, workerVars
<1>12. CASE AnswerHead \/ \E f \in Followers : EndFull(f)
  BY <1>2, <1>12 DEF AnswerHead, EndFull, recorderVars
<1>13. ASSUME NEW f \in Followers,
              Following(f) \/ CloseFollower(f) \/ ContextEnds(f) \/ EndNext(f)
       PROVE  StoreInv'
  BY <1>2, <1>13 DEF Following, Replay, TakeLive, Deliver, FollowerDone, CloseFollower, ContextEnds,
                     EndNext, recorderVars, workerVars
<1>14. CASE UNCHANGED vars
  BY <1>2, <1>14 DEF vars, recorderVars, workerVars
<1> QED
  BY <1>4, <1>5, <1>6, <1>7, <1>8, <1>9, <1>10, <1>11, <1>12, <1>13, <1>14
  DEF Next, Admitting, Appending

-----------------------------------------------------------------------------
(* The queue: the messages in it are those the worker has not taken, in the *)
(* order of their admission, and no Head is behind a message it need not    *)
(* answer for.                                                              *)

\* The last message the worker took.
Worked == IF At("append") THEN worker.message ELSE Len(log)

InOrder(q, lo, hi) ==
  /\ lo <= hi
  /\ \A i \in 1 .. Len(q) :
       /\ q[i].kind = "message" => lo < q[i].n /\ q[i].n <= hi
       /\ q[i].kind = "head" => q[i].n <= hi
  /\ \A k \in lo + 1 .. hi : \E i \in 1 .. Len(q) : q[i].kind = "message" /\ q[i].n = k
  /\ \A i, j \in 1 .. Len(q) :
       i < j /\ q[i].kind # "follow" /\ q[j].kind = "message" => q[i].n < q[j].n

QueueInv ==
  /\ ~closed => InOrder(queue, Worked, admitted)
  /\ \A fence \in fences : fence[2] >= fence[1]

\* One more command behind a queue, and the queue behind its first command.
LEMMA CommandBehind ==
  ASSUME NEW q \in Seq(Commands), NEW c \in Commands
  PROVE  /\ Append(q, c) \in Seq(Commands)
         /\ Len(q) \in Nat /\ Len(Append(q, c)) = Len(q) + 1
         /\ \A i \in 1 .. Len(q) : Append(q, c)[i] = q[i]
         /\ Append(q, c)[Len(q) + 1] = c
         /\ \A i \in 1 .. Len(Append(q, c)) : i \in 1 .. Len(q) \/ i = Len(q) + 1
<1>1. /\ Append(q, c) \in Seq(Commands)
      /\ Len(q) \in Nat /\ Len(Append(q, c)) = Len(q) + 1
      /\ \A i \in 1 .. Len(q) : Append(q, c)[i] = q[i]
      /\ Append(q, c)[Len(q) + 1] = c
  OBVIOUS
<1> QED BY <1>1

LEMMA CommandAhead ==
  ASSUME NEW q \in Seq(Commands), q # <<>>
  PROVE  /\ Tail(q) \in Seq(Commands) /\ Len(q) \in Nat /\ 1 \in 1 .. Len(q) /\ q[1] \in Commands
         /\ Len(Tail(q)) = Len(q) - 1
         /\ \A i \in 1 .. Len(Tail(q)) : Tail(q)[i] = q[i + 1] /\ i + 1 \in 1 .. Len(q)
         /\ \A i \in 1 .. Len(q) : i = 1 \/ (i - 1 \in 1 .. Len(Tail(q)) /\ q[i] = Tail(q)[i - 1])
<1>1. /\ Tail(q) \in Seq(Commands) /\ Len(q) \in Nat /\ Len(q) >= 1 /\ q[1] \in Commands
      /\ Len(Tail(q)) = Len(q) - 1
  OBVIOUS
<1>2. \A i \in 1 .. Len(Tail(q)) : Tail(q)[i] = q[i + 1]
  OBVIOUS
<1>3. \A i \in 1 .. Len(q) : i = 1 \/ (i - 1 \in 1 .. Len(Tail(q)) /\ (i - 1) + 1 = i)
  BY <1>1
<1> QED BY <1>1, <1>2, <1>3

LEMMA CommandTypes ==
  ASSUME NEW c \in Commands
  PROVE  /\ c.kind \in {"message", "head", "follow"}
         /\ c.kind # "follow" => c.n \in Nat
         /\ c.kind = "follow" => c.f \in Followers /\ c.after \in Nat
BY DEF Commands

\* A command is admitted: a follower, a Head, or the next message.
LEMMA OrderBehind ==
  ASSUME NEW q \in Seq(Commands), NEW c \in Commands, NEW lo \in Nat, NEW hi \in Nat,
         InOrder(q, lo, hi)
  PROVE  /\ c.kind = "follow" \/ c = HeadOf(hi) => InOrder(Append(q, c), lo, hi)
         /\ c = Message(hi + 1) => InOrder(Append(q, c), lo, hi + 1)
<1> DEFINE a == Append(q, c)
<1>1. /\ Len(q) \in Nat /\ Len(a) = Len(q) + 1
      /\ \A i \in 1 .. Len(q) : a[i] = q[i]
      /\ a[Len(q) + 1] = c
      /\ \A i \in 1 .. Len(a) : i \in 1 .. Len(q) \/ i = Len(q) + 1
      /\ \A i \in 1 .. Len(q) : i \in 1 .. Len(a)
      /\ Len(q) + 1 \in 1 .. Len(a)
  BY CommandBehind
<1>2. \A i \in 1 .. Len(q) : q[i].kind # "follow" => q[i].n \in Nat /\ q[i].n <= hi
  <2>1. \A i \in 1 .. Len(q) : q[i].kind \in {"message", "head", "follow"} /\ (q[i].kind # "follow" => q[i].n \in Nat)
    BY CommandTypes
  <2> QED BY <2>1 DEF InOrder
<1> HIDE DEF a
<1>3. ASSUME c.kind = "follow" \/ c = HeadOf(hi) PROVE InOrder(a, lo, hi)
  <2>1. /\ c.kind # "message" /\ (c.kind = "head" => c.n = hi)
    BY <1>3 DEF HeadOf
  <2>2. \A i \in 1 .. Len(a) :
          /\ a[i].kind = "message" => lo < a[i].n /\ a[i].n <= hi
          /\ a[i].kind = "head" => a[i].n <= hi
    BY <1>1, <2>1 DEF InOrder
  <2>3. \A k \in lo + 1 .. hi : \E i \in 1 .. Len(a) : a[i].kind = "message" /\ a[i].n = k
    BY <1>1 DEF InOrder
  <2>4. \A i, j \in 1 .. Len(a) :
          i < j /\ a[i].kind # "follow" /\ a[j].kind = "message" => a[i].n < a[j].n
    <3> SUFFICES ASSUME NEW i \in 1 .. Len(a), NEW j \in 1 .. Len(a), i < j,
                        a[i].kind # "follow", a[j].kind = "message"
                 PROVE  a[i].n < a[j].n
      OBVIOUS
    <3>1. j \in 1 .. Len(q)
      BY <1>1, <2>1
    <3>2. i \in 1 .. Len(q)
      BY <1>1, <3>1
    <3> QED BY <1>1, <3>1, <3>2 DEF InOrder
  <2> QED BY <2>2, <2>3, <2>4 DEF InOrder
<1>4. ASSUME c = Message(hi + 1) PROVE InOrder(a, lo, hi + 1)
  <2>1. c.kind = "message" /\ c.n = hi + 1
    BY <1>4 DEF Message
  <2>2. \A i \in 1 .. Len(a) :
          /\ a[i].kind = "message" => lo < a[i].n /\ a[i].n <= hi + 1
          /\ a[i].kind = "head" => a[i].n <= hi + 1
    <3> SUFFICES ASSUME NEW i \in 1 .. Len(a)
                 PROVE  /\ a[i].kind = "message" => lo < a[i].n /\ a[i].n <= hi + 1
                        /\ a[i].kind = "head" => a[i].n <= hi + 1
      OBVIOUS
    <3>1. CASE i \in 1 .. Len(q)
      BY <1>1, <1>2, <3>1 DEF InOrder
    <3>2. CASE i = Len(q) + 1
      BY <1>1, <2>1, <3>2 DEF InOrder
    <3> QED BY <1>1, <3>1, <3>2
  <2>3. \A k \in lo + 1 .. hi + 1 : \E i \in 1 .. Len(a) : a[i].kind = "message" /\ a[i].n = k
    <3> SUFFICES ASSUME NEW k \in lo + 1 .. hi + 1
                 PROVE  \E i \in 1 .. Len(a) : a[i].kind = "message" /\ a[i].n = k
      OBVIOUS
    <3>1. CASE k = hi + 1
      BY <1>1, <2>1, <3>1
    <3>2. CASE k # hi + 1
      <4>1. k \in lo + 1 .. hi
        BY <3>2
      <4>2. PICK i \in 1 .. Len(q) : q[i].kind = "message" /\ q[i].n = k
        BY <4>1 DEF InOrder
      <4> QED BY <1>1, <4>2
    <3> QED BY <3>1, <3>2
  <2>4. \A i, j \in 1 .. Len(a) :
          i < j /\ a[i].kind # "follow" /\ a[j].kind = "message" => a[i].n < a[j].n
    <3> SUFFICES ASSUME NEW i \in 1 .. Len(a), NEW j \in 1 .. Len(a), i < j,
                        a[i].kind # "follow", a[j].kind = "message"
                 PROVE  a[i].n < a[j].n
      OBVIOUS
    <3>1. i \in 1 .. Len(q)
      BY <1>1
    <3>2. CASE j \in 1 .. Len(q)
      BY <1>1, <3>1, <3>2 DEF InOrder
    <3>3. CASE j = Len(q) + 1
      BY <1>1, <1>2, <2>1, <3>1, <3>3
    <3> QED BY <1>1, <3>2, <3>3
  <2>5. lo <= hi + 1
    BY DEF InOrder
  <2> QED BY <2>2, <2>3, <2>4, <2>5 DEF InOrder
<1> QED BY <1>3, <1>4 DEF a

\* The worker takes the first command: a message is the next one, and a Head has
\* nothing before it that was not taken.
LEMMA OrderAhead ==
  ASSUME NEW q \in Seq(Commands), q # <<>>, NEW lo \in Nat, NEW hi \in Nat, InOrder(q, lo, hi)
  PROVE  /\ q[1].kind = "message" => q[1].n = lo + 1 /\ InOrder(Tail(q), lo + 1, hi)
         /\ q[1].kind # "message" => InOrder(Tail(q), lo, hi)
         /\ q[1].kind = "head" => q[1].n <= lo
<1> DEFINE t == Tail(q)
<1>1. /\ t \in Seq(Commands) /\ Len(q) \in Nat /\ 1 \in 1 .. Len(q) /\ q[1] \in Commands
      /\ Len(t) \in Nat
      /\ \A i \in 1 .. Len(t) : t[i] = q[i + 1] /\ i + 1 \in 1 .. Len(q)
      /\ \A i \in 1 .. Len(q) : i = 1 \/ (i - 1 \in 1 .. Len(t) /\ q[i] = t[i - 1])
  BY CommandAhead
<1>2. \A i \in 1 .. Len(q) : /\ q[i].kind \in {"message", "head", "follow"}
                             /\ q[i].kind # "follow" => q[i].n \in Nat
  BY CommandTypes
<1> HIDE DEF t
<1>3. \A i, j \in 1 .. Len(t) :
        i < j /\ t[i].kind # "follow" /\ t[j].kind = "message" => t[i].n < t[j].n
  <2> SUFFICES ASSUME NEW i \in 1 .. Len(t), NEW j \in 1 .. Len(t), i < j,
                      t[i].kind # "follow", t[j].kind = "message"
               PROVE  t[i].n < t[j].n
    OBVIOUS
  <2>1. /\ t[i] = q[i + 1] /\ i + 1 \in 1 .. Len(q) /\ t[j] = q[j + 1] /\ j + 1 \in 1 .. Len(q)
        /\ i + 1 < j + 1
    BY <1>1, SMTT(30)
  <2> QED BY <2>1 DEF InOrder
<1>4. ASSUME NEW k \in lo + 1 .. hi, ~(q[1].kind = "message" /\ q[1].n = k)
      PROVE  \E i \in 1 .. Len(t) : t[i].kind = "message" /\ t[i].n = k
  <2>1. PICK i \in 1 .. Len(q) : q[i].kind = "message" /\ q[i].n = k
    BY DEF InOrder
  <2>2. i # 1
    BY <1>4, <2>1
  <2> QED BY <1>1, <2>1, <2>2
<1>5. ASSUME q[1].kind = "message"
      PROVE  q[1].n = lo + 1 /\ InOrder(t, lo + 1, hi)
  <2>1. lo < q[1].n /\ q[1].n <= hi /\ q[1].n \in Nat
    BY <1>1, <1>2, <1>5 DEF InOrder
  <2>2. q[1].n = lo + 1
    <3>1. lo + 1 \in lo + 1 .. hi
      BY <2>1
    <3>2. PICK i \in 1 .. Len(q) : q[i].kind = "message" /\ q[i].n = lo + 1
      BY <3>1 DEF InOrder
    <3>3. ASSUME 1 < i PROVE FALSE
      <4>1. q[1].n < q[i].n
        BY <1>1, <1>5, <3>2, <3>3 DEF InOrder
      <4> QED BY <2>1, <3>2, <4>1
    <3> QED BY <3>2, <3>3
  <2>3. \A i \in 1 .. Len(t) :
          /\ t[i].kind = "message" => lo + 1 < t[i].n /\ t[i].n <= hi
          /\ t[i].kind = "head" => t[i].n <= hi
    <3> SUFFICES ASSUME NEW i \in 1 .. Len(t)
                 PROVE  /\ t[i].kind = "message" => lo + 1 < t[i].n /\ t[i].n <= hi
                        /\ t[i].kind = "head" => t[i].n <= hi
      OBVIOUS
    <3>1. t[i] = q[i + 1] /\ i + 1 \in 1 .. Len(q) /\ 1 < i + 1
      BY <1>1
    <3>2. q[i + 1].kind = "message" => q[1].n < q[i + 1].n
      BY <1>1, <1>5, <3>1 DEF InOrder
    <3> QED BY <2>2, <3>1, <3>2 DEF InOrder
  <2>4. \A k \in lo + 1 + 1 .. hi : \E i \in 1 .. Len(t) : t[i].kind = "message" /\ t[i].n = k
    <3> SUFFICES ASSUME NEW k \in lo + 1 + 1 .. hi
                 PROVE  \E i \in 1 .. Len(t) : t[i].kind = "message" /\ t[i].n = k
      OBVIOUS
    <3>1. k \in lo + 1 .. hi /\ k # lo + 1
      OBVIOUS
    <3> QED BY <1>4, <2>2, <3>1
  <2>5. lo + 1 <= hi
    BY <2>1
  <2> QED BY <1>3, <2>2, <2>3, <2>4, <2>5 DEF InOrder
<1>6. ASSUME q[1].kind # "message" PROVE InOrder(t, lo, hi)
  <2>1. \A i \in 1 .. Len(t) :
          /\ t[i].kind = "message" => lo < t[i].n /\ t[i].n <= hi
          /\ t[i].kind = "head" => t[i].n <= hi
    BY <1>1 DEF InOrder
  <2>2. \A k \in lo + 1 .. hi : \E i \in 1 .. Len(t) : t[i].kind = "message" /\ t[i].n = k
    BY <1>4, <1>6
  <2>3. lo <= hi
    BY DEF InOrder
  <2> QED BY <1>3, <2>1, <2>2, <2>3 DEF InOrder
<1>7. ASSUME q[1].kind = "head" PROVE q[1].n <= lo
  <2>1. q[1].n \in Nat /\ q[1].n <= hi
    BY <1>1, <1>2, <1>7 DEF InOrder
  <2> SUFFICES ASSUME lo < q[1].n PROVE FALSE
    BY <2>1
  <2>2. q[1].n \in lo + 1 .. hi
    BY <2>1
  <2>3. PICK i \in 1 .. Len(q) : q[i].kind = "message" /\ q[i].n = q[1].n
    BY <2>2 DEF InOrder
  <2>4. 1 < i
    BY <1>7, <2>3
  <2>5. q[1].n < q[i].n
    BY <1>1, <1>7, <2>3, <2>4 DEF InOrder
  <2> QED BY <2>1, <2>3, <2>5
<1> QED BY <1>5, <1>6, <1>7 DEF t

\* What the worker takes is the next message.
LEMMA TakesTheNext ==
  ASSUME TypeOK, QueueInv, At("idle"), ~closed, queue # <<>>, queue[1].kind = "message"
  PROVE  queue[1].n = Len(log) + 1
<1>1. InOrder(queue, Len(log), admitted) /\ Len(log) \in Nat
  BY DEF QueueInv, Worked, At, TypeOK
<1>2. queue \in Seq(Commands) /\ admitted \in Nat
  BY DEF TypeOK
<1> QED BY <1>1, <1>2, OrderAhead

\* The actions of those that admit, and of the worker.
LEMMA QueueStep ==
  ASSUME TypeOK, StoreInv, QueueInv, [Next]_vars
  PROVE  QueueInv'
<1>1. queue \in Seq(Commands) /\ admitted \in Nat /\ Len(log) \in Nat /\ Worked \in Nat
  BY DEF TypeOK, StoreInv, Worked
<1>2. CASE closed' /\ UNCHANGED fences
  BY <1>2 DEF QueueInv
<1>3. CASE UNCHANGED <<queue, admitted, closed, log, fences>> /\ UNCHANGED Worked
  BY <1>3 DEF QueueInv
<1>4. CASE UNCHANGED <<queue, admitted, closed, log, worker, fences>>
  BY <1>3, <1>4 DEF Worked, At
<1>5. CASE Send
  <2>1. /\ queue' = Append(queue, Message(admitted + 1)) /\ admitted' = admitted + 1
        /\ UNCHANGED <<closed, log, worker, fences>>
    BY <1>5 DEF Send, Admit, workerVars
  <2>2. Worked' = Worked
    BY <2>1 DEF Worked, At
  <2>3. Message(admitted + 1) \in Commands
    BY <1>1 DEF Commands, Message
  <2>4. ASSUME ~closed PROVE InOrder(queue', Worked, admitted')
    BY <1>1, <2>1, <2>3, <2>4, OrderBehind DEF QueueInv
  <2> QED BY <2>1, <2>2, <2>4 DEF QueueInv
<1>6. CASE AskHead
  <2>1. /\ queue' = Append(queue, HeadOf(admitted)) /\ admitted' = admitted
        /\ UNCHANGED <<closed, log, worker, fences>>
    BY <1>6 DEF AskHead, Admit, workerVars
  <2>2. Worked' = Worked
    BY <2>1 DEF Worked, At
  <2>3. HeadOf(admitted) \in Commands
    BY <1>1 DEF Commands, HeadOf
  <2>4. ASSUME ~closed PROVE InOrder(queue', Worked, admitted')
    BY <1>1, <2>1, <2>3, <2>4, OrderBehind DEF QueueInv
  <2> QED BY <2>1, <2>2, <2>4 DEF QueueInv
<1>7. CASE \E f \in Followers : AskFollow(f)
  <2>1. PICK f \in Followers : AskFollow(f)
    BY <1>7
  <2>2. PICK after \in 0 .. MaxSequence : Admit(Follow(f, after))
    BY <2>1 DEF AskFollow
  <2>3. /\ queue' = Append(queue, Follow(f, after)) /\ admitted' = admitted
        /\ UNCHANGED <<closed, log, worker, fences>>
    BY <2>1, <2>2 DEF AskFollow, Admit, workerVars
  <2>4. Worked' = Worked
    BY <2>3 DEF Worked, At
  <2>5. Follow(f, after) \in Commands /\ Follow(f, after).kind = "follow"
    BY DEF Commands, Follow
  <2>6. ASSUME ~closed PROVE InOrder(queue', Worked, admitted')
    BY <1>1, <2>3, <2>5, <2>6, OrderBehind DEF QueueInv
  <2> QED BY <2>3, <2>4, <2>6 DEF QueueInv
<1>8. CASE TakeMessage
  <2>1. /\ At("idle") /\ ~closed /\ queue # <<>> /\ queue[1].kind = "message" /\ queue' = Tail(queue)
        /\ worker' = [step |-> "append", message |-> queue[1].n]
        /\ UNCHANGED <<admitted, closed, log, fences>>
    BY <1>8 DEF TakeMessage, Takes, Goto
  <2>2. Worked = Len(log) /\ Worked' = queue[1].n
    BY <2>1 DEF Worked, At
  <2>3. queue[1].n = Worked + 1 /\ InOrder(queue', Worked + 1, admitted)
    BY <1>1, <2>1, OrderAhead DEF QueueInv
  <2> QED BY <2>1, <2>2, <2>3 DEF QueueInv
<1>9. CASE AnswerHead
  <2>1. /\ At("idle") /\ ~closed /\ queue # <<>> /\ queue[1].kind = "head" /\ queue' = Tail(queue)
        /\ fences' = fences \cup {<<queue[1].n, head>>}
        /\ UNCHANGED <<admitted, closed, log, worker>>
    BY <1>9 DEF AnswerHead, Takes
  <2>2. Worked = Len(log) /\ Worked' = Worked /\ head = Len(log)
    BY <2>1 DEF Worked, At, StoreInv
  <2>3. queue[1].n <= Worked /\ InOrder(queue', Worked, admitted)
    BY <1>1, <2>1, OrderAhead DEF QueueInv
  <2> QED BY <2>1, <2>2, <2>3 DEF QueueInv
<1>10. CASE TakeFollow
  <2>1. /\ At("idle") /\ ~closed /\ queue # <<>> /\ queue[1].kind = "follow" /\ queue' = Tail(queue)
        /\ worker'.step = "attach" /\ UNCHANGED <<admitted, closed, log, fences>>
    BY <1>10 DEF TakeFollow, Takes
  <2>2. Worked' = Worked
    BY <2>1 DEF Worked, At
  <2>3. InOrder(queue', Worked, admitted)
    BY <1>1, <2>1, OrderAhead DEF QueueInv
  <2> QED BY <2>1, <2>2, <2>3 DEF QueueInv
<1>11. CASE AppendEntry
  <2>1. /\ Len(log') = Len(log) + 1 /\ worker.message = Len(log) + 1 /\ At("append") /\ ~At("append")'
        /\ UNCHANGED <<queue, admitted, closed, fences>>
    <3>1. log \in Seq(Nat) /\ log' = Append(log, worker.message) /\ worker' = [step |-> "offer", message |-> worker.message]
      BY <1>11 DEF AppendEntry, Goto, TypeOK
    <3>2. At("append") /\ UNCHANGED <<queue, admitted, closed, fences>>
      BY <1>11 DEF AppendEntry, recorderVars
    <3> QED BY <3>1, <3>2 DEF StoreInv, At
  <2> QED BY <2>1 DEF QueueInv, Worked
<1>12. CASE AppendFails \/ TargetRefuses \/ WorkerStops \/ Overflows \/ Close
  BY <1>2, <1>12 DEF AppendFails, TargetRefuses, WorkerStops, Overflows, Close, End, workerVars
<1>13. CASE Attach \/ AttachRefused \/ Offer \/ SendTarget
  <2>1. /\ ~At("append") /\ worker'.step # "append" /\ UNCHANGED <<queue, admitted, closed, log, fences>>
    BY <1>13 DEF Attach, AttachRefused, Register, Offer, SendTarget, At, Goto, recorderVars
  <2> QED BY <1>3, <2>1 DEF Worked, At
<1>14. CASE \E f \in Followers : EndFull(f)
  BY <1>4, <1>14 DEF EndFull, recorderVars
<1>15. ASSUME NEW f \in Followers,
              Following(f) \/ CloseFollower(f) \/ ContextEnds(f) \/ EndNext(f)
       PROVE  QueueInv'
  BY <1>4, <1>15 DEF Following, Replay, TakeLive, Deliver, FollowerDone, CloseFollower, ContextEnds,
                     EndNext, recorderVars, workerVars
<1>16. CASE UNCHANGED vars
  BY <1>4, <1>16 DEF vars, recorderVars, workerVars
<1> QED
  BY <1>5, <1>6, <1>7, <1>8, <1>9, <1>10, <1>11, <1>12, <1>13, <1>14, <1>15, <1>16
  DEF Next, Admitting, Appending

-----------------------------------------------------------------------------
(* Calls of Follow: one that waits has its command in the queue once, or in *)
(* the worker's hands, and only one that runs is in the table.              *)

WaitInv ==
  /\ \A i \in 1 .. Len(queue) : queue[i].kind = "follow" =>
       follow[queue[i].f] = "waiting" /\ (At("attach") => queue[i].f # worker.command.f)
  /\ \A i, j \in 1 .. Len(queue) :
       queue[i].kind = "follow" /\ queue[j].kind = "follow" /\ queue[i].f = queue[j].f => i = j
  /\ At("attach") => worker.command.kind = "follow" /\ follow[worker.command.f] = "waiting"

TableInv ==
  /\ overflow # {} => At("endFull")
  /\ \A f \in Followers :
       /\ f \in followers => follow[f] = "running" /\ f \notin stopped
       /\ f \in overflow \cup ending \cup stopped => follow[f] \in {"running", "done"}
       /\ f \in ending => closed

\* What Attach is given.
LEMMA AttachTypes ==
  ASSUME TypeOK, WaitInv, At("attach")
  PROVE  /\ worker.command.f \in Followers /\ worker.command.after \in Nat
         /\ follow[worker.command.f] = "waiting"
<1>1. worker.command \in Commands
  BY DEF TypeOK, At, Steps
<1> QED BY <1>1, CommandTypes DEF WaitInv

LEMMA WaitStep ==
  ASSUME TypeOK, WaitInv, [Next]_vars
  PROVE  WaitInv'
<1>1. queue \in Seq(Commands) /\ follow \in [Followers -> {"none", "waiting", "refused", "running", "done"}]
  BY DEF TypeOK
<1>2. \A i \in 1 .. Len(queue) : queue[i].kind = "follow" => queue[i].f \in Followers
  BY <1>1, CommandTypes
<1>3. CASE UNCHANGED <<queue, follow, worker>>
  BY <1>3 DEF WaitInv, At
<1>4. ASSUME NEW c \in Commands, queue' = Append(queue, c), UNCHANGED worker, UNCHANGED follow,
             c.kind # "follow"
      PROVE  WaitInv'
  <2>1. /\ Len(queue) \in Nat /\ Len(queue') = Len(queue) + 1
        /\ \A i \in 1 .. Len(queue) : queue'[i] = queue[i]
        /\ queue'[Len(queue) + 1] = c
        /\ \A i \in 1 .. Len(queue') : i \in 1 .. Len(queue) \/ i = Len(queue) + 1
    BY <1>1, <1>4, CommandBehind
  <2>2. \A i \in 1 .. Len(queue') : queue'[i].kind = "follow" => i \in 1 .. Len(queue) /\ queue'[i] = queue[i]
    BY <1>4, <2>1
  <2> QED BY <1>4, <2>2 DEF WaitInv, At
<1>5. CASE Send
  <2>1. Message(admitted + 1) \in Commands /\ Message(admitted + 1).kind # "follow"
    BY DEF Commands, Message, TypeOK
  <2> QED BY <1>4, <1>5, <2>1 DEF Send, Admit, workerVars
<1>6. CASE AskHead
  <2>1. HeadOf(admitted) \in Commands /\ HeadOf(admitted).kind # "follow"
    BY DEF Commands, HeadOf, TypeOK
  <2> QED BY <1>4, <1>6, <2>1 DEF AskHead, Admit, workerVars
<1>7. ASSUME NEW f \in Followers, AskFollow(f) PROVE WaitInv'
  <2>1. PICK after \in 0 .. MaxSequence : Admit(Follow(f, after))
    BY <1>7 DEF AskFollow
  <2>2. PICK c : c = Follow(f, after)
    OBVIOUS
  <2>3. c \in Commands /\ c.kind = "follow" /\ c.f = f
    BY <2>2 DEF Commands, Follow
  <2>4. /\ queue' = Append(queue, c) /\ UNCHANGED worker
        /\ follow[f] = "none" /\ follow' = [follow EXCEPT ![f] = "waiting"]
    BY <1>7, <2>1, <2>2 DEF AskFollow, Admit, workerVars
  <2>5. /\ Len(queue) \in Nat /\ Len(queue') = Len(queue) + 1
        /\ \A i \in 1 .. Len(queue) : queue'[i] = queue[i]
        /\ queue'[Len(queue) + 1] = c
        /\ \A i \in 1 .. Len(queue') : i \in 1 .. Len(queue) \/ i = Len(queue) + 1
    BY <1>1, <2>3, <2>4, CommandBehind
  <2>6. \A i \in 1 .. Len(queue) : queue[i].kind = "follow" => queue[i].f # f
    BY <2>4 DEF WaitInv
  <2>7. At("attach") => worker.command.f # f
    BY <2>4 DEF WaitInv
  <2>8. At("attach")' = At("attach") /\ worker' = worker
    BY <2>4 DEF At
  <2>9. \A g \in Followers : follow[g] = "waiting" => follow'[g] = "waiting"
    BY <1>1, <2>4
  <2>10. follow'[f] = "waiting"
    BY <1>1, <2>4
  <2>11. At("attach") => worker.command.f \in Followers
    BY AttachTypes
  <2>12. \A i \in 1 .. Len(queue') : queue'[i].kind = "follow" =>
           follow'[queue'[i].f] = "waiting" /\ (At("attach") => queue'[i].f # worker.command.f)
    <3> SUFFICES ASSUME NEW i \in 1 .. Len(queue'), queue'[i].kind = "follow"
                 PROVE  follow'[queue'[i].f] = "waiting" /\ (At("attach") => queue'[i].f # worker.command.f)
      OBVIOUS
    <3>1. CASE i \in 1 .. Len(queue)
      BY <1>2, <2>5, <2>9, <3>1 DEF WaitInv
    <3>2. CASE i = Len(queue) + 1
      BY <2>3, <2>5, <2>7, <2>10, <3>2
    <3> QED BY <2>5, <3>1, <3>2
  <2>13. \A i, j \in 1 .. Len(queue') :
           queue'[i].kind = "follow" /\ queue'[j].kind = "follow" /\ queue'[i].f = queue'[j].f => i = j
    BY <2>3, <2>5, <2>6 DEF WaitInv
  <2>14. At("attach") => worker.command.kind = "follow" /\ follow'[worker.command.f] = "waiting"
    BY <2>9, <2>11 DEF WaitInv
  <2> QED BY <2>8, <2>12, <2>13, <2>14 DEF WaitInv
<1>8. CASE TakeMessage \/ AnswerHead \/ TakeFollow
  <2>1. /\ At("idle") /\ queue # <<>> /\ queue' = Tail(queue) /\ UNCHANGED follow
        /\ \/ ~At("attach")'
           \/ At("attach")' /\ worker'.command = queue[1] /\ queue[1].kind = "follow"
    BY <1>8 DEF TakeMessage, AnswerHead, TakeFollow, Takes, Goto, At
  <2>2. /\ 1 \in 1 .. Len(queue) /\ Len(queue) \in Nat
        /\ \A i \in 1 .. Len(queue') : queue'[i] = queue[i + 1] /\ i + 1 \in 1 .. Len(queue)
    BY <1>1, <2>1, CommandAhead
  <2>3. \A i \in 1 .. Len(queue') : queue'[i].kind = "follow" =>
          /\ follow[queue'[i].f] = "waiting"
          /\ queue[1].kind = "follow" => queue'[i].f # queue[1].f
    <3> SUFFICES ASSUME NEW i \in 1 .. Len(queue'), queue'[i].kind = "follow"
                 PROVE  /\ follow[queue'[i].f] = "waiting"
                        /\ queue[1].kind = "follow" => queue'[i].f # queue[1].f
      OBVIOUS
    <3>1. queue'[i] = queue[i + 1] /\ i + 1 \in 1 .. Len(queue) /\ i + 1 # 1
      BY <2>2
    <3> QED BY <2>2, <3>1 DEF WaitInv
  <2>4. \A i, j \in 1 .. Len(queue') :
           queue'[i].kind = "follow" /\ queue'[j].kind = "follow" /\ queue'[i].f = queue'[j].f => i = j
    <3> SUFFICES ASSUME NEW i \in 1 .. Len(queue'), NEW j \in 1 .. Len(queue'), queue'[i].kind = "follow",
                        queue'[j].kind = "follow", queue'[i].f = queue'[j].f
                 PROVE  i = j
      OBVIOUS
    <3>1. i + 1 = j + 1
      BY <2>2 DEF WaitInv
    <3> QED BY <3>1
  <2>5. queue[1].kind = "follow" => follow[queue[1].f] = "waiting"
    BY <2>2 DEF WaitInv
  <2> QED BY <2>1, <2>3, <2>4, <2>5 DEF WaitInv
<1>9. CASE Attach \/ AttachRefused
  <2>1. PICK f : f = worker.command.f
    OBVIOUS
  <2>2. /\ At("attach") /\ UNCHANGED queue /\ ~At("attach")'
        /\ \E s \in {"running", "refused"} : follow' = [follow EXCEPT ![f] = s]
    BY <1>9, <2>1 DEF Attach, AttachRefused, Register, Goto, At, recorderVars
  <2>3. \A i \in 1 .. Len(queue) : queue[i].kind = "follow" => queue[i].f # f
    BY <2>1, <2>2 DEF WaitInv
  <2>4. \A g \in Followers : g # f => follow'[g] = follow[g]
    BY <1>1, <2>2
  <2> QED BY <1>2, <2>2, <2>3, <2>4 DEF WaitInv
<1>10. CASE AppendEntry \/ AppendFails \/ Offer \/ SendTarget \/ TargetRefuses
  <2>1. ~At("attach")' /\ UNCHANGED <<queue, follow>>
    BY <1>10 DEF AppendEntry, AppendFails, Offer, SendTarget, TargetRefuses, Goto, At, recorderVars
  <2> QED BY <2>1 DEF WaitInv
<1>11. CASE WorkerStops
  <2>1. ~At("attach")' /\ queue' = <<>>
    BY <1>11 DEF WorkerStops, Goto, At
  <2> QED BY <2>1 DEF WaitInv
<1>12. CASE Overflows \/ Close \/ \E f \in Followers : EndFull(f)
  BY <1>3, <1>12 DEF Overflows, Close, EndFull, workerVars, recorderVars
<1>13. ASSUME NEW f \in Followers, FollowerDone(f) PROVE WaitInv'
  <2>1. follow[f] = "running" /\ follow' = [follow EXCEPT ![f] = "done"] /\ UNCHANGED <<queue, worker>>
    BY <1>13 DEF FollowerDone, Working, recorderVars, workerVars
  <2>2. \A g \in Followers : follow[g] = "waiting" => follow'[g] = "waiting"
    BY <1>1, <2>1
  <2>3. At("attach") => worker.command.f \in Followers
    BY AttachTypes
  <2> QED BY <1>2, <2>1, <2>2, <2>3 DEF WaitInv, At
<1>14. ASSUME NEW f \in Followers,
              Replay(f) \/ TakeLive(f) \/ Deliver(f) \/ CloseFollower(f) \/ ContextEnds(f) \/ EndNext(f)
       PROVE  WaitInv'
  BY <1>3, <1>14 DEF Replay, TakeLive, Deliver, CloseFollower, ContextEnds, EndNext, recorderVars, workerVars
<1>15. CASE UNCHANGED vars
  BY <1>3, <1>15 DEF vars, recorderVars, workerVars
<1> QED
  BY <1>5, <1>6, <1>7, <1>8, <1>9, <1>10, <1>11, <1>12, <1>13, <1>14, <1>15
  DEF Next, Admitting, Appending, Following

\* Ending a follower keeps the table to those that were not ended.
LEMMA EndingKeepsTable ==
  ASSUME NEW f \in Followers, EndFollower(f), \A g \in Followers : g \in followers => g \notin stopped
  PROVE  /\ \A g \in Followers : g \in followers' => g \in followers /\ g \notin stopped' /\ g # f
         /\ \A g \in Followers : g \in stopped' <=> g \in stopped \/ g = f
BY DEF EndFollower

LEMMA TableStep ==
  ASSUME TypeOK, WaitInv, TableInv, [Next]_vars
  PROVE  TableInv'
<1>1. /\ follow \in [Followers -> {"none", "waiting", "refused", "running", "done"}]
      /\ overflow \subseteq Followers /\ ending \subseteq Followers /\ followers \subseteq Followers
  BY DEF TypeOK
<1>2. \A f \in Followers : f \in followers => follow[f] = "running" /\ f \notin stopped
  BY DEF TableInv
<1>3. CASE UNCHANGED <<overflow, worker, followers, follow, stopped, ending, closed>>
  BY <1>3 DEF TableInv, At
<1>4. ASSUME NEW f \in Followers, NEW s \in {"waiting", "refused"}, follow[f] \in {"none", "waiting"},
             follow' = [follow EXCEPT ![f] = s], overflow = {} \/ At("endFull")',
             UNCHANGED <<overflow, followers, stopped, ending, closed>>
      PROVE  TableInv'
  <2>1. \A g \in Followers : g # f => follow'[g] = follow[g]
    BY <1>1, <1>4
  <2>2. f \notin followers /\ f \notin overflow \cup ending \cup stopped
    BY <1>4 DEF TableInv
  <2> QED BY <1>4, <2>1, <2>2 DEF TableInv
<1>5. ASSUME NEW f \in Followers, AskFollow(f) PROVE TableInv'
  <2>1. /\ follow[f] = "none" /\ follow' = [follow EXCEPT ![f] = "waiting"]
        /\ UNCHANGED <<overflow, worker, followers, stopped, ending, closed>>
    BY <1>5 DEF AskFollow, Admit, workerVars, endVars
  <2> QED BY <1>4, <2>1 DEF TableInv, At
<1>6. CASE Send \/ AskHead
  BY <1>3, <1>6 DEF Send, AskHead, Admit, workerVars, endVars
<1>7. CASE TakeMessage \/ AnswerHead \/ TakeFollow \/ AppendEntry
  <2>1. /\ ~At("endFull") /\ UNCHANGED <<overflow, followers, follow, stopped, ending, closed>>
    BY <1>7 DEF TakeMessage, AnswerHead, TakeFollow, AppendEntry, Takes, At, endVars, recorderVars
  <2> QED BY <2>1 DEF TableInv
<1>8. CASE Attach
  <2>1. PICK f : f = worker.command.f
    OBVIOUS
  <2>2. /\ At("attach") /\ followers' = followers \cup {f} /\ follow' = [follow EXCEPT ![f] = "running"]
        /\ UNCHANGED <<overflow, stopped, ending, closed>>
    BY <1>8, <2>1 DEF Attach, Register, recorderVars
  <2>3. f \in Followers /\ follow[f] = "waiting"
    BY <2>1, <2>2, AttachTypes
  <2>4. f \notin stopped /\ overflow = {} /\ f \notin ending
    BY <2>2, <2>3 DEF TableInv, At
  <2>5. follow'[f] = "running" /\ \A g \in Followers : g # f => follow'[g] = follow[g]
    BY <1>1, <2>2, <2>3
  <2> QED BY <2>2, <2>4, <2>5 DEF TableInv
<1>9. CASE AttachRefused
  <2>1. PICK f : f = worker.command.f
    OBVIOUS
  <2>2. /\ At("attach") /\ follow' = [follow EXCEPT ![f] = "refused"]
        /\ UNCHANGED <<overflow, followers, stopped, ending, closed>>
    BY <1>9, <2>1 DEF AttachRefused, recorderVars, endVars
  <2>3. f \in Followers /\ follow[f] = "waiting"
    BY <2>1, <2>2, AttachTypes
  <2>4. overflow = {}
    BY <2>2 DEF TableInv, At
  <2> QED BY <1>4, <2>2, <2>3, <2>4
<1>10. ASSUME closed', End, overflow' = {}, UNCHANGED <<followers, follow, stopped>>
       PROVE  TableInv'
  <2>1. \A f \in Followers : f \in ending' => f \in ending \/ f \in followers
    BY <1>10 DEF End
  <2> QED BY <1>10, <2>1 DEF TableInv
<1>11. CASE AppendFails \/ TargetRefuses
  <2>1. overflow = {}
    BY <1>11 DEF AppendFails, TargetRefuses, TableInv, At
  <2>2. closed' /\ End /\ UNCHANGED <<overflow, followers, follow, stopped>>
    BY <1>11 DEF AppendFails, TargetRefuses, End
  <2> QED BY <1>10, <2>1, <2>2
<1>12. CASE Overflows \/ Close
  <2>1. closed' /\ End /\ UNCHANGED <<overflow, worker, followers, follow, stopped>>
    BY <1>12 DEF Overflows, Close, End, workerVars
  <2>2. \A f \in Followers : f \in ending' => f \in ending \/ f \in followers
    BY <2>1 DEF End
  <2> QED BY <2>1, <2>2 DEF TableInv, At
<1>13. CASE Offer
  <2>1. /\ At("endFull")' /\ UNCHANGED <<followers, follow, stopped, ending, closed>>
        /\ \A f \in Followers : f \in overflow' => f \in followers
    BY <1>13 DEF Offer, Goto, At, recorderVars, endVars
  <2> QED BY <2>1 DEF TableInv
<1>14. ASSUME NEW f \in Followers, EndFull(f) PROVE TableInv'
  <2>1. /\ At("endFull")' /\ f \in overflow /\ EndFollower(f) /\ UNCHANGED <<follow, ending, closed>>
        /\ \A g \in Followers : g \in overflow' => g \in overflow
    BY <1>14 DEF EndFull, At, recorderVars
  <2>2. /\ \A g \in Followers : g \in followers' => g \in followers /\ g \notin stopped'
        /\ \A g \in Followers : g \in stopped' <=> g \in stopped \/ g = f
    BY <1>2, <2>1, EndingKeepsTable
  <2> QED BY <2>1, <2>2 DEF TableInv
<1>15. CASE SendTarget
  BY <1>15 DEF SendTarget, TableInv, endVars, recorderVars
<1>16. CASE WorkerStops
  <2>1. /\ overflow = {} /\ UNCHANGED <<overflow, followers, stopped, ending, closed>>
        /\ \A f \in Followers : follow[f] # "waiting" => follow'[f] = follow[f]
    BY <1>16 DEF WorkerStops, TableInv, At, endVars
  <2> QED BY <2>1 DEF TableInv
<1>17. ASSUME NEW f \in Followers, FollowerDone(f) PROVE TableInv'
  <2>1. /\ follow[f] = "running" /\ follow' = [follow EXCEPT ![f] = "done"] /\ EndFollower(f)
        /\ UNCHANGED <<overflow, worker, ending, closed>>
    BY <1>17 DEF FollowerDone, Working, recorderVars, workerVars
  <2>2. /\ \A g \in Followers : g \in followers' => g \in followers /\ g \notin stopped' /\ g # f
        /\ \A g \in Followers : g \in stopped' <=> g \in stopped \/ g = f
    BY <1>2, <2>1, EndingKeepsTable
  <2>3. follow'[f] = "done" /\ \A g \in Followers : g # f => follow'[g] = follow[g]
    BY <1>1, <2>1
  <2> QED BY <2>1, <2>2, <2>3 DEF TableInv, At
<1>18. ASSUME NEW f \in Followers, EndFollower(f), UNCHANGED <<overflow, worker, follow, closed>>,
              follow[f] \in {"running", "done"}, ending' \subseteq ending
       PROVE  TableInv'
  <2>1. /\ \A g \in Followers : g \in followers' => g \in followers /\ g \notin stopped'
        /\ \A g \in Followers : g \in stopped' <=> g \in stopped \/ g = f
    BY <1>2, <1>18, EndingKeepsTable
  <2> QED BY <1>18, <2>1 DEF TableInv, At
<1>19. ASSUME NEW f \in Followers, CloseFollower(f) \/ EndNext(f) PROVE TableInv'
  <2>1. follow[f] \in {"running", "done"}
    BY <1>19 DEF CloseFollower, EndNext, Working, TableInv
  <2>2. EndFollower(f) /\ UNCHANGED <<overflow, worker, follow, closed>> /\ ending' \subseteq ending
    BY <1>19 DEF CloseFollower, EndNext, recorderVars, workerVars
  <2> QED BY <1>18, <2>1, <2>2
<1>20. ASSUME NEW f \in Followers, Replay(f) \/ TakeLive(f) \/ Deliver(f) \/ ContextEnds(f)
       PROVE  TableInv'
  BY <1>3, <1>20 DEF Replay, TakeLive, Deliver, ContextEnds, recorderVars, workerVars, endVars
<1>21. CASE UNCHANGED vars
  BY <1>3, <1>21 DEF vars, recorderVars, workerVars, endVars
<1> QED
  BY <1>5, <1>6, <1>7, <1>8, <1>9, <1>11, <1>12, <1>13, <1>14, <1>15, <1>16, <1>17, <1>19, <1>20, <1>21
  DEF Next, Admitting, Appending, Following

-----------------------------------------------------------------------------
(* One follower: g is its cursor and what its target was sent, h the entry  *)
(* in its hand, n and b its next sequence and the last it replays, l its    *)
(* handoff, p the last entry it took, and off the last entry offered.       *)

Entries == [seq : Nat, message : Nat]

Position(g, h) == g[1] + Len(g) - 1 + (IF h = None THEN 0 ELSE 1)

\* What the target was sent is the log behind the cursor, and so is what comes next.
SentInOrder(g, h, len) ==
  /\ Len(g) >= 1
  /\ \A i \in 2 .. Len(g) : g[i] = g[1] + i - 1
  /\ Position(g, h) <= len
  /\ h # None => h.message = Position(g, h)

\* Where the handoff begins: behind the replay, or behind what was taken from it.
Replayed(p, n, b) == IF n <= b THEN b ELSE p

HandsOff(p, n, b, l, off) ==
  /\ b <= off /\ n <= b + 1
  /\ n <= b => p = n - 1
  /\ n > b => p >= b
  /\ \A i \in 1 .. Len(l) : l[i].message = Replayed(p, n, b) + i
  /\ Replayed(p, n, b) + Len(l) <= off

Offered == IF At("offer") THEN Len(log) - 1 ELSE Len(log)

\* A call of Follow that entered no table has taken nothing.
Fresh(f) == got[f] = <<0>> /\ hand[f] = None /\ live[f] = <<>> /\ base[f] = 0 /\ next[f] = 1

FollowOK(f) ==
  /\ SentInOrder(got[f], hand[f], Len(log))
  /\ follow[f] \in {"none", "waiting", "refused"} => Fresh(f)
  /\ follow[f] = "done" => hand[f] = None /\ live[f] = <<>>
  /\ follow[f] # "done" =>
       HandsOff(Position(got[f], hand[f]), next[f], base[f], live[f], Offered)
  /\ f \in followers \ overflow =>
       Replayed(Position(got[f], hand[f]), next[f], base[f]) + Len(live[f]) = Offered

FollowInv == \A f \in Followers : FollowOK(f)

\* The follower takes its next entry in its hand.
LEMMA SentTakes ==
  ASSUME NEW g \in Seq(Nat), NEW h \in Entries, NEW len \in Nat, SentInOrder(g, None, len),
         h.message = Position(g, None) + 1, h.message <= len
  PROVE  h # None /\ SentInOrder(g, h, len) /\ Position(g, h) = Position(g, None) + 1
<1>1. Len(g) \in Nat /\ Len(g) >= 1 /\ g[1] \in Nat
  BY DEF SentInOrder
<1>2. Position(g, None) = g[1] + Len(g) - 1 /\ Position(g, None) \in Nat
  BY <1>1 DEF Position
<1>3. h # None
  <2>1. None.message = 0
    BY DEF None
  <2> QED BY <1>2, <2>1
<1>4. Position(g, h) = g[1] + Len(g) - 1 + 1
  BY <1>3 DEF Position
<1> QED BY <1>1, <1>2, <1>3, <1>4 DEF SentInOrder

\* The follower's target is sent what is in its hand.
LEMMA SentDelivers ==
  ASSUME NEW g \in Seq(Nat), NEW h \in Entries, NEW len \in Nat, SentInOrder(g, h, len), h # None
  PROVE  /\ SentInOrder(Append(g, h.message), None, len)
         /\ Position(Append(g, h.message), None) = Position(g, h)
<1>1. Len(g) \in Nat /\ Len(g) >= 1 /\ g[1] \in Nat /\ h.message \in Nat
  BY DEF SentInOrder, Entries
<1>2. PICK a : a = Append(g, h.message)
  OBVIOUS
<1>3. /\ a \in Seq(Nat) /\ Len(a) = Len(g) + 1 /\ a[Len(g) + 1] = h.message
      /\ \A i \in 1 .. Len(g) : a[i] = g[i]
  BY <1>1, <1>2
<1>4. a[1] = g[1]
  BY <1>1, <1>3
<1>5. Position(g, h) = g[1] + Len(g) - 1 + 1 /\ h.message = Position(g, h)
  BY DEF Position, SentInOrder
<1>6. Position(a, None) = Position(g, h)
  BY <1>1, <1>3, <1>4, <1>5 DEF Position
<1>7. \A i \in 2 .. Len(a) : a[i] = a[1] + i - 1
  <2> SUFFICES ASSUME NEW i \in 2 .. Len(a) PROVE a[i] = a[1] + i - 1
    OBVIOUS
  <2>1. CASE i \in 2 .. Len(g)
    BY <1>3, <1>4, <2>1 DEF SentInOrder
  <2>2. CASE i = Len(g) + 1
    BY <1>1, <1>3, <1>4, <1>5, <2>2
  <2> QED BY <1>1, <1>3, <2>1, <2>2
<1>8. Position(g, h) <= len
  BY DEF SentInOrder
<1> QED BY <1>1, <1>2, <1>3, <1>6, <1>7, <1>8 DEF SentInOrder

LEMMA SentGrows ==
  ASSUME NEW g \in Seq(Nat), NEW h \in Entries, NEW len \in Nat, NEW more \in Nat, len <= more,
         SentInOrder(g, h, len)
  PROVE  SentInOrder(g, h, more)
<1>1. Position(g, h) \in Nat
  <2>1. Len(g) \in Nat /\ Len(g) >= 1 /\ g[1] \in Nat
    BY DEF SentInOrder
  <2> QED BY <2>1 DEF Position
<1> QED BY <1>1 DEF SentInOrder

LEMMA PositionType ==
  ASSUME NEW g \in Seq(Nat), NEW h \in Entries, NEW len \in Nat, SentInOrder(g, h, len)
  PROVE  Position(g, h) \in Nat
<1>1. Len(g) \in Nat /\ Len(g) >= 1 /\ g[1] \in Nat
  BY DEF SentInOrder
<1> QED BY <1>1 DEF Position

\* The follower replays one more entry.
LEMMA HandoffReplays ==
  ASSUME NEW p \in Nat, NEW n \in Nat, NEW b \in Nat, NEW l \in Seq(Entries), NEW off \in Int,
         HandsOff(p, n, b, l, off), n <= b
  PROVE  /\ n = p + 1 /\ HandsOff(p + 1, n + 1, b, l, off)
         /\ Replayed(p + 1, n + 1, b) = Replayed(p, n, b)
<1>1. n = p + 1 /\ Replayed(p, n, b) = b
  BY DEF HandsOff, Replayed
<1>2. Replayed(p + 1, n + 1, b) = b
  BY <1>1 DEF Replayed
<1> QED BY <1>1, <1>2 DEF HandsOff

\* The follower takes the first entry of its handoff.
LEMMA HandoffTakes ==
  ASSUME NEW p \in Nat, NEW n \in Nat, NEW b \in Nat, NEW l \in Seq(Entries), NEW off \in Int,
         HandsOff(p, n, b, l, off), n > b, l # <<>>
  PROVE  /\ l[1] \in Entries /\ l[1].message = p + 1 /\ p + 1 <= off
         /\ HandsOff(p + 1, n, b, Tail(l), off)
         /\ Replayed(p + 1, n, b) + Len(Tail(l)) = Replayed(p, n, b) + Len(l)
<1>1. /\ Len(l) \in Nat /\ 1 \in 1 .. Len(l) /\ l[1] \in Entries /\ Len(Tail(l)) = Len(l) - 1
      /\ \A i \in 1 .. Len(Tail(l)) : Tail(l)[i] = l[i + 1] /\ i + 1 \in 1 .. Len(l)
  OBVIOUS
<1>2. Replayed(p, n, b) = p /\ Replayed(p + 1, n, b) = p + 1
  BY DEF Replayed
<1>3. l[1].message = p + 1 /\ p + 1 <= off
  BY <1>1, <1>2 DEF HandsOff
<1>4. \A i \in 1 .. Len(Tail(l)) : Tail(l)[i].message = p + 1 + i
  BY <1>1, <1>2 DEF HandsOff
<1>5. b <= off /\ n <= b + 1 /\ p + 1 >= b /\ p + Len(l) <= off
  BY <1>2 DEF HandsOff
<1>6. HandsOff(p + 1, n, b, Tail(l), off)
  <2>1. \A i \in 1 .. Len(Tail(l)) : Tail(l)[i].message = Replayed(p + 1, n, b) + i
    BY <1>2, <1>4
  <2>2. Replayed(p + 1, n, b) + Len(Tail(l)) <= off
    BY <1>1, <1>2, <1>5
  <2>3. ~(n <= b)
    OBVIOUS
  <2> QED BY <1>5, <2>1, <2>2, <2>3 DEF HandsOff
<1> QED BY <1>1, <1>2, <1>3, <1>6

\* The worker offers the entry it stored to a follower that has been offered
\* every one before.
LEMMA HandoffOffers ==
  ASSUME NEW p \in Nat, NEW n \in Nat, NEW b \in Nat, NEW l \in Seq(Entries), NEW off \in Int,
         HandsOff(p, n, b, l, off), Replayed(p, n, b) + Len(l) = off,
         NEW e \in Entries, e.message = off + 1
  PROVE  HandsOff(p, n, b, Append(l, e), off + 1) /\ Replayed(p, n, b) + Len(Append(l, e)) = off + 1
<1>1. /\ Len(l) \in Nat /\ Len(Append(l, e)) = Len(l) + 1 /\ Append(l, e)[Len(l) + 1] = e
      /\ \A i \in 1 .. Len(l) : Append(l, e)[i] = l[i]
  OBVIOUS
<1>2. Replayed(p, n, b) \in Nat
  BY DEF Replayed
<1>3. \A i \in 1 .. Len(Append(l, e)) : Append(l, e)[i].message = Replayed(p, n, b) + i
  <2> SUFFICES ASSUME NEW i \in 1 .. Len(Append(l, e))
               PROVE  Append(l, e)[i].message = Replayed(p, n, b) + i
    OBVIOUS
  <2>1. CASE i \in 1 .. Len(l)
    BY <1>1, <2>1 DEF HandsOff
  <2>2. CASE i = Len(l) + 1
    BY <1>1, <1>2, <2>2
  <2> QED BY <1>1, <2>1, <2>2
<1>4. Replayed(p, n, b) + Len(Append(l, e)) = off + 1
  BY <1>1, <1>2
<1>5. b <= off + 1 /\ n <= b + 1 /\ (n <= b => p = n - 1) /\ (n > b => p >= b)
  BY DEF HandsOff
<1> QED BY <1>3, <1>4, <1>5 DEF HandsOff

LEMMA HandoffGrows ==
  ASSUME NEW p \in Nat, NEW n \in Nat, NEW b \in Nat, NEW l \in Seq(Entries), NEW off \in Int,
         NEW more \in Int, off <= more, HandsOff(p, n, b, l, off)
  PROVE  HandsOff(p, n, b, l, more)
BY DEF HandsOff, Replayed

\* A follower that enters the table has everything up to the head to replay.
LEMMA HandoffBegins ==
  ASSUME NEW after \in Nat, NEW off \in Nat, after <= off
  PROVE  HandsOff(after, after + 1, off, <<>>, off) /\ Replayed(after, after + 1, off) + Len(<<>>) = off
<1>1. Replayed(after, after + 1, off) = off
  BY DEF Replayed
<1> QED BY <1>1 DEF HandsOff

LEMMA FollowerTypes ==
  ASSUME TypeOK, NEW f \in Followers, FollowOK(f)
  PROVE  /\ got[f] \in Seq(Nat) /\ hand[f] \in Entries /\ next[f] \in Nat \ {0} /\ base[f] \in Nat
         /\ live[f] \in Seq(Entries) /\ Len(live[f]) \in Nat /\ Len(log) \in Nat /\ Offered \in Int
         /\ Position(got[f], hand[f]) \in Nat
         /\ follow[f] \in {"none", "waiting", "refused", "running", "done"}
<1>1. /\ got[f] \in Seq(Nat) /\ hand[f] \in Entries /\ next[f] \in Nat \ {0} /\ base[f] \in Nat
      /\ live[f] \in Seq(Entries) /\ Len(log) \in Nat
      /\ follow[f] \in {"none", "waiting", "refused", "running", "done"}
  BY DEF TypeOK, Entries
<1>2. Offered \in Int /\ Len(live[f]) \in Nat
  BY <1>1 DEF Offered
<1> QED BY <1>1, <1>2, PositionType DEF FollowOK

\* A step that leaves a follower alone, and offers no more to one in the table.
LEMMA FollowerKeeps ==
  ASSUME TypeOK, NEW f \in Followers, FollowOK(f),
         got'[f] = got[f], hand'[f] = hand[f], next'[f] = next[f], base'[f] = base[f], live'[f] = live[f],
         follow'[f] # follow[f] =>
           follow[f] \in {"none", "waiting", "refused"} /\ follow'[f] \in {"none", "waiting", "refused"},
         Len(log') \in Nat, Len(log) <= Len(log'), Offered' \in Int, Offered <= Offered',
         f \in followers' \ overflow' => f \in followers \ overflow /\ Offered' = Offered
  PROVE  FollowOK(f)'
<1>1. /\ got[f] \in Seq(Nat) /\ hand[f] \in Entries /\ next[f] \in Nat \ {0} /\ base[f] \in Nat
      /\ live[f] \in Seq(Entries) /\ Len(log) \in Nat /\ Offered \in Int
      /\ Position(got[f], hand[f]) \in Nat
  BY FollowerTypes
<1>2. SentInOrder(got[f], hand[f], Len(log'))
  BY <1>1, SentGrows DEF FollowOK
<1>3. follow[f] # "done" =>
        HandsOff(Position(got[f], hand[f]), next[f], base[f], live[f], Offered')
  BY <1>1, HandoffGrows DEF FollowOK
<1>4. follow'[f] = "done" <=> follow[f] = "done"
  OBVIOUS
<1>5. follow'[f] \in {"none", "waiting", "refused"} => Fresh(f)'
  BY DEF FollowOK, Fresh
<1>6. follow'[f] = "done" => hand'[f] = None /\ live'[f] = <<>>
  BY <1>4 DEF FollowOK
<1>7. f \in followers' \ overflow' =>
        Replayed(Position(got[f], hand[f]), next[f], base[f]) + Len(live[f]) = Offered'
  BY DEF FollowOK
<1> QED BY <1>2, <1>3, <1>4, <1>5, <1>6, <1>7 DEF FollowOK

\* The steps of a follower that take an entry or send it.
LEMMA TakeKeeps ==
  ASSUME TypeOK, StoreInv, NEW f \in Followers, FollowOK(f), Replay(f) \/ TakeLive(f) \/ Deliver(f)
  PROVE  FollowOK(f)'
<1>1. /\ got[f] \in Seq(Nat) /\ hand[f] \in Entries /\ next[f] \in Nat \ {0} /\ base[f] \in Nat
      /\ live[f] \in Seq(Entries) /\ Len(log) \in Nat /\ Offered \in Int /\ Offered <= Len(log)
      /\ Position(got[f], hand[f]) \in Nat
      /\ hand \in [Followers -> Entries] /\ next \in [Followers -> Nat \ {0}]
      /\ live \in [Followers -> Seq(Entries)] /\ got \in [Followers -> Seq(Nat)]
  <2>1. Offered <= Len(log)
    BY FollowerTypes DEF Offered
  <2> QED BY <2>1, FollowerTypes DEF TypeOK, Entries
<1>2. UNCHANGED <<base, log, follow, followers, overflow>> /\ Offered' = Offered
  BY DEF Replay, TakeLive, Deliver, workerVars, endVars, Offered, At
<1>3. follow[f] = "running"
  <2>1. CASE Replay(f) \/ TakeLive(f)
    BY <2>1 DEF Replay, TakeLive, Take, Working
  <2>2. CASE Deliver(f)
    BY <2>2, FollowerTypes DEF Deliver, FollowOK, Fresh
  <2> QED BY <2>1, <2>2
<1>4. PICK p : p = Position(got[f], hand[f])
  OBVIOUS
<1>5. HandsOff(p, next[f], base[f], live[f], Offered) /\ SentInOrder(got[f], hand[f], Len(log))
  BY <1>3, <1>4 DEF FollowOK
<1>6. p <= Len(log) /\ p \in Nat
  BY <1>1, <1>4, <1>5 DEF SentInOrder
<1>7. CASE Replay(f)
  <2>1. PICK h : h = Entry(next[f], log[next[f]])
    OBVIOUS
  <2>2. /\ next[f] <= base[f] /\ hand[f] = None /\ hand'[f] = h /\ next'[f] = next[f] + 1
        /\ got'[f] = got[f] /\ live'[f] = live[f]
    BY <1>1, <1>7, <2>1 DEF Replay, Take
  <2>3. next[f] = p + 1 /\ HandsOff(p + 1, next[f] + 1, base[f], live[f], Offered)
        /\ Replayed(p + 1, next[f] + 1, base[f]) = Replayed(p, next[f], base[f])
    BY <1>1, <1>5, <1>6, <2>2, HandoffReplays
  <2>4. next[f] \in 1 .. Len(log)
    BY <1>1, <1>5, <2>2 DEF HandsOff
  <2>5. h \in Entries /\ h.message = p + 1 /\ h.message <= Len(log)
    BY <2>1, <2>3, <2>4 DEF Entry, Entries, StoreInv
  <2>6. h # None /\ SentInOrder(got[f], h, Len(log)) /\ Position(got[f], h) = p + 1
    BY <1>1, <1>4, <1>5, <2>2, <2>5, SentTakes
  <2> QED BY <1>2, <1>3, <1>4, <2>2, <2>3, <2>6 DEF FollowOK
<1>8. CASE TakeLive(f)
  <2>1. PICK h : h = live[f][1]
    OBVIOUS
  <2>2. /\ next[f] > base[f] /\ hand[f] = None /\ hand'[f] = h /\ next'[f] = next[f]
        /\ got'[f] = got[f] /\ live[f] # <<>> /\ live'[f] = Tail(live[f])
    BY <1>1, <1>8, <2>1 DEF TakeLive, Take
  <2>3. /\ h \in Entries /\ h.message = p + 1 /\ p + 1 <= Offered
        /\ HandsOff(p + 1, next[f], base[f], Tail(live[f]), Offered)
        /\ Replayed(p + 1, next[f], base[f]) + Len(Tail(live[f])) =
             Replayed(p, next[f], base[f]) + Len(live[f])
    BY <1>1, <1>5, <1>6, <2>1, <2>2, HandoffTakes, SMTT(30)
  <2>4. h.message <= Len(log)
    BY <1>1, <1>6, <2>3
  <2>5. h # None /\ SentInOrder(got[f], h, Len(log)) /\ Position(got[f], h) = p + 1
    BY <1>1, <1>4, <1>5, <2>2, <2>3, <2>4, SentTakes
  <2> QED BY <1>2, <1>3, <1>4, <2>2, <2>3, <2>5 DEF FollowOK
<1>9. CASE Deliver(f)
  <2>1. PICK g : g = Append(got[f], hand[f].message)
    OBVIOUS
  <2>2. /\ hand[f] # None /\ hand'[f] = None /\ got'[f] = g
        /\ next'[f] = next[f] /\ live'[f] = live[f]
    BY <1>1, <1>9, <2>1 DEF Deliver
  <2>3. SentInOrder(g, None, Len(log)) /\ Position(g, None) = p
    BY <1>1, <1>4, <1>5, <2>1, <2>2, SentDelivers
  <2> QED BY <1>2, <1>3, <1>4, <1>5, <2>2, <2>3 DEF FollowOK
<1> QED BY <1>7, <1>8, <1>9

\* The steps of the worker that attach a follower and offer it what is stored.
LEMMA AttachKeeps ==
  ASSUME TypeOK, StoreInv, WaitInv, TableInv, FollowInv, Attach
  PROVE  FollowInv'
<1>1. PICK f : f = worker.command.f
  OBVIOUS
<1>2. PICK after : after = worker.command.after
  OBVIOUS
<1>3. /\ At("attach") /\ after <= head /\ followers' = followers \cup {f}
      /\ follow' = [follow EXCEPT ![f] = "running"] /\ base' = [base EXCEPT ![f] = head]
      /\ next' = [next EXCEPT ![f] = after + 1] /\ got' = [got EXCEPT ![f] = <<after>>]
      /\ ~At("offer")' /\ UNCHANGED <<log, overflow, hand, live>>
  BY <1>1, <1>2 DEF Attach, Register, Goto, At
<1>4. f \in Followers /\ after \in Nat /\ follow[f] = "waiting"
  BY <1>1, <1>2, <1>3, AttachTypes
<1>5. Offered = Len(log) /\ Offered' = Len(log) /\ head = Len(log) /\ Len(log) \in Nat /\ UNCHANGED Len(log)
  BY <1>3 DEF Offered, At, StoreInv, TypeOK
<1>6. /\ follow \in [Followers -> {"none", "waiting", "refused", "running", "done"}]
      /\ got \in [Followers -> Seq(Nat)] /\ base \in [Followers -> Nat] /\ next \in [Followers -> Nat \ {0}]
  BY DEF TypeOK
<1>7. ASSUME NEW g \in Followers, g # f PROVE FollowOK(g)'
  <2>1. /\ got'[g] = got[g] /\ hand'[g] = hand[g] /\ next'[g] = next[g] /\ base'[g] = base[g]
        /\ live'[g] = live[g] /\ follow'[g] = follow[g]
        /\ g \in followers' \ overflow' => g \in followers \ overflow /\ Offered' = Offered
    BY <1>3, <1>5, <1>6, <1>7
  <2>2. FollowOK(g)
    BY DEF FollowInv
  <2> QED BY <1>5, <2>1, <2>2, FollowerKeeps
<1>8. FollowOK(f)'
  <2>1. hand'[f] = None /\ live'[f] = <<>>
    BY <1>3, <1>4 DEF FollowInv, FollowOK, Fresh
  <2>2. got'[f] = <<after>> /\ next'[f] = after + 1 /\ base'[f] = Len(log) /\ follow'[f] = "running"
    BY <1>3, <1>4, <1>5, <1>6
  <2>3. Position(<<after>>, None) = after /\ SentInOrder(<<after>>, None, Len(log))
    <3>1. Position(<<after>>, None) = after
      BY <1>4 DEF Position
    <3> QED BY <1>3, <1>4, <1>5, <3>1 DEF SentInOrder
  <2>4. /\ HandsOff(after, after + 1, Len(log), <<>>, Len(log))
        /\ Replayed(after, after + 1, Len(log)) + Len(<<>>) = Len(log)
    BY <1>3, <1>4, <1>5, HandoffBegins
  <2> QED BY <1>5, <2>1, <2>2, <2>3, <2>4 DEF FollowOK
<1> QED BY <1>7, <1>8 DEF FollowInv

LEMMA OfferKeeps ==
  ASSUME TypeOK, StoreInv, TableInv, FollowInv, Offer
  PROVE  FollowInv'
<1>1. /\ At("offer") /\ ~At("offer")' /\ UNCHANGED <<log, follow, followers, stopped, base, next, hand, got>>
      /\ live' = [f \in Followers |->
           IF f \in followers \ stopped /\ HasRoom(f)
             THEN Append(live[f], Entry(head, worker.message)) ELSE live[f]]
      /\ overflow' = {f \in followers \ stopped : ~HasRoom(f)}
  BY DEF Offer, Goto, At, followerVars, endVars
<1>2. /\ Len(log) \in Nat /\ Len(log) > 0 /\ Offered = Len(log) - 1 /\ Offered' = Len(log)
      /\ worker.message = Len(log) /\ head = Len(log) /\ overflow = {}
  <2>1. Len(log) > Stored /\ Len(log) \in Nat
    BY <1>1 DEF StoreInv, TypeOK
  <2> QED BY <1>1, <2>1, RecordAssumption DEF StoreInv, Offered, At, TableInv
<1>3. PICK e : e = Entry(head, worker.message)
  OBVIOUS
<1>4. e \in Entries /\ e.message = Len(log)
  BY <1>2, <1>3 DEF Entry, Entries
<1> SUFFICES ASSUME NEW f \in Followers PROVE FollowOK(f)'
  BY DEF FollowInv
<1>5. FollowOK(f) /\ (f \in followers => f \notin stopped)
  BY DEF FollowInv, TableInv
<1>6. CASE ~(f \in followers /\ HasRoom(f))
  <2>1. live'[f] = live[f] /\ (f \in followers' => f \in overflow')
    BY <1>1, <1>5, <1>6
  <2>2. /\ got'[f] = got[f] /\ hand'[f] = hand[f] /\ next'[f] = next[f] /\ base'[f] = base[f]
        /\ follow'[f] = follow[f] /\ Len(log') = Len(log)
    BY <1>1
  <2> QED BY <1>2, <1>5, <2>1, <2>2, FollowerKeeps
<1>7. CASE f \in followers /\ HasRoom(f)
  <2>1. live'[f] = Append(live[f], e)
    BY <1>1, <1>3, <1>5, <1>7
  <2>2. PICK p : p = Position(got[f], hand[f])
    OBVIOUS
  <2>3. follow[f] = "running" /\ f \in followers \ overflow
    BY <1>2, <1>7 DEF TableInv
  <2>4. /\ p \in Nat /\ next[f] \in Nat /\ base[f] \in Nat /\ live[f] \in Seq(Entries) /\ Offered \in Int
        /\ HandsOff(p, next[f], base[f], live[f], Offered)
        /\ Replayed(p, next[f], base[f]) + Len(live[f]) = Offered
    BY <1>5, <2>2, <2>3, FollowerTypes DEF FollowOK
  <2>5. e.message = Offered + 1 /\ Offered + 1 = Len(log)
    BY <1>2, <1>4
  <2>6. /\ HandsOff(p, next[f], base[f], Append(live[f], e), Offered + 1)
        /\ Replayed(p, next[f], base[f]) + Len(Append(live[f], e)) = Offered + 1
    BY <1>4, <2>4, <2>5, HandoffOffers
  <2>7. SentInOrder(got[f], hand[f], Len(log))
    BY <1>5 DEF FollowOK
  <2> QED BY <1>1, <1>2, <2>1, <2>2, <2>3, <2>5, <2>6, <2>7 DEF FollowOK
<1> QED BY <1>6, <1>7

LEMMA FollowStep ==
  ASSUME TypeOK, StoreInv, WaitInv, TableInv, FollowInv, [Next]_vars
  PROVE  FollowInv'
<1>1. /\ follow \in [Followers -> {"none", "waiting", "refused", "running", "done"}]
      /\ hand \in [Followers -> Entries] /\ next \in [Followers -> Nat \ {0}]
      /\ live \in [Followers -> Seq(Entries)] /\ got \in [Followers -> Seq(Nat)]
      /\ log \in Seq(Nat) /\ Len(log) \in Nat /\ Offered \in Int
  BY DEF TypeOK, Entries, Offered
<1>2. ASSUME UNCHANGED <<base, next, hand, got, live, log, overflow>>, Offered' = Offered,
             \A f \in Followers : follow'[f] # follow[f] =>
               follow[f] \in {"none", "waiting"} /\ follow'[f] \in {"waiting", "refused"},
             \A f \in Followers : f \in followers' => f \in followers
      PROVE  FollowInv'
  <2> SUFFICES ASSUME NEW f \in Followers PROVE FollowOK(f)'
    BY DEF FollowInv
  <2>1. FollowOK(f)
    BY DEF FollowInv
  <2>2. /\ got'[f] = got[f] /\ hand'[f] = hand[f] /\ next'[f] = next[f] /\ base'[f] = base[f]
        /\ live'[f] = live[f] /\ Len(log') = Len(log) /\ Offered' = Offered
    BY <1>2
  <2>3. /\ follow'[f] # follow[f] => /\ follow[f] \in {"none", "waiting", "refused"}
                                    /\ follow'[f] \in {"none", "waiting", "refused"}
        /\ f \in followers' \ overflow' => f \in followers \ overflow
    BY <1>2
  <2> QED BY <1>1, <2>1, <2>2, <2>3, FollowerKeeps
<1>3. CASE Send \/ AskHead
  <2>1. UNCHANGED <<base, next, hand, got, live, log, worker, overflow, follow, followers>>
    BY <1>3 DEF Send, AskHead, Admit, workerVars, followerVars, endVars
  <2> QED BY <1>2, <2>1 DEF Offered, At
<1>4. ASSUME NEW f \in Followers, AskFollow(f) PROVE FollowInv'
  <2>1. /\ UNCHANGED <<base, next, hand, got, live, log, worker, overflow, followers>>
        /\ follow[f] = "none" /\ follow' = [follow EXCEPT ![f] = "waiting"]
    BY <1>4 DEF AskFollow, Admit, workerVars, followerVars, endVars
  <2>2. follow'[f] = "waiting" /\ \A g \in Followers : g # f => follow'[g] = follow[g]
    BY <1>1, <2>1
  <2>3. Offered' = Offered
    BY <2>1 DEF Offered, At
  <2> QED BY <1>2, <2>1, <2>2, <2>3
<1>5. CASE Overflows \/ Close
  <2>1. UNCHANGED <<base, next, hand, got, live, log, worker, overflow, follow, followers>>
    BY <1>5 DEF Overflows, Close, workerVars, followerVars
  <2> QED BY <1>2, <2>1 DEF Offered, At
<1>6. CASE TakeMessage \/ AnswerHead \/ TakeFollow
  <2>1. /\ UNCHANGED <<base, next, hand, got, live, log, overflow, follow, followers>>
        /\ ~At("offer") /\ ~At("offer")'
    BY <1>6 DEF TakeMessage, AnswerHead, TakeFollow, Takes, Goto, At, followerVars, endVars
  <2>2. Offered' = Offered
    BY <2>1 DEF Offered
  <2> QED BY <1>2, <2>1, <2>2
<1>7. CASE AttachRefused
  <2>1. PICK f : f = worker.command.f
    OBVIOUS
  <2>2. /\ UNCHANGED <<base, next, hand, got, live, log, overflow, followers>>
        /\ At("attach") /\ ~At("offer") /\ ~At("offer")' /\ follow' = [follow EXCEPT ![f] = "refused"]
    BY <1>7, <2>1 DEF AttachRefused, Goto, At, followerVars, endVars
  <2>3. f \in Followers /\ follow[f] = "waiting"
    BY <2>1, <2>2, AttachTypes
  <2>4. follow'[f] = "refused" /\ \A g \in Followers : g # f => follow'[g] = follow[g]
    BY <1>1, <2>2, <2>3
  <2>5. Offered' = Offered
    BY <2>2 DEF Offered
  <2> QED BY <1>2, <2>2, <2>3, <2>4, <2>5
<1>8. CASE Attach
  BY <1>8, AttachKeeps
<1>9. CASE Offer
  BY <1>9, OfferKeeps
<1>10. CASE AppendEntry
  <2>1. /\ UNCHANGED <<base, next, hand, got, live, overflow, follow, followers>>
        /\ ~At("offer") /\ At("offer")' /\ worker.message = Len(log) + 1
        /\ log' = Append(log, worker.message)
    BY <1>10 DEF AppendEntry, Goto, At, StoreInv, followerVars, endVars
  <2>2. Len(log') = Len(log) + 1 /\ Offered' = Offered
    BY <1>1, <2>1 DEF Offered
  <2> SUFFICES ASSUME NEW f \in Followers PROVE FollowOK(f)'
    BY DEF FollowInv
  <2>3. FollowOK(f)
    BY DEF FollowInv
  <2> QED BY <1>1, <2>1, <2>2, <2>3, FollowerKeeps, SMTT(30)
<1>11. CASE AppendFails \/ SendTarget \/ TargetRefuses
  <2>1. /\ UNCHANGED <<base, next, hand, got, live, log, overflow, follow, followers>>
        /\ ~At("offer") /\ ~At("offer")'
    BY <1>11 DEF AppendFails, SendTarget, TargetRefuses, Goto, At, followerVars, endVars
  <2>2. Offered' = Offered
    BY <2>1 DEF Offered
  <2> QED BY <1>2, <2>1, <2>2
<1>12. CASE WorkerStops
  <2>1. /\ UNCHANGED <<base, next, hand, got, live, log, overflow, followers>>
        /\ ~At("offer") /\ ~At("offer")'
        /\ \A f \in Followers : follow'[f] = IF follow[f] = "waiting" THEN "refused" ELSE follow[f]
    BY <1>12 DEF WorkerStops, Goto, At, followerVars, endVars
  <2>2. Offered' = Offered
    BY <2>1 DEF Offered
  <2> QED BY <1>2, <2>1, <2>2
<1>13. ASSUME NEW f \in Followers, EndFull(f) PROVE FollowInv'
  <2>1. /\ UNCHANGED <<base, next, hand, got, live, log, worker, follow>> /\ EndFollower(f)
        /\ overflow' = overflow \ {f}
    BY <1>13 DEF EndFull, followerVars
  <2>2. Offered' = Offered
    BY <2>1 DEF Offered, At
  <2>3. \A g \in Followers : g \in followers' => g \in followers /\ g # f
    BY <2>1, EndingKeepsTable DEF TableInv
  <2> SUFFICES ASSUME NEW g \in Followers PROVE FollowOK(g)'
    BY DEF FollowInv
  <2>4. FollowOK(g)
    BY DEF FollowInv
  <2> QED BY <1>1, <2>1, <2>2, <2>3, <2>4, FollowerKeeps
<1>14. ASSUME NEW f \in Followers, Replay(f) \/ TakeLive(f) \/ Deliver(f) PROVE FollowInv'
  <2>1. FollowOK(f)'
    BY <1>14, TakeKeeps DEF FollowInv
  <2>2. UNCHANGED <<base, log, worker, overflow, follow, followers>>
    BY <1>14 DEF Replay, TakeLive, Deliver, workerVars, endVars
  <2>3. \A g \in Followers : g # f =>
          got'[g] = got[g] /\ hand'[g] = hand[g] /\ next'[g] = next[g] /\ live'[g] = live[g]
    BY <1>1, <1>14 DEF Replay, TakeLive, Deliver, Take
  <2>4. Offered' = Offered
    BY <2>2 DEF Offered, At
  <2>5. ASSUME NEW g \in Followers, g # f PROVE FollowOK(g)'
    <3>1. FollowOK(g)
      BY DEF FollowInv
    <3> QED BY <1>1, <2>2, <2>3, <2>4, <2>5, <3>1, FollowerKeeps
  <2> QED BY <2>1, <2>5 DEF FollowInv
<1>15. ASSUME NEW f \in Followers, FollowerDone(f) PROVE FollowInv'
  <2>1. /\ follow[f] = "running" /\ follow' = [follow EXCEPT ![f] = "done"] /\ EndFollower(f)
        /\ hand' = [hand EXCEPT ![f] = None] /\ live' = [live EXCEPT ![f] = <<>>]
        /\ UNCHANGED <<log, worker, overflow, base, next, got>>
    BY <1>15 DEF FollowerDone, Working, workerVars
  <2>2. Offered' = Offered
    BY <2>1 DEF Offered, At
  <2>3. \A g \in Followers : g \in followers' => g \in followers /\ g # f
    BY <2>1, EndingKeepsTable DEF TableInv
  <2>4. ASSUME NEW g \in Followers, g # f PROVE FollowOK(g)'
    <3>1. FollowOK(g)
      BY DEF FollowInv
    <3>2. follow'[g] = follow[g] /\ hand'[g] = hand[g] /\ live'[g] = live[g]
      BY <1>1, <2>1, <2>4
    <3> QED BY <1>1, <2>1, <2>2, <2>3, <2>4, <3>1, <3>2, FollowerKeeps
  <2>5. FollowOK(f)'
    <3>1. follow'[f] = "done" /\ hand'[f] = None /\ live'[f] = <<>>
      BY <1>1, <2>1
    <3>2. SentInOrder(got[f], hand[f], Len(log)) /\ got[f] \in Seq(Nat) /\ hand[f] \in Entries
      BY <1>1 DEF FollowInv, FollowOK
    <3>3. SentInOrder(got[f], None, Len(log))
      <4>1. Len(got[f]) \in Nat /\ Len(got[f]) >= 1 /\ got[f][1] \in Nat
        BY <3>2 DEF SentInOrder
      <4>2. Position(got[f], None) <= Position(got[f], hand[f])
            /\ Position(got[f], None) \in Nat /\ Position(got[f], hand[f]) \in Nat
        BY <4>1 DEF Position
      <4>3. Position(got[f], None) <= Len(log)
        BY <1>1, <3>2, <4>2 DEF SentInOrder
      <4> QED BY <3>2, <4>3 DEF SentInOrder
    <3> QED BY <2>1, <2>3, <3>1, <3>3 DEF FollowOK
  <2> QED BY <2>4, <2>5 DEF FollowInv
<1>16. ASSUME NEW f \in Followers, CloseFollower(f) \/ EndNext(f) PROVE FollowInv'
  <2>1. UNCHANGED <<base, next, hand, got, live, log, worker, overflow, follow>> /\ EndFollower(f)
    BY <1>16 DEF CloseFollower, EndNext, workerVars, followerVars
  <2>2. \A g \in Followers : g \in followers' => g \in followers
    BY <2>1, EndingKeepsTable DEF TableInv
  <2> QED BY <1>2, <2>1, <2>2 DEF Offered, At
<1>17. ASSUME NEW f \in Followers, ContextEnds(f) PROVE FollowInv'
  <2>1. UNCHANGED <<base, next, hand, got, live, log, worker, overflow, follow, followers>>
    BY <1>17 DEF ContextEnds, workerVars, followerVars, endVars
  <2> QED BY <1>2, <2>1 DEF Offered, At
<1>18. CASE UNCHANGED vars
  <2>1. UNCHANGED <<base, next, hand, got, live, log, worker, overflow, follow, followers>>
    BY <1>18 DEF vars, workerVars, followerVars, endVars
  <2> QED BY <1>2, <2>1 DEF Offered, At
<1> QED
  BY <1>3, <1>4, <1>5, <1>6, <1>7, <1>8, <1>9, <1>10, <1>11, <1>12, <1>13, <1>14, <1>15, <1>16, <1>17, <1>18
  DEF Next, Admitting, Appending, Following

-----------------------------------------------------------------------------
(* The invariant, and what it says of the order of messages.               *)

RecordInv == TypeOK /\ StoreInv /\ QueueInv /\ WaitInv /\ TableInv /\ FollowInv

LEMMA AdmitTypes ==
  ASSUME TypeOK, NEW c \in Commands, Admit(c)
  PROVE  /\ queue' \in Seq(Commands) /\ Len(queue') <= MaxQueuedMessages
         /\ UNCHANGED <<closed, workerVars, followerVars, endVars, live, cancelled>>
<1>1. queue \in Seq(Commands) /\ Len(queue) \in Nat /\ queue' = Append(queue, c) /\ ~Full
  BY DEF Admit, TypeOK
<1>2. queue' \in Seq(Commands) /\ Len(queue') = Len(queue) + 1 /\ Len(queue) \in Nat
  BY <1>1, CommandBehind
<1> QED BY <1>1, <1>2, RecordAssumption DEF Admit, Full

LEMMA TakesTypes ==
  ASSUME TypeOK, queue # <<>>, queue' = Tail(queue)
  PROVE  /\ queue' \in Seq(Commands) /\ Len(queue') <= MaxQueuedMessages
         /\ queue[1] \in Commands /\ (queue[1].kind # "follow" => queue[1].n \in Nat)
<1>1. /\ queue \in Seq(Commands) /\ Len(queue) <= MaxQueuedMessages
  BY DEF TypeOK
<1>2. Tail(queue) \in Seq(Commands) /\ queue[1] \in Commands /\ Len(Tail(queue)) = Len(queue) - 1 /\ Len(queue) \in Nat
  BY <1>1, CommandAhead
<1> QED BY <1>1, <1>2, CommandTypes, RecordAssumption

LEMMA GotoTypes ==
  ASSUME NEW step \in Steps, NEW message \in Nat, Goto(step, message)
  PROVE  worker' \in [step : Steps, message : Nat]
BY DEF Goto

LEMMA EndTypes ==
  ASSUME TypeOK, End
  PROVE  closed' \in BOOLEAN /\ ending' \subseteq Followers
BY DEF End, TypeOK

LEMMA EndFollowerTypes ==
  ASSUME TypeOK, NEW f \in Followers, EndFollower(f)
  PROVE  stopped' \subseteq Followers /\ followers' \subseteq Followers
BY DEF EndFollower, TypeOK

LEMMA TypeStep ==
  ASSUME TypeOK, StoreInv, WaitInv, FollowInv, [Next]_vars
  PROVE  TypeOK'
<1> USE RecordAssumption
<1>1. CASE Send \/ AskHead \/ \E f \in Followers : AskFollow(f)
  <2>1. \E c \in Commands : Admit(c)
    <3>1. Message(admitted + 1) \in Commands /\ HeadOf(admitted) \in Commands
      BY DEF Commands, Message, HeadOf, TypeOK
    <3>2. \A f \in Followers, after \in 0 .. MaxSequence : Follow(f, after) \in Commands
      BY DEF Commands, Follow
    <3> QED BY <1>1, <3>1, <3>2 DEF Send, AskHead, AskFollow
  <2>2. /\ queue' \in Seq(Commands) /\ Len(queue') <= MaxQueuedMessages
        /\ UNCHANGED <<closed, workerVars, followerVars, endVars, live, cancelled>>
    BY <2>1, AdmitTypes
  <2>3. /\ admitted' \in Nat /\ heads' \in Nat
        /\ follow' \in [Followers -> {"none", "waiting", "refused", "running", "done"}]
    <3>1. /\ admitted \in Nat /\ heads \in Nat
          /\ follow \in [Followers -> {"none", "waiting", "refused", "running", "done"}]
      BY DEF TypeOK
    <3>2. CASE Send
      BY <3>1, <3>2 DEF Send
    <3>3. CASE AskHead
      BY <3>1, <3>3 DEF AskHead
    <3>4. ASSUME NEW f \in Followers, AskFollow(f)
          PROVE  /\ admitted' \in Nat /\ heads' \in Nat
                 /\ follow' \in [Followers -> {"none", "waiting", "refused", "running", "done"}]
      <4>1. follow' = [follow EXCEPT ![f] = "waiting"] /\ UNCHANGED <<admitted, heads>>
        BY <3>4 DEF AskFollow
      <4> QED BY <3>1, <4>1
    <3> QED BY <1>1, <3>2, <3>3, <3>4
  <2> QED BY <2>2, <2>3 DEF TypeOK, workerVars, followerVars, endVars
<1>2. CASE Overflows \/ Close
  <2>1. End /\ UNCHANGED <<admitted, queue, workerVars, followerVars, followers, stopped,
                           heads, follow, live, cancelled>>
    BY <1>2 DEF Overflows, Close
  <2> QED BY <2>1, EndTypes DEF TypeOK, workerVars, followerVars
<1>3. CASE TakeMessage
  <2>1. /\ queue # <<>> /\ queue' = Tail(queue) /\ queue[1].kind = "message" /\ Goto("append", queue[1].n)
        /\ UNCHANGED <<admitted, closed, log, head, overflow, sent, fences, followerVars, endVars,
                       heads, follow, live, cancelled>>
    BY <1>3 DEF TakeMessage, Takes
  <2>2. queue' \in Seq(Commands) /\ Len(queue') <= MaxQueuedMessages /\ queue[1].n \in Nat
    BY <2>1, TakesTypes
  <2>3. worker' \in [step : Steps, message : Nat]
    BY <2>1, <2>2, GotoTypes DEF Steps
  <2> QED BY <2>1, <2>2, <2>3 DEF TypeOK, followerVars, endVars
<1>4. CASE AnswerHead
  <2>1. /\ queue # <<>> /\ queue' = Tail(queue) /\ queue[1].kind = "head"
        /\ fences' = fences \cup {<<queue[1].n, head>>}
        /\ UNCHANGED <<admitted, closed, log, head, worker, overflow, sent, followerVars, endVars,
                       heads, follow, live, cancelled>>
    BY <1>4 DEF AnswerHead, Takes
  <2>2. queue' \in Seq(Commands) /\ Len(queue') <= MaxQueuedMessages /\ queue[1].n \in Nat
    BY <2>1, TakesTypes
  <2>3. fences' \subseteq Nat \X Nat
    BY <2>1, <2>2 DEF TypeOK
  <2> QED BY <2>1, <2>2, <2>3 DEF TypeOK, followerVars, endVars
<1>5. CASE TakeFollow
  <2>1. /\ queue # <<>> /\ queue' = Tail(queue)
        /\ worker' = [step |-> "attach", message |-> 0, command |-> queue[1]]
        /\ UNCHANGED <<admitted, closed, log, head, overflow, sent, fences, followerVars, endVars,
                       heads, follow, live, cancelled>>
    BY <1>5 DEF TakeFollow, Takes
  <2>2. queue' \in Seq(Commands) /\ Len(queue') <= MaxQueuedMessages /\ queue[1] \in Commands
    BY <2>1, TakesTypes
  <2>3. worker' \in [step : {"attach"}, message : Nat, command : Commands]
    BY <2>1, <2>2
  <2> QED BY <2>1, <2>2, <2>3 DEF TypeOK, followerVars, endVars
<1>6. CASE Attach
  <2>1. PICK f : f = worker.command.f
    OBVIOUS
  <2>2. PICK after : after = worker.command.after
    OBVIOUS
  <2>3. f \in Followers /\ after \in Nat
    BY <1>6, <2>1, <2>2, AttachTypes DEF Attach
  <2>4. /\ followers' = followers \cup {f} /\ follow' = [follow EXCEPT ![f] = "running"]
        /\ base' = [base EXCEPT ![f] = head] /\ next' = [next EXCEPT ![f] = after + 1]
        /\ got' = [got EXCEPT ![f] = <<after>>] /\ Goto("idle", 0)
        /\ UNCHANGED <<recorderVars, log, head, overflow, sent, fences, hand, stopped, ending,
                       heads, live, cancelled>>
    BY <1>6, <2>1, <2>2 DEF Attach, Register
  <2>5. worker' \in [step : Steps, message : Nat]
    BY <2>4, GotoTypes DEF Steps
  <2>6. /\ follow' \in [Followers -> {"none", "waiting", "refused", "running", "done"}]
        /\ followers' \subseteq Followers
    BY <2>3, <2>4 DEF TypeOK
  <2>7. base' \in [Followers -> Nat] /\ next' \in [Followers -> Nat \ {0}] /\ got' \in [Followers -> Seq(Nat)]
    <3>1. /\ base \in [Followers -> Nat] /\ next \in [Followers -> Nat \ {0}]
          /\ got \in [Followers -> Seq(Nat)] /\ head \in Nat
      BY DEF TypeOK
    <3>2. <<after>> \in Seq(Nat) /\ after + 1 \in Nat \ {0}
      BY <2>3
    <3> QED BY <2>4, <3>1, <3>2
  <2> QED BY <2>4, <2>5, <2>6, <2>7 DEF TypeOK, recorderVars
<1>7. CASE AttachRefused
  <2>1. /\ \E f : follow' = [follow EXCEPT ![f] = "refused"]
        /\ Goto("idle", 0)
        /\ UNCHANGED <<recorderVars, log, head, overflow, sent, fences, followerVars, endVars,
                       heads, live, cancelled>>
    BY <1>7 DEF AttachRefused
  <2>2. worker' \in [step : Steps, message : Nat]
    BY <2>1, GotoTypes DEF Steps
  <2>3. follow' \in [Followers -> {"none", "waiting", "refused", "running", "done"}]
    BY <2>1 DEF TypeOK
  <2> QED BY <2>1, <2>2, <2>3 DEF TypeOK, recorderVars, followerVars, endVars
<1>8. CASE AppendEntry
  <2>1. /\ Len(log) < MaxSequence /\ log' = Append(log, worker.message) /\ head' = Len(log) + 1
        /\ Goto("offer", worker.message)
        /\ UNCHANGED <<recorderVars, overflow, sent, fences, followerVars, endVars, heads,
                       follow, live, cancelled>>
    BY <1>8 DEF AppendEntry
  <2>2. worker.message \in Nat /\ log \in Seq(Nat) /\ Len(log) \in Nat
    BY DEF TypeOK
  <2>3. log' \in Seq(Nat) /\ head' \in 0 .. MaxSequence
    BY <2>1, <2>2
  <2>4. worker' \in [step : Steps, message : Nat]
    BY <2>1, <2>2, GotoTypes DEF Steps
  <2> QED BY <2>1, <2>3, <2>4 DEF TypeOK, recorderVars, followerVars, endVars
<1>9. CASE AppendFails \/ TargetRefuses
  <2>1. /\ End /\ Goto("idle", 0)
        /\ UNCHANGED <<admitted, queue, log, head, overflow, sent, fences, followerVars, followers,
                       stopped, heads, follow, live, cancelled>>
    BY <1>9 DEF AppendFails, TargetRefuses
  <2>2. worker' \in [step : Steps, message : Nat]
    BY <2>1, GotoTypes DEF Steps
  <2> QED BY <2>1, <2>2, EndTypes DEF TypeOK, followerVars
<1>10. CASE Offer
  <2>1. /\ live' = [f \in Followers |->
             IF f \in followers \ stopped /\ HasRoom(f)
               THEN Append(live[f], Entry(head, worker.message)) ELSE live[f]]
        /\ overflow' = {f \in followers \ stopped : ~HasRoom(f)} /\ Goto("endFull", worker.message)
        /\ UNCHANGED <<recorderVars, log, head, sent, fences, followerVars, endVars, heads,
                       follow, cancelled>>
    BY <1>10 DEF Offer
  <2>2. worker.message \in Nat /\ head \in Nat /\ live \in [Followers -> Seq([seq : Nat, message : Nat])]
    BY DEF TypeOK
  <2>3. worker' \in [step : Steps, message : Nat]
    BY <2>1, <2>2, GotoTypes DEF Steps
  <2>4. live' \in [Followers -> Seq([seq : Nat, message : Nat])]
    <3>1. Entry(head, worker.message) \in [seq : Nat, message : Nat]
      BY <2>2 DEF Entry
    <3>2. \A f \in Followers : Append(live[f], Entry(head, worker.message)) \in Seq([seq : Nat, message : Nat])
      BY <2>2, <3>1
    <3> QED BY <2>1, <2>2, <3>2
  <2> QED BY <2>1, <2>3, <2>4 DEF TypeOK, recorderVars, followerVars, endVars
<1>11. ASSUME NEW f \in Followers, EndFull(f) PROVE TypeOK'
  <2>1. /\ overflow' \subseteq overflow /\ EndFollower(f)
        /\ UNCHANGED <<recorderVars, log, head, worker, sent, fences, followerVars, ending,
                       heads, follow, live, cancelled>>
    BY <1>11 DEF EndFull
  <2> QED BY <2>1, EndFollowerTypes DEF TypeOK, recorderVars, followerVars
<1>12. CASE SendTarget
  <2>1. /\ sent' = Append(sent, worker.message) /\ Goto("idle", 0)
        /\ UNCHANGED <<recorderVars, log, head, overflow, fences, followerVars, endVars, heads,
                       follow, live, cancelled>>
    BY <1>12 DEF SendTarget
  <2>2. worker' \in [step : Steps, message : Nat]
    BY <2>1, GotoTypes DEF Steps
  <2>3. sent' \in Seq(Nat)
    BY <2>1 DEF TypeOK
  <2> QED BY <2>1, <2>2, <2>3 DEF TypeOK, recorderVars, followerVars, endVars
<1>13. CASE WorkerStops
  <2>1. /\ Goto("stopped", 0) /\ queue' = <<>>
        /\ follow' = [f \in Followers |-> IF follow[f] = "waiting" THEN "refused" ELSE follow[f]]
        /\ UNCHANGED <<admitted, closed, log, head, overflow, sent, fences, followerVars, endVars,
                       heads, live, cancelled>>
    BY <1>13 DEF WorkerStops
  <2>2. worker' \in [step : Steps, message : Nat]
    BY <2>1, GotoTypes DEF Steps
  <2>3. queue' \in Seq(Commands) /\ Len(queue') <= MaxQueuedMessages
    BY <2>1
  <2>4. follow' \in [Followers -> {"none", "waiting", "refused", "running", "done"}]
    BY <2>1 DEF TypeOK
  <2> QED BY <2>1, <2>2, <2>3, <2>4 DEF TypeOK, followerVars, endVars
<1>14. ASSUME NEW f \in Followers, Replay(f) PROVE TypeOK'
  <2>1. /\ next[f] <= base[f] /\ hand' = [hand EXCEPT ![f] = Entry(next[f], log[next[f]])]
        /\ next' = [next EXCEPT ![f] = @ + 1] /\ follow[f] = "running"
        /\ UNCHANGED <<recorderVars, workerVars, base, got, endVars, heads, follow, live, cancelled>>
    BY <1>14 DEF Replay, Take, Working
  <2>2. FollowOK(f) /\ next[f] \in Nat \ {0} /\ base[f] \in Nat /\ Len(log) \in Nat
    BY FollowerTypes DEF FollowInv
  <2>3. next[f] \in 1 .. Len(log)
    BY <2>1, <2>2 DEF FollowOK, HandsOff, Offered
  <2>4. Entry(next[f], log[next[f]]) \in [seq : Nat, message : Nat]
    BY <2>3, SMTT(30) DEF Entry, TypeOK
  <2>5. hand' \in [Followers -> [seq : Nat, message : Nat]]
    BY <2>1, <2>4 DEF TypeOK
  <2>6. next' \in [Followers -> Nat \ {0}]
    <3>1. next \in [Followers -> Nat \ {0}] /\ next[f] + 1 \in Nat \ {0}
      BY <2>2 DEF TypeOK
    <3> QED BY <2>1, <3>1
  <2> QED BY <2>1, <2>5, <2>6 DEF TypeOK, recorderVars, workerVars, endVars
<1>15. ASSUME NEW f \in Followers, TakeLive(f) PROVE TypeOK'
  <2>1. /\ live[f] # <<>> /\ hand' = [hand EXCEPT ![f] = live[f][1]] /\ live' = [live EXCEPT ![f] = Tail(@)]
        /\ UNCHANGED <<recorderVars, workerVars, base, next, got, endVars, heads, follow, cancelled>>
    BY <1>15 DEF TakeLive, Take
  <2>2. live[f] \in Seq(Entries)
    BY DEF TypeOK, Entries
  <2>3. live[f][1] \in Entries /\ Tail(live[f]) \in Seq(Entries)
    BY <2>1, <2>2
  <2> QED BY <2>1, <2>3 DEF TypeOK, Entries, recorderVars, workerVars, endVars
<1>16. ASSUME NEW f \in Followers, Deliver(f) PROVE TypeOK'
  <2>1. /\ got' = [got EXCEPT ![f] = Append(@, hand[f].message)] /\ hand' = [hand EXCEPT ![f] = None]
        /\ UNCHANGED <<recorderVars, workerVars, base, next, endVars, heads, follow, live, cancelled>>
    BY <1>16 DEF Deliver
  <2>2. Append(got[f], hand[f].message) \in Seq(Nat) /\ None \in [seq : Nat, message : Nat]
    BY DEF TypeOK, None
  <2> QED BY <2>1, <2>2 DEF TypeOK, recorderVars, workerVars, endVars
<1>17. ASSUME NEW f \in Followers, FollowerDone(f) PROVE TypeOK'
  <2>1. /\ EndFollower(f) /\ follow' = [follow EXCEPT ![f] = "done"]
        /\ hand' = [hand EXCEPT ![f] = None] /\ live' = [live EXCEPT ![f] = <<>>]
        /\ UNCHANGED <<recorderVars, workerVars, base, next, got, ending, heads, cancelled>>
    BY <1>17 DEF FollowerDone
  <2>2. <<>> \in Seq([seq : Nat, message : Nat]) /\ None \in [seq : Nat, message : Nat]
    BY DEF None
  <2> QED BY <2>1, <2>2, EndFollowerTypes DEF TypeOK, recorderVars, workerVars
<1>18. ASSUME NEW f \in Followers, CloseFollower(f) \/ EndNext(f) PROVE TypeOK'
  <2>1. /\ EndFollower(f) /\ ending' \subseteq ending
        /\ UNCHANGED <<recorderVars, workerVars, followerVars, heads, follow, live, cancelled>>
    BY <1>18 DEF CloseFollower, EndNext
  <2> QED BY <2>1, EndFollowerTypes DEF TypeOK, recorderVars, workerVars, followerVars
<1>19. ASSUME NEW f \in Followers, ContextEnds(f) PROVE TypeOK'
  BY <1>19 DEF ContextEnds, TypeOK, recorderVars, workerVars, followerVars, endVars
<1>20. CASE UNCHANGED vars
  BY <1>20 DEF TypeOK, vars, recorderVars, workerVars, followerVars, endVars
<1> QED
  BY <1>1, <1>2, <1>3, <1>4, <1>5, <1>6, <1>7, <1>8, <1>9, <1>10, <1>11, <1>12, <1>13, <1>14, <1>15,
     <1>16, <1>17, <1>18, <1>19, <1>20
  DEF Next, Admitting, Appending, Following

LEMMA RecordInit == Init => RecordInv
<1> SUFFICES ASSUME Init PROVE RecordInv
  OBVIOUS
<1> USE RecordAssumption
<1>1. /\ log = [i \in 1 .. Stored |-> i] /\ Stored \in Nat /\ log \in Seq(Nat) /\ Len(log) = Stored
      /\ queue = <<>> /\ fences = {} /\ ~At("offer") /\ ~At("append") /\ ~At("attach")
      /\ followers = {} /\ overflow = {} /\ ending = {} /\ stopped = {} /\ admitted = Stored
  BY DEF Init, At
<1>2. TypeOK
  <2>1. /\ worker \in [step : Steps, message : Nat] /\ head \in 0 .. MaxSequence
        /\ sent \in Seq(Nat) /\ queue \in Seq(Commands) /\ Len(queue) <= MaxQueuedMessages
        /\ admitted \in Nat /\ closed \in BOOLEAN /\ heads \in Nat /\ cancelled = {}
    <3>1. worker = [step |-> "idle", message |-> 0] /\ sent = <<>> /\ heads = 0
      BY DEF Init
    <3>2. head = Stored /\ closed = FALSE /\ cancelled = {}
      BY DEF Init
    <3>3. Len(queue) = 0
      BY <1>1
    <3>4. worker \in [step : Steps, message : Nat]
      BY <3>1 DEF Steps
    <3>5. sent \in Seq(Nat) /\ queue \in Seq(Commands)
      BY <1>1, <3>1
    <3>6. closed \in BOOLEAN
      BY <3>2
    <3>7. head \in 0 .. MaxSequence /\ Len(queue) <= MaxQueuedMessages /\ admitted \in Nat /\ heads \in Nat
      BY <1>1, <3>1, <3>2, <3>3
    <3> QED BY <3>2, <3>4, <3>5, <3>6, <3>7
  <2>2. /\ follow \in [Followers -> {"none", "waiting", "refused", "running", "done"}]
        /\ base \in [Followers -> Nat] /\ next \in [Followers -> Nat \ {0}]
    BY DEF Init, PerFollower
  <2>3. /\ live \in [Followers -> Seq([seq : Nat, message : Nat])]
        /\ hand \in [Followers -> [seq : Nat, message : Nat]]
        /\ got \in [Followers -> Seq(Nat)]
    BY DEF Init, PerFollower, None
  <2> QED BY <1>1, <2>1, <2>2, <2>3 DEF TypeOK
<1>3. QueueInv
  BY <1>1 DEF QueueInv, InOrder, Worked
<1>4. WaitInv /\ TableInv
  BY <1>1 DEF WaitInv, TableInv
<1>5. FollowInv
  <2> SUFFICES ASSUME NEW f \in Followers PROVE FollowOK(f)
    BY DEF FollowInv
  <2>1. /\ got[f] = <<0>> /\ hand[f] = None /\ next[f] = 1 /\ base[f] = 0 /\ live[f] = <<>>
        /\ follow[f] = "none" /\ Offered = Len(log)
    BY <1>1 DEF Init, PerFollower, Offered
  <2>2. Position(<<0>>, None) = 0 /\ SentInOrder(<<0>>, None, Stored)
    BY <1>1 DEF SentInOrder, Position
  <2>3. HandsOff(0, 1, 0, <<>>, Stored)
    BY <1>1 DEF HandsOff, Replayed
  <2> QED BY <1>1, <2>1, <2>2, <2>3 DEF FollowOK, Fresh
<1> QED BY <1>2, <1>3, <1>4, <1>5, StoreInit DEF RecordInv

LEMMA RecordStep == RecordInv /\ [Next]_vars => RecordInv'
<1> SUFFICES ASSUME RecordInv, [Next]_vars PROVE RecordInv'
  OBVIOUS
<1> USE DEF RecordInv
<1>1. TypeOK'
  BY TypeStep
<1>2. StoreInv'
  BY StoreStep, TakesTheNext
<1>3. QueueInv' /\ WaitInv' /\ TableInv'
  BY QueueStep, WaitStep, TableStep
<1>4. FollowInv'
  BY FollowStep
<1> QED BY <1>1, <1>2, <1>3, <1>4

LEMMA RecordInvariant == Spec => []RecordInv
BY RecordInit, RecordStep, PTL DEF Spec

\* The entries a follower's target was sent are those of the log.
LEMMA SentIsLogged ==
  ASSUME TypeOK, StoreInv, FollowInv
  PROVE  FollowsTheLog
<1> SUFFICES ASSUME NEW f \in Followers, NEW i \in 2 .. Len(got[f])
             PROVE  /\ got[f][1] + i - 1 <= Len(log)
                    /\ got[f][i] = log[got[f][1] + i - 1]
  BY DEF FollowsTheLog
<1>1. got[f] \in Seq(Nat) /\ hand[f] \in Entries /\ Len(log) \in Nat /\ SentInOrder(got[f], hand[f], Len(log))
  BY DEF TypeOK, Entries, FollowInv, FollowOK
<1>2. Len(got[f]) \in Nat /\ Len(got[f]) >= 1 /\ got[f][1] \in Nat
  BY <1>1 DEF SentInOrder
<1>3. got[f][1] + Len(got[f]) - 1 <= Len(log)
  <2>1. Position(got[f], hand[f]) >= got[f][1] + Len(got[f]) - 1 /\ Position(got[f], hand[f]) \in Nat
    BY <1>2 DEF Position
  <2>2. PICK p : p = Position(got[f], hand[f])
    OBVIOUS
  <2>3. p <= Len(log)
    BY <1>1, <2>2 DEF SentInOrder
  <2>4. \A a, b, c \in Int : a <= b /\ b <= c => a <= c
    OBVIOUS
  <2>5. got[f][1] + Len(got[f]) - 1 \in Int
    BY <1>2
  <2> QED BY <1>1, <2>1, <2>2, <2>3, <2>4, <2>5
<1>4. got[f][1] + i - 1 \in 1 .. Len(log)
  BY <1>1, <1>2, <1>3, SMTT(30)
<1>5. got[f][i] = got[f][1] + i - 1
  BY <1>1 DEF SentInOrder
<1> QED BY <1>4, <1>5 DEF StoreInv

\* The recorder's state has its types: the log grows no longer than its last
\* sequence, and the queue no longer than the option that bounds it.
THEOREM RecordTypes == Spec => []TypeOK
BY RecordInvariant, PTL DEF RecordInv

\* From its admission to the store, to the target and to any follower no
\* message is missed, repeated or overtaken, wherever its replay ends and the
\* handoff begins, and whichever of them ends first.
THEOREM RecordKeepsOrder == Spec => []KeepsOrder
<1>1. RecordInv => KeepsOrder
  <2> SUFFICES ASSUME RecordInv PROVE KeepsOrder
    OBVIOUS
  <2>1. StoresInOrder
    <3>1. Stored \in Nat /\ Len(sent) \in Nat /\ Len(log) \in Nat
      BY RecordAssumption DEF RecordInv, TypeOK
    <3>2. \A i \in 1 .. Len(sent) : Stored + i \in 1 .. Len(log) /\ sent[i] = Stored + i
      BY <3>1 DEF RecordInv, StoreInv
    <3> QED BY <3>1, <3>2 DEF RecordInv, StoreInv, StoresInOrder
  <2>2. FollowsTheLog
    BY SentIsLogged DEF RecordInv
  <2> QED BY <2>1, <2>2 DEF KeepsOrder
<1> QED BY <1>1, RecordInvariant, PTL

\* Head answers with an entry at or behind the last message that was admitted
\* when it was called.
THEOREM HeadIsAFence == Spec => []HeadFences
<1>1. RecordInv => HeadFences
  BY DEF RecordInv, QueueInv, HeadFences
<1> QED BY <1>1, RecordInvariant, PTL
=============================================================================
