------------------------------- MODULE Record -------------------------------
(***************************************************************************)
(* A wire that stores every message before it forwards it, and followers   *)
(* that replay what is stored and then go on with what comes               *)
(* (duplex/go/record.go).  One worker runs the admitted commands in order; *)
(* each follower has a worker of its own, and anybody may end the recorder *)
(* or a follower while either is at work.                                  *)
(*                                                                         *)
(* A message is the number of the Send that was admitted, so the n-th      *)
(* admitted message is n, those already in the log included.               *)
(***************************************************************************)
EXTENDS Integers, Sequences

CONSTANTS
  Followers,          \* calls of Follow
  MaxQueuedMessages,  \* RecordOptions.MaxQueuedMessages
  MaxSequence,        \* maxRecordSequence: the last sequence a log gives
  Stored,             \* entries in the log when it is given to Record
  Faulty,             \* what may fail: "log", "target", and followers
  MaxSends,           \* bound of the model: messages sent
  MaxHeads            \* bound of the model: calls of Head

ASSUME RecordAssumption ==
  /\ MaxQueuedMessages \in Nat \ {0} /\ MaxSequence \in Nat
  /\ Stored \in 0 .. MaxSequence /\ MaxSends \in Nat /\ MaxHeads \in Nat

VARIABLES
  admitted,   \* messages admitted, those stored before included
  queue,      \* commands the worker has not taken
  closed,     \* the recorder ended; its context is done
  log,        \* the store
  head,       \* the worker's head
  worker,     \* the worker: what it is about to do
  overflow,   \* followers the worker found full
  ending,     \* followers that the end of the recorder is about to end
  sent,       \* messages the target was sent
  heads,      \* calls of Head so far
  fences,     \* history: <<messages admitted before a Head, its answer>>
  followers,  \* the table of followers
  follow,     \* per call of Follow: none, waiting, refused, running, done
  base,       \* per follower: Follower.Head
  next,       \* per follower: the sequence it replays next
  live,       \* per follower: its handoff
  hand,       \* per follower: the entry it is sending, or none
  stopped,    \* the followers that were ended
  cancelled,  \* the followers whose context ended
  got         \* history, per follower: its cursor, then what its target was sent

recorderVars == <<admitted, queue, closed>>
workerVars == <<log, head, worker, overflow, sent, fences>>
followerVars == <<base, next, hand, got>>
endVars == <<followers, stopped, ending>>
vars == <<recorderVars, workerVars, followerVars, endVars, heads, follow, live, cancelled>>

None == [seq |-> 0, message |-> 0]
Entry(seq, message) == [seq |-> seq, message |-> message]
Message(n) == [kind |-> "message", n |-> n]
HeadOf(n) == [kind |-> "head", n |-> n]
Follow(f, after) == [kind |-> "follow", f |-> f, after |-> after]

\* RecordedWire.end: the first end closes the recorder and takes the followers
\* to end; it ends them in a goroutine of its own.
End ==
  IF closed
    THEN UNCHANGED <<closed, ending>>
    ELSE closed' = TRUE /\ ending' = followers

\* Follower.end, by the follower, the worker, the recorder's end or Close.
EndFollower(f) ==
  /\ stopped' = stopped \cup {f}
  /\ followers' = IF f \in stopped THEN followers ELSE followers \ {f}

Dead(f) == f \in stopped \cup cancelled

-----------------------------------------------------------------------------
(* Admission.                                                              *)

Full == Len(queue) >= MaxQueuedMessages

\* Mutant: a command that finds the queue full is admitted all the same.
AdmitAnyway(command) ==
  /\ ~closed
  /\ queue' = Append(queue, command)
  /\ UNCHANGED <<closed, workerVars, followerVars, endVars, live, cancelled>>

Admit(command) ==
  /\ ~closed /\ ~Full
  /\ queue' = Append(queue, command)
  /\ UNCHANGED <<closed, workerVars, followerVars, endVars, live, cancelled>>

Send ==
  /\ admitted < Stored + MaxSends
  /\ Admit(Message(admitted + 1))
  /\ admitted' = admitted + 1
  /\ UNCHANGED <<heads, follow>>

\* Mutant: Head reads the worker's head without waiting for its turn.
AskHeadNow ==
  /\ ~closed /\ heads < MaxHeads
  /\ heads' = heads + 1 /\ fences' = fences \cup {<<admitted, head>>}
  /\ UNCHANGED <<recorderVars, log, head, worker, overflow, sent, followerVars,
                 endVars, follow, live, cancelled>>

AskHead ==
  /\ heads < MaxHeads
  /\ Admit(HeadOf(admitted))
  /\ heads' = heads + 1
  /\ UNCHANGED <<admitted, follow>>

AskFollow(f) ==
  /\ follow[f] = "none"
  /\ \E after \in 0 .. MaxSequence : Admit(Follow(f, after))
  /\ follow' = [follow EXCEPT ![f] = "waiting"]
  /\ UNCHANGED <<admitted, heads>>

\* A command that finds no room ends the recorder with ErrRecordOverflow.
Overflows ==
  /\ ~closed /\ Full
  /\ End
  /\ UNCHANGED <<admitted, queue, workerVars, followerVars, followers, stopped,
                 heads, follow, live, cancelled>>

Close ==
  /\ ~closed
  /\ End
  /\ UNCHANGED <<admitted, queue, workerVars, followerVars, followers, stopped,
                 heads, follow, live, cancelled>>

-----------------------------------------------------------------------------
(* The worker.                                                             *)

At(step) == worker.step = step
Goto(step, message) == worker' = [step |-> step, message |-> message]
Takes(kind) == At("idle") /\ ~closed /\ queue # <<>> /\ queue[1].kind = kind

TakeMessage ==
  /\ Takes("message")
  /\ queue' = Tail(queue)
  /\ Goto("append", queue[1].n)
  /\ UNCHANGED <<admitted, closed, log, head, overflow, sent, fences, followerVars,
                 endVars, heads, follow, live, cancelled>>

AnswerHead ==
  /\ Takes("head")
  /\ queue' = Tail(queue)
  /\ fences' = fences \cup {<<queue[1].n, head>>}
  /\ UNCHANGED <<admitted, closed, log, head, worker, overflow, sent, followerVars,
                 endVars, heads, follow, live, cancelled>>

\* Follow's command was taken while the recorder was open; it looks again when
\* it enters the table.
TakeFollow ==
  /\ Takes("follow")
  /\ worker' = [step |-> "attach", message |-> 0, command |-> queue[1]]
  /\ queue' = Tail(queue)
  /\ UNCHANGED <<admitted, closed, log, head, overflow, sent, fences, followerVars,
                 endVars, heads, follow, live, cancelled>>

Register(c) ==
  /\ followers' = followers \cup {c.f}
  /\ follow' = [follow EXCEPT ![c.f] = "running"]
  /\ base' = [base EXCEPT ![c.f] = head]
  /\ next' = [next EXCEPT ![c.f] = c.after + 1]
  /\ got' = [got EXCEPT ![c.f] = <<c.after>>]
  /\ Goto("idle", 0)
  /\ UNCHANGED <<recorderVars, log, head, overflow, sent, fences, hand, stopped, ending,
                 heads, live, cancelled>>

\* Mutant: the table is entered without looking whether the recorder ended.
AttachLate ==
  /\ At("attach")
  /\ LET c == worker.command IN
       c.f \notin cancelled /\ c.after <= head /\ Register(c)

Attach ==
  /\ At("attach")
  /\ LET c == worker.command IN
       c.f \notin cancelled /\ c.after <= head /\ ~closed /\ Register(c)

AttachRefused ==
  /\ At("attach")
  /\ LET c == worker.command IN
       /\ c.f \in cancelled \/ c.after > head \/ closed
       /\ follow' = [follow EXCEPT ![c.f] = "refused"]
  /\ Goto("idle", 0)
  /\ UNCHANGED <<recorderVars, log, head, overflow, sent, fences, followerVars, endVars,
                 heads, live, cancelled>>

\* The store may have taken the entry although the recorder ended meanwhile.
AppendEntry ==
  /\ At("append") /\ Len(log) < MaxSequence
  /\ log' = Append(log, worker.message)
  /\ head' = Len(log) + 1
  /\ Goto("offer", worker.message)
  /\ UNCHANGED <<recorderVars, overflow, sent, fences, followerVars, endVars, heads,
                 follow, live, cancelled>>

AppendFails ==
  /\ At("append")
  /\ Len(log) >= MaxSequence \/ "log" \in Faulty \/ closed
  /\ End
  /\ Goto("idle", 0)
  /\ UNCHANGED <<admitted, queue, log, head, overflow, sent, fences, followerVars,
                 followers, stopped, heads, follow, live, cancelled>>

HasRoom(f) == Len(live[f]) < MaxQueuedMessages

\* Mutant: the worker waits for a follower that is full.
OfferWaits ==
  /\ At("offer")
  /\ \A f \in followers : HasRoom(f)
  /\ live' = [f \in Followers |->
       IF f \in followers THEN Append(live[f], Entry(head, worker.message)) ELSE live[f]]
  /\ overflow' = {}
  /\ Goto("endFull", worker.message)
  /\ UNCHANGED <<recorderVars, log, head, sent, fences, followerVars, endVars, heads,
                 follow, cancelled>>

\* Mutant: a follower that is full misses the entry and goes on.
OfferDrops ==
  /\ At("offer")
  /\ live' = [f \in Followers |->
       IF f \in followers \ stopped /\ HasRoom(f)
         THEN Append(live[f], Entry(head, worker.message)) ELSE live[f]]
  /\ overflow' = {}
  /\ Goto("endFull", worker.message)
  /\ UNCHANGED <<recorderVars, log, head, sent, fences, followerVars, endVars, heads,
                 follow, cancelled>>

Offer ==
  /\ At("offer")
  /\ live' = [f \in Followers |->
       IF f \in followers \ stopped /\ HasRoom(f)
         THEN Append(live[f], Entry(head, worker.message)) ELSE live[f]]
  /\ overflow' = {f \in followers \ stopped : ~HasRoom(f)}
  /\ Goto("endFull", worker.message)
  /\ UNCHANGED <<recorderVars, log, head, sent, fences, followerVars, endVars, heads,
                 follow, cancelled>>

EndFull(f) ==
  /\ At("endFull") /\ f \in overflow
  /\ overflow' = overflow \ {f}
  /\ EndFollower(f)
  /\ UNCHANGED <<recorderVars, log, head, worker, sent, fences, followerVars, ending,
                 heads, follow, live, cancelled>>

\* The target is sent an entry unless the recorder ended before.
SendTarget ==
  /\ At("endFull") /\ overflow = {} /\ ~closed
  /\ sent' = Append(sent, worker.message)
  /\ Goto("idle", 0)
  /\ UNCHANGED <<recorderVars, log, head, overflow, fences, followerVars, endVars, heads,
                 follow, live, cancelled>>

TargetRefuses ==
  /\ At("endFull") /\ overflow = {} /\ "target" \in Faulty
  /\ End
  /\ Goto("idle", 0)
  /\ UNCHANGED <<admitted, queue, log, head, overflow, sent, fences, followerVars,
                 followers, stopped, heads, follow, live, cancelled>>

\* The worker of an ended recorder discards what is queued and returns; who waits for it sees the recorder's end.
WorkerStops ==
  /\ closed /\ (At("idle") \/ (At("endFull") /\ overflow = {}))
  /\ Goto("stopped", 0)
  /\ queue' = <<>>
  /\ follow' = [f \in Followers |-> IF follow[f] = "waiting" THEN "refused" ELSE follow[f]]
  /\ UNCHANGED <<admitted, closed, log, head, overflow, sent, fences, followerVars, endVars,
                 heads, live, cancelled>>

-----------------------------------------------------------------------------
(* Followers.                                                              *)

Working(f) == follow[f] = "running"

\* Take an entry to send, if the follower was not ended before.
Take(f, entry) ==
  /\ Working(f) /\ hand[f] = None /\ ~Dead(f)
  /\ hand' = [hand EXCEPT ![f] = entry]

Replay(f) ==
  /\ next[f] <= base[f]
  /\ Take(f, Entry(next[f], log[next[f]]))
  /\ next' = [next EXCEPT ![f] = @ + 1]
  /\ UNCHANGED <<recorderVars, workerVars, base, got, endVars, heads, follow, live, cancelled>>

TakeLive(f) ==
  /\ next[f] > base[f] /\ live[f] # <<>>
  /\ Take(f, live[f][1])
  /\ live' = [live EXCEPT ![f] = Tail(@)]
  /\ UNCHANGED <<recorderVars, workerVars, base, next, got, endVars, heads, follow, cancelled>>

Deliver(f) ==
  /\ hand[f] # None
  /\ got' = [got EXCEPT ![f] = Append(@, hand[f].message)]
  /\ hand' = [hand EXCEPT ![f] = None]
  /\ UNCHANGED <<recorderVars, workerVars, base, next, endVars, heads, follow, live, cancelled>>

\* The follower's target, or the store it replays from, fails, or its context
\* is done: its worker ends it, drains the handoff and is done.
FollowerDone(f) ==
  /\ Working(f) /\ (f \in Faulty \/ (hand[f] = None /\ Dead(f)))
  /\ EndFollower(f)
  /\ follow' = [follow EXCEPT ![f] = "done"]
  /\ hand' = [hand EXCEPT ![f] = None]
  /\ live' = [live EXCEPT ![f] = <<>>]
  /\ UNCHANGED <<recorderVars, workerVars, base, next, got, ending, heads, cancelled>>

CloseFollower(f) ==
  /\ Working(f) /\ f \notin stopped
  /\ EndFollower(f)
  /\ UNCHANGED <<recorderVars, workerVars, followerVars, ending, heads, follow, live, cancelled>>

ContextEnds(f) ==
  /\ follow[f] # "none" /\ f \notin cancelled
  /\ cancelled' = cancelled \cup {f}
  /\ UNCHANGED <<recorderVars, workerVars, followerVars, endVars, heads, follow, live>>

\* The goroutine RecordedWire.end started.
EndNext(f) ==
  /\ f \in ending
  /\ ending' = ending \ {f}
  /\ EndFollower(f)
  /\ UNCHANGED <<recorderVars, workerVars, followerVars, heads, follow, live, cancelled>>

-----------------------------------------------------------------------------
PerFollower(v) == [f \in Followers |-> v]

Init ==
  /\ admitted = Stored /\ queue = <<>> /\ closed = FALSE
  /\ log = [i \in 1 .. Stored |-> i] /\ head = Stored
  /\ worker = [step |-> "idle", message |-> 0]
  /\ overflow = {} /\ ending = {} /\ sent = <<>> /\ heads = 0 /\ fences = {}
  /\ followers = {} /\ follow = PerFollower("none") /\ base = PerFollower(0)
  /\ next = PerFollower(1) /\ live = PerFollower(<<>>) /\ hand = PerFollower(None)
  /\ stopped = {} /\ cancelled = {} /\ got = PerFollower(<<0>>)

Admitting == Send \/ AskHead \/ Overflows \/ \E f \in Followers : AskFollow(f)

Appending ==
  \/ TakeMessage \/ AnswerHead \/ TakeFollow \/ Attach \/ AttachRefused
  \/ AppendEntry \/ AppendFails \/ Offer \/ SendTarget \/ TargetRefuses \/ WorkerStops
  \/ \E f \in Followers : EndFull(f)

Following(f) == Replay(f) \/ TakeLive(f) \/ Deliver(f) \/ FollowerDone(f)

Next ==
  \/ Admitting \/ Appending \/ Close
  \/ \E f \in Followers :
       Following(f) \/ CloseFollower(f) \/ ContextEnds(f) \/ EndNext(f)

Spec == Init /\ [][Next]_vars

\* The worker and the goroutine of the recorder's end run.  No target of a
\* follower need ever return from a Send.
Fairness == WF_vars(Appending) /\ \A f \in Followers : WF_vars(EndNext(f))

FairSpec == Spec /\ Fairness

-----------------------------------------------------------------------------
(* Properties.                                                             *)

Commands ==
  [kind : {"message", "head"}, n : Nat]
    \cup [kind : {"follow"}, f : Followers, after : Nat]
Steps == {"idle", "append", "offer", "endFull", "stopped"}

TypeOK ==
  /\ admitted \in Nat /\ queue \in Seq(Commands) /\ closed \in BOOLEAN
  /\ Len(queue) <= MaxQueuedMessages
  /\ log \in Seq(Nat) /\ head \in 0 .. MaxSequence
  /\ worker \in [step : Steps, message : Nat]
                  \cup [step : {"attach"}, message : Nat, command : Commands]
  /\ overflow \subseteq Followers /\ ending \subseteq Followers
  /\ sent \in Seq(Nat) /\ heads \in Nat /\ fences \subseteq Nat \X Nat
  /\ followers \subseteq Followers /\ stopped \subseteq Followers
  /\ cancelled \subseteq Followers
  /\ follow \in [Followers -> {"none", "waiting", "refused", "running", "done"}]
  /\ base \in [Followers -> Nat] /\ next \in [Followers -> Nat \ {0}]
  /\ live \in [Followers -> Seq([seq : Nat, message : Nat])]
  /\ hand \in [Followers -> [seq : Nat, message : Nat]]
  /\ got \in [Followers -> Seq(Nat)]

\* What was admitted is stored in the order of admission, nothing is skipped,
\* and the target is sent what is stored, in that order and after it is stored.
StoresInOrder ==
  /\ \A i \in 1 .. Len(log) : log[i] = i
  /\ \A i \in 1 .. Len(sent) : Stored + i <= Len(log) /\ sent[i] = log[Stored + i]

\* What a follower's target is sent is the log behind its cursor, entry by
\* entry: nothing is missed or repeated where replay ends and the handoff
\* begins, or when the handoff overflows and the follower is ended.
FollowsTheLog == \A f \in Followers : \A i \in 2 .. Len(got[f]) :
  /\ got[f][1] + i - 1 <= Len(log)
  /\ got[f][i] = log[got[f][1] + i - 1]

\* Both: from its admission to any follower, no message is missed, repeated or
\* overtaken.
KeepsOrder == StoresInOrder /\ FollowsTheLog

\* Head answers for every message that was admitted before it was called.
HeadFences == \A fence \in fences : fence[2] >= fence[1]

\* A follower that is full is ended and nothing else is: what was admitted is
\* stored, unless the recorder ends, though no follower ever takes anything.
Proceeds == \A n \in 1 .. Stored + MaxSends : admitted >= n ~> Len(log) >= n \/ closed

\* The end of the recorder ends every follower, one that is just attached
\* included.
EndsFollowers == closed ~> [](followers = {})
=============================================================================
