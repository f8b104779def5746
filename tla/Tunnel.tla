------------------------------- MODULE Tunnel -------------------------------
(***************************************************************************)
(* Channels multiplexed over one outer connection (tunnel/go/tunnel.go):   *)
(* channel.open is a request, channel.frame, channel.credit and            *)
(* channel.close are events.  The outer peers are module Peer's: requests  *)
(* run in goroutines of their own and events are handled one at a time, in *)
(* the order they were queued, so a request or its response may overtake   *)
(* an event and the reverse.                                               *)
(*                                                                         *)
(* Each end of a channel has one sender and one consumer, as duplex.Conn   *)
(* demands.  The wake token of take() is not shown: with one sender a      *)
(* token always follows the credit it announces.                           *)
(***************************************************************************)
EXTENDS Integers, Sequences, FiniteSets

CONSTANTS
  Channels,        \* the ids there are, odd by the client and even by the server
  AcceptCapacity,  \* Options.AcceptCapacity of both sides
  QueueCapacity,   \* room of the outer peer's output queue
  Settings         \* the configurations and surroundings a behaviour may have

ASSUME TunnelAssumption ==
  /\ Channels \subseteq Nat \ {0}
  /\ AcceptCapacity \in Nat \ {0} /\ QueueCapacity \in Nat \ {0}
  /\ \A s \in Settings : s.window \in Nat \ {0} /\ s.frames \in Nat

\* One of Settings, chosen at the start and never changed.
VARIABLE setting

Window == setting.window        \* Options.Window of both sides
Opened == setting.opened        \* the channels that are opened
Mismatched == setting.mismatched  \* those whose open is malformed or names another digest
Senders == setting.senders      \* the ends <<side, channel>> that send
Idle == setting.idle            \* the ends whose consumer need never receive
Closers == setting.closers      \* the ends whose application closes or aborts them
Impatient == setting.impatient  \* the sides whose contexts may end during an open or a send
Stalling == setting.stalling    \* the sides whose output queue may stay full for a second
Greedy == setting.greedy        \* the sides that are not this implementation and ignore credit
Unfit == setting.unfit          \* the ends that may send a frame the receiver cannot take
OuterEnds == setting.outerEnds  \* the sides whose outer peer may end
MaxFrames == setting.frames     \* bound of the model: frames an end sends

Sides == {"client", "server"}
Other(p) == IF p = "client" THEN "server" ELSE "client"
Ends == Sides \X Channels

\* The parity of the id says who opened the channel.
Opener(c) == IF c % 2 = 1 THEN "client" ELSE "server"
Acceptor(c) == Other(Opener(c))
Far(e) == <<Other(e[1]), e[2]>>

VARIABLES
  open,      \* per channel: the opener's call of channel.open
  request,   \* per channel: that request at the acceptor
  table,     \* per side: the channels in the tunnel's table
  pending,   \* per side: opened by the other side and not taken yet
  held,      \* the ends an application holds
  state,     \* per end: absent, open, or how it ended; "gone" is the close 1001
  credit,    \* per end: frames it may still send
  sending,   \* per end: its sender
  inbox,     \* per end: frames received and not taken
  taken,     \* per end: frames taken since credit was last returned
  crediting, \* per end: credit its consumer is about to return
  closing,   \* the ends whose close is about to be told
  telling,   \* per side: the channel whose refusal the event loop is telling
  queue,     \* per side: events queued for the other side
  outer,     \* per side: its outer peer, up or ended
  watched,   \* the sides whose watch has run
  sent,      \* history, per end: frames queued
  got,       \* history, per end: the last frame its consumer took
  last,      \* history, per end: frames queued before its close was
  saw        \* history, per end: the close its consumer was given

openVars == <<open, request, table, pending, held>>
sendVars == <<credit, sending, sent>>
recvVars == <<inbox, taken, crediting, got, saw>>
endVars == <<state, closing, telling, last>>
outerVars == <<outer, watched>>
vars == <<setting, openVars, sendVars, recvVars, endVars, queue, outerVars>>

\* The frame numbered 0 stands for one over the receiver's limit, or one that is
\* neither text nor binary.
Frame(c, n) == [kind |-> "frame", channel |-> c, n |-> n]
Credit(c, n) == [kind |-> "credit", channel |-> c, n |-> n]
CloseNotice(c) == [kind |-> "close", channel |-> c, n |-> 0]

\* Emit: queued only while the outer peer runs and has room.
Room(p) == outer[p] = "up" /\ Len(queue[p]) < QueueCapacity
Emit(p, f) == queue' = [queue EXCEPT ![p] = Append(@, f)]

\* Emit gives up: the peer ended, or its deadline of a second passed.
EmitFails(p) == outer[p] # "up" \/ (p \in Stalling /\ ~Room(p))

\* An id is pending once at most.
Without(q, c) ==
  LET at == {i \in 1 .. Len(q) : q[i] = c}
      first == CHOOSE i \in at : TRUE
  IN IF at = {} THEN q ELSE SubSeq(q, 1, first - 1) \o SubSeq(q, first + 1, Len(q))

Remove(p, c) ==
  /\ table' = [table EXCEPT ![p] = @ \ {c}]
  /\ pending' = [pending EXCEPT ![p] = Without(@, c)]

\* end runs once: a channel that has ended keeps its first reason.
EndAs(e, how) == state' = [state EXCEPT ![e] = IF @ = "open" THEN how ELSE @]

-----------------------------------------------------------------------------
(* Opening.                                                                *)

OpenCall(c) ==
  /\ c \in Opened /\ open[c] = "none"
  /\ open' = [open EXCEPT ![c] = "calling"]
  /\ request' = [request EXCEPT ![c] = IF outer[Opener(c)] = "up" THEN "asked" ELSE "none"]
  /\ table' = [table EXCEPT ![Opener(c)] = @ \cup {c}]
  /\ state' = [state EXCEPT ![<<Opener(c), c>>] = "open"]
  /\ UNCHANGED <<setting, pending, held, sendVars, recvVars, closing, telling, last, queue, outerVars>>

\* The acceptor's reader starts the handler, which then runs on its own: the
\* outer peer may end before it does.
OpenReceived(c) ==
  /\ request[c] = "asked" /\ outer[Acceptor(c)] = "up"
  /\ request' = [request EXCEPT ![c] = "handling"]
  /\ UNCHANGED <<setting, open, table, pending, held, sendVars, recvVars, endVars, queue, outerVars>>

\* onOpen and admit.  The acceptor's credit is the opener's window.
Refuses(c) ==
  \/ c \in Mismatched \/ c \in table[Acceptor(c)]
  \/ Len(pending[Acceptor(c)]) >= AcceptCapacity

\* Mutant: the acceptor starts with a frame more than the opener's window.
AdmitExtra(c) ==
  /\ request[c] = "handling"
  /\ LET e == <<Acceptor(c), c>> IN
       /\ request' = [request EXCEPT ![c] = "admitted"]
       /\ table' = [table EXCEPT ![e[1]] = @ \cup {c}]
       /\ pending' = [pending EXCEPT ![e[1]] = Append(@, c)]
       /\ state' = [state EXCEPT ![e] = "open"]
       /\ credit' = [credit EXCEPT ![e] = Window + 1]
  /\ UNCHANGED <<setting, open, held, sending, sent, recvVars, closing, telling, last, queue, outerVars>>

Admit(c) ==
  /\ request[c] = "handling"
  /\ LET e == <<Acceptor(c), c>> IN
       IF Refuses(c)
         THEN /\ request' = [request EXCEPT ![c] = "refused"]
              /\ UNCHANGED <<table, pending, state, credit>>
         ELSE /\ request' = [request EXCEPT ![c] = "admitted"]
              /\ table' = [table EXCEPT ![e[1]] = @ \cup {c}]
              /\ pending' = [pending EXCEPT ![e[1]] = Append(@, c)]
              /\ state' = [state EXCEPT ![e] = "open"]
              /\ credit' = [credit EXCEPT ![e] = Window]
  /\ UNCHANGED <<setting, open, held, sending, sent, recvVars, closing, telling, last, queue, outerVars>>

OpenReturns(c) ==
  /\ open[c] = "calling" /\ request[c] = "admitted" /\ outer[Opener(c)] = "up"
  /\ open' = [open EXCEPT ![c] = "opened"]
  /\ credit' = [credit EXCEPT ![<<Opener(c), c>>] = @ + Window]
  /\ held' = held \cup {<<Opener(c), c>>}
  /\ UNCHANGED <<setting, request, table, pending, sending, sent, recvVars, endVars, queue, outerVars>>

\* The open was refused, its context ended, or the outer peer did.
OpenFails(c) ==
  /\ open[c] = "calling"
  /\ \/ request[c] = "refused"
     \/ Opener(c) \in Impatient
     \/ outer[Opener(c)] # "up"
  /\ open' = [open EXCEPT ![c] = "failed"]
  /\ Remove(Opener(c), c)
  /\ EndAs(<<Opener(c), c>>, "closed")
  /\ UNCHANGED <<setting, request, held, sendVars, recvVars, closing, telling, last, queue, outerVars>>

Accept(p) ==
  /\ pending[p] # <<>>
  /\ held' = held \cup {<<p, Head(pending[p])>>}
  /\ pending' = [pending EXCEPT ![p] = Tail(@)]
  /\ UNCHANGED <<setting, open, request, table, sendVars, recvVars, endVars, queue, outerVars>>

\* Connection resolves the id a message carried, either side's; a channel
\* still pending counts as taken.  Nobody knows the id of a channel that has
\* not been admitted.
Resolve(p, c) ==
  /\ c \in table[p] /\ request[c] = "admitted" /\ <<p, c>> \notin held
  /\ held' = held \cup {<<p, c>>}
  /\ pending' = [pending EXCEPT ![p] = Without(@, c)]
  /\ UNCHANGED <<setting, open, request, table, sendVars, recvVars, endVars, queue, outerVars>>

-----------------------------------------------------------------------------
(* Sending: take spends credit, then the frame is emitted.                 *)

MaySend(e) == e \in Senders \cap held /\ sending[e] = "idle" /\ sent[e] < MaxFrames

\* Mutant: take does not look at the credit it spends.
SendTakesUnchecked(e) ==
  /\ MaySend(e) /\ state[e] = "open"
  /\ credit' = [credit EXCEPT ![e] = @ - 1]
  /\ sending' = [sending EXCEPT ![e] = "emitting"]
  /\ UNCHANGED <<setting, openVars, sent, recvVars, endVars, queue, outerVars>>

SendTakes(e) ==
  /\ MaySend(e) \/ sending[e] = "waiting"
  /\ state[e] = "open"
  /\ credit[e] > 0 \/ (e[1] \in Greedy /\ open[e[2]] = "opened")
  /\ credit' = [credit EXCEPT ![e] = IF @ > 0 THEN @ - 1 ELSE @]
  /\ sending' = [sending EXCEPT ![e] = "emitting"]
  /\ UNCHANGED <<setting, openVars, sent, recvVars, endVars, queue, outerVars>>

SendWaits(e) ==
  /\ MaySend(e) /\ state[e] = "open"
  /\ credit[e] = 0
  /\ sending' = [sending EXCEPT ![e] = "waiting"]
  /\ UNCHANGED <<setting, openVars, credit, sent, recvVars, endVars, queue, outerVars>>

SendEmits(e) ==
  /\ sending[e] = "emitting" /\ Room(e[1])
  /\ \/ /\ sent' = [sent EXCEPT ![e] = @ + 1]
        /\ Emit(e[1], Frame(e[2], sent[e] + 1))
     \/ e \in Unfit /\ Emit(e[1], Frame(e[2], 0)) /\ UNCHANGED sent
  /\ sending' = [sending EXCEPT ![e] = "idle"]
  /\ UNCHANGED <<setting, openVars, credit, recvVars, endVars, outerVars>>

\* The context ended while waiting, or the channel did.
SendGivesUp(e) ==
  /\ sending[e] = "waiting"
  /\ e[1] \in Impatient \/ state[e] # "open"
  /\ sending' = [sending EXCEPT ![e] = "idle"]
  /\ UNCHANGED <<setting, openVars, credit, sent, recvVars, endVars, queue, outerVars>>

\* Emit fails: the context ended, the event is over the outer peer's limit, or
\* the outer peer ended.  The credit stays spent.
SendFails(e) ==
  /\ sending[e] = "emitting"
  /\ e[1] \in Impatient \/ outer[e[1]] # "up"
  /\ sending' = [sending EXCEPT ![e] = "idle"]
  /\ UNCHANGED <<setting, openVars, credit, sent, recvVars, endVars, queue, outerVars>>

-----------------------------------------------------------------------------
(* Receiving.                                                              *)

HalfWindow == IF Window \div 2 > 1 THEN Window \div 2 ELSE 1

\* Mutant: credit is returned only past a whole window.
ReceiveLate(e) ==
  /\ e \in held /\ crediting[e] = 0
  /\ state[e] # "closed" /\ inbox[e] # <<>>
  /\ inbox' = [inbox EXCEPT ![e] = Tail(@)]
  /\ got' = [got EXCEPT ![e] = Head(inbox[e])]
  /\ IF taken[e] + 1 > Window
       THEN /\ crediting' = [crediting EXCEPT ![e] = taken[e] + 1]
            /\ taken' = [taken EXCEPT ![e] = 0]
       ELSE /\ taken' = [taken EXCEPT ![e] = @ + 1]
            /\ UNCHANGED crediting
  /\ UNCHANGED <<setting, openVars, sendVars, saw, endVars, queue, outerVars>>

Receive(e) ==
  /\ e \in held /\ crediting[e] = 0
  /\ state[e] # "closed" /\ inbox[e] # <<>>
  /\ inbox' = [inbox EXCEPT ![e] = Tail(@)]
  /\ got' = [got EXCEPT ![e] = Head(inbox[e])]
  /\ IF taken[e] + 1 >= HalfWindow
       THEN /\ crediting' = [crediting EXCEPT ![e] = taken[e] + 1]
            /\ taken' = [taken EXCEPT ![e] = 0]
       ELSE /\ taken' = [taken EXCEPT ![e] = @ + 1]
            /\ UNCHANGED crediting
  /\ UNCHANGED <<setting, openVars, sendVars, saw, endVars, queue, outerVars>>

ReturnCredit(e) ==
  /\ crediting[e] > 0 /\ Room(e[1])
  /\ Emit(e[1], Credit(e[2], crediting[e]))
  /\ crediting' = [crediting EXCEPT ![e] = 0]
  /\ UNCHANGED <<setting, openVars, sendVars, inbox, taken, got, saw, endVars, outerVars>>

CreditLost(e) ==
  /\ crediting[e] > 0 /\ EmitFails(e[1])
  /\ crediting' = [crediting EXCEPT ![e] = 0]
  /\ UNCHANGED <<setting, openVars, sendVars, inbox, taken, got, saw, endVars, queue, outerVars>>

\* Receive returns the end: behind the frames that arrived before it, except
\* that a channel that refused a frame may end at once.
\* Mutant: a close already known is returned before what is in the inbox.
ReceiveEndEager(e) ==
  /\ e \in held /\ crediting[e] = 0 /\ saw[e] = "none"
  /\ state[e] # "open"
  /\ saw' = [saw EXCEPT ![e] = state[e]]
  /\ UNCHANGED <<setting, openVars, sendVars, inbox, taken, crediting, got, endVars, queue, outerVars>>

ReceiveEnd(e) ==
  /\ e \in held /\ crediting[e] = 0 /\ saw[e] = "none"
  /\ state[e] # "open"
  /\ state[e] \in {"remote", "gone"} => inbox[e] = <<>>
  /\ saw' = [saw EXCEPT ![e] = state[e]]
  /\ UNCHANGED <<setting, openVars, sendVars, inbox, taken, crediting, got, endVars, queue, outerVars>>

-----------------------------------------------------------------------------
(* The event loop of a side: one event at a time, unless it is telling a   *)
(* refusal.                                                                *)

Arrives(p, kind) ==
  /\ outer[p] = "up" /\ telling[p] = 0
  /\ queue[Other(p)] # <<>> /\ Head(queue[Other(p)]).kind = kind

Arrived(p) == Head(queue[Other(p)])
Consume(p) == queue' = [queue EXCEPT ![Other(p)] = Tail(@)]

\* Mutant: a frame that finds the inbox full is dropped.
OnFrameDrops(p) ==
  /\ Arrives(p, "frame")
  /\ LET e == <<p, Arrived(p).channel>> IN
       inbox' = [inbox EXCEPT ![e] =
         IF e[2] \in table[p] /\ Len(@) < Window THEN Append(@, Arrived(p).n) ELSE @]
  /\ Consume(p)
  /\ UNCHANGED <<setting, openVars, sendVars, taken, crediting, got, saw, endVars, outerVars>>

\* Mutant: the inbox is a frame shorter than the window that was declared.
OnFrameTight(p) ==
  /\ Arrives(p, "frame")
  /\ LET e == <<p, Arrived(p).channel>> IN
       IF Len(inbox[e]) < Window - 1
         THEN /\ inbox' = [inbox EXCEPT ![e] = Append(@, Arrived(p).n)]
              /\ UNCHANGED <<table, pending, state, telling>>
         ELSE /\ EndAs(e, "overrun") /\ Remove(p, e[2])
              /\ telling' = [telling EXCEPT ![p] = e[2]]
              /\ UNCHANGED inbox
  /\ Consume(p)
  /\ UNCHANGED <<setting, open, request, held, sendVars, taken, crediting, got, saw, closing, last, outerVars>>

OnFrame(p) ==
  /\ Arrives(p, "frame")
  /\ LET e == <<p, Arrived(p).channel>> IN
       \/ /\ e[2] \notin table[p]
          /\ UNCHANGED <<inbox, table, pending, state, telling>>
       \/ /\ e[2] \in table[p] /\ Arrived(p).n # 0 /\ Len(inbox[e]) < Window
          /\ inbox' = [inbox EXCEPT ![e] = Append(@, Arrived(p).n)]
          /\ UNCHANGED <<table, pending, state, telling>>
       \/ /\ e[2] \in table[p] /\ (Arrived(p).n = 0 \/ Len(inbox[e]) >= Window)
          /\ EndAs(e, IF Arrived(p).n = 0 THEN "refused" ELSE "overrun")
          /\ Remove(p, e[2])
          /\ telling' = [telling EXCEPT ![p] = e[2]]
          /\ UNCHANGED inbox
  /\ Consume(p)
  /\ UNCHANGED <<setting, open, request, held, sendVars, taken, crediting, got, saw, closing, last, outerVars>>

\* Mutant: grant overwrites the credit it should add to.
OnCreditSets(p) ==
  /\ Arrives(p, "credit")
  /\ LET e == <<p, Arrived(p).channel>> IN
       credit' = [credit EXCEPT ![e] = IF e[2] \in table[p] THEN Arrived(p).n ELSE @]
  /\ Consume(p)
  /\ UNCHANGED <<setting, openVars, sending, sent, recvVars, endVars, outerVars>>

OnCredit(p) ==
  /\ Arrives(p, "credit")
  /\ LET e == <<p, Arrived(p).channel>> IN
       credit' = [credit EXCEPT ![e] = IF e[2] \in table[p] THEN @ + Arrived(p).n ELSE @]
  /\ Consume(p)
  /\ UNCHANGED <<setting, openVars, sending, sent, recvVars, endVars, outerVars>>

\* Mutant: a close leaves the channel of a side that is still sending alone.
OnCloseIgnored(p) ==
  /\ Arrives(p, "close")
  /\ Consume(p)
  /\ UNCHANGED <<setting, openVars, sendVars, recvVars, endVars, outerVars>>

OnClose(p) ==
  /\ Arrives(p, "close")
  /\ LET e == <<p, Arrived(p).channel>> IN
       IF e[2] \in table[p] THEN Remove(p, e[2]) /\ EndAs(e, "remote")
                            ELSE UNCHANGED <<table, pending, state>>
  /\ Consume(p)
  /\ UNCHANGED <<setting, open, request, held, sendVars, recvVars, closing, telling, last, outerVars>>

Tell(p) ==
  /\ telling[p] # 0
  /\ \/ Room(p) /\ Emit(p, CloseNotice(telling[p]))
     \/ EmitFails(p) /\ UNCHANGED queue
  /\ last' = [last EXCEPT ![<<p, telling[p]>>] = sent[<<p, telling[p]>>]]
  /\ telling' = [telling EXCEPT ![p] = 0]
  /\ UNCHANGED <<setting, openVars, sendVars, recvVars, state, closing, outerVars>>

-----------------------------------------------------------------------------
(* The end of a channel and of the outer peer.                             *)

\* Close and Abort differ in the code they tell.
Close(e) ==
  /\ e \in Closers \cap held /\ state[e] # "closed"
  /\ closing' = IF state[e] = "open" THEN closing \cup {e} ELSE closing
  /\ EndAs(e, "closed") /\ Remove(e[1], e[2])
  /\ UNCHANGED <<setting, open, request, held, sendVars, recvVars, telling, last, queue, outerVars>>

CloseTold(e) ==
  /\ e \in closing
  /\ \/ Room(e[1]) /\ Emit(e[1], CloseNotice(e[2]))
     \/ EmitFails(e[1]) /\ UNCHANGED queue
  /\ last' = [last EXCEPT ![e] = sent[e]]
  /\ closing' = closing \ {e}
  /\ UNCHANGED <<setting, openVars, sendVars, recvVars, state, telling, outerVars>>

OuterEnd(p) ==
  /\ outer[p] = "up"
  /\ p \in OuterEnds \/ outer[Other(p)] # "up"
  /\ outer' = [outer EXCEPT ![p] = "ended"]
  /\ UNCHANGED <<setting, openVars, sendVars, recvVars, endVars, queue, watched>>

\* Mutant: watch forgets the channels without ending them.
WatchForgets(p) ==
  /\ outer[p] # "up" /\ p \notin watched
  /\ watched' = watched \cup {p}
  /\ table' = [table EXCEPT ![p] = {}]
  /\ pending' = [pending EXCEPT ![p] = <<>>]
  /\ UNCHANGED <<setting, open, request, held, sendVars, recvVars, endVars, queue, outer>>

Watch(p) ==
  /\ outer[p] # "up" /\ p \notin watched
  /\ watched' = watched \cup {p}
  /\ state' = [e \in Ends |->
       IF e[1] = p /\ e[2] \in table[p] /\ state[e] = "open" THEN "gone" ELSE state[e]]
  /\ table' = [table EXCEPT ![p] = {}]
  /\ pending' = [pending EXCEPT ![p] = <<>>]
  /\ UNCHANGED <<setting, open, request, held, sendVars, recvVars, closing, telling, last, queue, outer>>

-----------------------------------------------------------------------------
PerEnd(v) == [e \in Ends |-> v]
PerSide(v) == [p \in Sides |-> v]

Init ==
  /\ setting \in Settings
  /\ open = [c \in Channels |-> "none"] /\ request = [c \in Channels |-> "none"]
  /\ table = PerSide({}) /\ pending = PerSide(<<>>) /\ held = {}
  /\ state = PerEnd("absent") /\ credit = PerEnd(0) /\ sending = PerEnd("idle")
  /\ inbox = PerEnd(<<>>) /\ taken = PerEnd(0) /\ crediting = PerEnd(0)
  /\ closing = {} /\ telling = PerSide(0) /\ queue = PerSide(<<>>)
  /\ outer = PerSide("up") /\ watched = {}
  /\ sent = PerEnd(0) /\ got = PerEnd(0) /\ last = PerEnd(0) /\ saw = PerEnd("none")

Opening(c) == OpenCall(c) \/ OpenReceived(c) \/ Admit(c) \/ OpenReturns(c) \/ OpenFails(c)
Taking(p) == Accept(p) \/ \E c \in Channels : Resolve(p, c)
Sending(e) == SendTakes(e) \/ SendWaits(e) \/ SendEmits(e) \/ SendGivesUp(e) \/ SendFails(e)
Receiving(e) == Receive(e) \/ ReturnCredit(e) \/ CreditLost(e) \/ ReceiveEnd(e)
Eventing(p) == OnFrame(p) \/ OnCredit(p) \/ OnClose(p) \/ Tell(p)

Next ==
  \/ \E c \in Channels : Opening(c)
  \/ \E e \in Ends : Sending(e) \/ Receiving(e) \/ Close(e) \/ CloseTold(e)
  \/ \E p \in Sides : Taking(p) \/ Eventing(p) \/ OuterEnd(p) \/ Watch(p)

Spec == Init /\ [][Next]_vars

\* The outer peers' loops and handlers run, a goroutine waiting for room in the
\* output queue gets its turn (a Go channel serves its waiters in order), and
\* consumers receive except at the Idle ends.  Applications need
\* not open, accept, send or close, and no context need end.
Fairness ==
  /\ \A c \in Channels :
       /\ WF_vars(OpenReceived(c)) /\ WF_vars(Admit(c)) /\ WF_vars(OpenReturns(c))
       /\ WF_vars((request[c] = "refused" \/ outer[Opener(c)] # "up") /\ OpenFails(c))
  /\ \A e \in UNION {s.senders : s \in Settings} :
       /\ SF_vars(SendEmits(e)) /\ WF_vars(sending[e] = "waiting" /\ SendTakes(e))
       /\ WF_vars(state[e] # "open" /\ SendGivesUp(e))
       /\ SF_vars(ReturnCredit(Far(e))) /\ WF_vars(Far(e) \notin Idle /\ Receive(Far(e)))
  /\ \A e \in UNION {s.closers : s \in Settings} : SF_vars(CloseTold(e))
  /\ \A p \in Sides :
       /\ WF_vars(Eventing(p)) /\ WF_vars(outer[Other(p)] # "up" /\ OuterEnd(p))
       /\ WF_vars(Watch(p))

FairSpec == Spec /\ Fairness

-----------------------------------------------------------------------------
(* Properties.                                                             *)

TypeOK ==
  /\ setting \in Settings
  /\ open \in [Channels -> {"none", "calling", "opened", "failed"}]
  /\ request \in [Channels -> {"none", "asked", "handling", "admitted", "refused"}]
  /\ table \in [Sides -> SUBSET Channels]
  /\ pending \in [Sides -> Seq(Channels)]
  /\ held \subseteq Ends
  /\ state \in [Ends -> {"absent", "open", "closed", "remote", "gone", "refused", "overrun"}]
  /\ credit \in [Ends -> Nat]
  /\ sending \in [Ends -> {"idle", "waiting", "emitting"}]
  /\ inbox \in [Ends -> Seq(Nat)]
  /\ taken \in [Ends -> Nat] /\ crediting \in [Ends -> Nat]
  /\ closing \subseteq Ends /\ telling \in [Sides -> Channels \cup {0}]
  /\ queue \in [Sides ->
       Seq([kind : {"frame", "credit", "close"}, channel : Channels, n : Nat])]
  /\ outer \in [Sides -> {"up", "ended"}] /\ watched \subseteq Sides
  /\ sent \in [Ends -> Nat] /\ got \in [Ends -> Nat] /\ last \in [Ends -> Nat]
  /\ saw \in [Ends -> {"none", "closed", "remote", "gone", "refused", "overrun"}]

\* A sender of this implementation never overruns the window it was given, so
\* a channel is refused for a frame beyond the window (onFrame, 1002) only when
\* the other side ignores credit.
NeverOverrun == \A e \in Ends : state[e] = "overrun" => Other(e[1]) \in Greedy

\* A consumer is given the frames in the order they were sent, none missing
\* and none twice, even on a channel that is refused for overrunning its window.
FramesInOrder == [][\A e \in Ends : got'[e] \in {got[e], got[e] + 1}]_vars

\* What was sent before a close is delivered before the close is: the consumer
\* is given the far side's close only after every frame queued before it.
CloseComesLast == \A e \in Ends : saw[e] = "remote" => got[e] = last[Far(e)]

\* Frames e has spent credit on that have not come back as credit.
Events(p, kind, c) ==
  {i \in 1 .. Len(queue[p]) : queue[p][i].kind = kind /\ queue[p][i].channel = c}
Credits(p, c) == UNION {{i} \X (1 .. queue[p][i].n) : i \in Events(p, "credit", c)}
Returning(e) == Cardinality(Credits(Other(e[1]), e[2]))
InUse(e) ==
  (IF sending[e] = "emitting" THEN 1 ELSE 0) + Cardinality(Events(e[1], "frame", e[2]))
    + Len(inbox[Far(e)]) + taken[Far(e)] + crediting[Far(e)] + Returning(e)

\* Send waits for credit only past the window: while both ends are open, the
\* whole window is with the far side, none of it lost on the way.
WaitsOnlyPastWindow == \A e \in Ends :
  /\ e[1] \notin Greedy
  /\ sending[e] = "waiting" /\ credit[e] = 0
  /\ state[e] = "open" /\ state[Far(e)] = "open"
  /\ e[1] = Opener(e[2]) => open[e[2]] = "opened"
  => InUse(e) = Window

\* No context ends in a call, and the outer peers' queues always find room in
\* time: the conditions under which no credit and no close can be lost.
Steady == Impatient = {} /\ Stalling = {}

\* The same where the code keeps it: while the outer peers of both sides run in
\* steady surroundings.
WindowAccounted == Steady /\ outer = PerSide("up") => WaitsOnlyPastWindow

\* A consumer that receives keeps its sender going, even while the consumers
\* of other channels on the connection never receive.
SendsProceed == \A e \in Ends :
  (Steady /\ sending[e] = "waiting" /\ Far(e) \in held \ Idle) ~> (sending[e] # "waiting")

\* The end of one end of an opened channel ends the other.
EndsBoth == \A e \in Ends :
  (Steady /\ open[e[2]] = "opened" /\ state[e] # "open") ~> (state[Far(e)] # "open")

\* The end of the outer peer ends every channel of its side.
OuterEndEndsAll == \A e \in Ends : (outer[e[1]] # "up") ~> (state[e] # "open")
=============================================================================
