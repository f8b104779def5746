---------------------------- MODULE TunnelProofs ----------------------------
(***************************************************************************)
(* Theorems about Tunnel, for every value of its constants: a sender keeps *)
(* to the window it was given, none of the window is lost while both sides *)
(* keep their outer peers running, frames arrive in order, and a close     *)
(* arrives behind the frames sent before it.                               *)
(***************************************************************************)
EXTENDS Tunnel, FiniteSetTheorems, TLAPS

Notices == [kind : {"frame", "credit", "close"}, channel : Channels, n : Nat]

-----------------------------------------------------------------------------
(* Sides and ends.                                                         *)

LEMMA SideFacts ==
  /\ \A p \in Sides : Other(p) \in Sides /\ Other(p) # p /\ Other(Other(p)) = p
  /\ \A p, r \in Sides : r # p => r = Other(p)
  /\ \A c : Opener(c) \in Sides /\ Acceptor(c) \in Sides /\ Acceptor(c) # Opener(c)
BY DEF Sides, Other, Opener, Acceptor

LEMMA EndFacts ==
  ASSUME NEW e \in Ends
  PROVE  /\ e[1] \in Sides /\ e[2] \in Channels /\ e = <<e[1], e[2]>>
         /\ Other(e[1]) \in Sides /\ Other(e[1]) # e[1] /\ Other(Other(e[1])) = e[1]
         /\ Far(e) \in Ends /\ Far(e)[1] = Other(e[1]) /\ Far(e)[2] = e[2]
         /\ Far(Far(e)) = e /\ Far(e) # e
<1>1. e[1] \in Sides /\ e[2] \in Channels /\ e = <<e[1], e[2]>>
  BY DEF Ends
<1>2. Other(e[1]) \in Sides /\ Other(e[1]) # e[1] /\ Other(Other(e[1])) = e[1]
  BY <1>1, SideFacts
<1>3. Far(e) = <<Other(e[1]), e[2]>>
  BY DEF Far
<1> QED BY <1>1, <1>2, <1>3 DEF Ends, Far

LEMMA EndOf ==
  ASSUME NEW p \in Sides, NEW c \in Channels
  PROVE  <<p, c>> \in Ends /\ <<p, c>>[1] = p /\ <<p, c>>[2] = c
BY DEF Ends

-----------------------------------------------------------------------------
(* Types.                                                                  *)

\* Removing a channel from those that are pending leaves the others.
LEMMA WithoutType ==
  ASSUME NEW q \in Seq(Channels), NEW c
  PROVE  /\ Without(q, c) \in Seq(Channels)
         /\ \A i \in 1 .. Len(Without(q, c)) : \E j \in 1 .. Len(q) : Without(q, c)[i] = q[j]
<1> DEFINE at == {i \in 1 .. Len(q) : q[i] = c}
<1>1. CASE at = {}
  BY <1>1 DEF Without
<1>2. CASE at # {}
  <2>1. PICK first : first = CHOOSE i \in at : TRUE
    OBVIOUS
  <2>2. first \in 1 .. Len(q)
    BY <1>2, <2>1
  <2>3. Without(q, c) = SubSeq(q, 1, first - 1) \o SubSeq(q, first + 1, Len(q))
    BY <1>2, <2>1 DEF Without
  <2>4. PICK a : a = SubSeq(q, 1, first - 1)
    OBVIOUS
  <2>5. PICK b : b = SubSeq(q, first + 1, Len(q))
    OBVIOUS
  <2>6. /\ a \o b \in Seq(Channels) /\ Len(a \o b) = Len(q) - 1
        /\ \A i \in 1 .. Len(q) - 1 : (a \o b)[i] = IF i <= first - 1 THEN q[i] ELSE q[i + 1]
    <3>1. /\ a \in Seq(Channels) /\ Len(a) = first - 1
          /\ \A i \in 1 .. first - 1 : a[i] = q[i]
      BY <2>2, <2>4
    <3>2. /\ b \in Seq(Channels) /\ Len(b) = Len(q) - first
          /\ \A i \in 1 .. Len(q) - first : b[i] = q[i + first]
      BY <2>2, <2>5
    <3>3. a \o b \in Seq(Channels) /\ Len(a \o b) = Len(q) - 1
      <4>1. a \o b \in Seq(Channels) /\ Len(a \o b) = Len(a) + Len(b)
        BY <3>1, <3>2, SMTT(30)
      <4> QED BY <2>2, <3>1, <3>2, <4>1
    <3>4. ASSUME NEW i \in 1 .. Len(q) - 1
          PROVE  (a \o b)[i] = IF i <= first - 1 THEN q[i] ELSE q[i + 1]
      <4>1. CASE i <= first - 1
        BY <2>2, <3>1, <3>2, <4>1
      <4>2. CASE ~(i <= first - 1)
        <5>1. (a \o b)[i] = b[i - (first - 1)] /\ i - (first - 1) \in 1 .. Len(q) - first
          BY <2>2, <3>1, <3>2, <4>2
        <5> QED BY <2>2, <3>2, <4>2, <5>1
      <4> QED BY <4>1, <4>2
    <3> QED BY <3>3, <3>4
  <2>7. \A i \in 1 .. Len(q) - 1 : i \in 1 .. Len(q) /\ i + 1 \in 1 .. Len(q)
    BY <2>2
  <2> QED BY <2>3, <2>4, <2>5, <2>6, <2>7
<1> QED BY <1>1, <1>2

LEMMA WindowType == TypeOK => Window \in Nat \ {0} /\ MaxFrames \in Nat
BY TunnelAssumption DEF TypeOK, Window, MaxFrames

LEMMA EmitTypes ==
  ASSUME TypeOK, NEW p \in Sides, NEW f \in Notices, Emit(p, f)
  PROVE  queue' \in [Sides -> Seq(Notices)]
<1>1. queue \in [Sides -> Seq(Notices)]
  BY DEF TypeOK, Notices
<1>2. Append(queue[p], f) \in Seq(Notices)
  BY <1>1
<1> QED BY <1>1, <1>2 DEF Emit

LEMMA ConsumeTypes ==
  ASSUME TypeOK, NEW p \in Sides, queue[Other(p)] # <<>>, Consume(p)
  PROVE  /\ queue' \in [Sides -> Seq(Notices)]
         /\ Arrived(p) \in Notices /\ Arrived(p).channel \in Channels /\ Arrived(p).n \in Nat
<1>1. Other(p) \in Sides /\ queue \in [Sides -> Seq(Notices)]
  BY SideFacts DEF TypeOK, Notices
<1>2. queue[Other(p)] \in Seq(Notices)
  BY <1>1
<1>3. Head(queue[Other(p)]) \in Notices /\ Tail(queue[Other(p)]) \in Seq(Notices)
  BY <1>2
<1>4. queue' \in [Sides -> Seq(Notices)]
  BY <1>1, <1>3 DEF Consume
<1> QED BY <1>3, <1>4 DEF Arrived, Notices

\* A channel that ends leaves the table, and its end is no longer open.
LEMMA EndingTypes ==
  ASSUME TypeOK, NEW e \in Ends, NEW how \in {"closed", "remote", "gone", "refused", "overrun"},
         EndAs(e, how), Remove(e[1], e[2])
  PROVE  /\ table' \in [Sides -> SUBSET Channels] /\ pending' \in [Sides -> Seq(Channels)]
         /\ state' \in [Ends -> {"absent", "open", "closed", "remote", "gone", "refused", "overrun"}]
<1>1. e[1] \in Sides
  BY EndFacts
<1>2. Without(pending[e[1]], e[2]) \in Seq(Channels)
  BY <1>1, WithoutType DEF TypeOK
<1>3. pending' \in [Sides -> Seq(Channels)]
  BY <1>1, <1>2 DEF Remove, TypeOK
<1>4. table' \in [Sides -> SUBSET Channels]
  BY <1>1 DEF Remove, TypeOK
<1>5. state' \in [Ends -> {"absent", "open", "closed", "remote", "gone", "refused", "overrun"}]
  BY DEF EndAs, TypeOK
<1> QED BY <1>3, <1>4, <1>5

LEMMA TypeOpening ==
  ASSUME TypeOK, NEW c \in Channels, Opening(c)
  PROVE  TypeOK'
<1> USE DEF TypeOK
<1>1. Opener(c) \in Sides /\ Acceptor(c) \in Sides
  BY SideFacts
<1>2. <<Opener(c), c>> \in Ends /\ <<Acceptor(c), c>> \in Ends
  BY <1>1, EndOf
<1>3. Window \in Nat
  BY WindowType
<1>4. CASE OpenCall(c)
  <2>1. /\ request' \in [Channels -> {"none", "asked", "handling", "admitted", "refused"}]
        /\ open' \in [Channels -> {"none", "calling", "opened", "failed"}]
    BY <1>4 DEF OpenCall
  <2>2. table' \in [Sides -> SUBSET Channels]
    BY <1>1, <1>4 DEF OpenCall
  <2>3. state' \in [Ends -> {"absent", "open", "closed", "remote", "gone", "refused", "overrun"}]
    BY <1>2, <1>4 DEF OpenCall
  <2> QED BY <1>4, <2>1, <2>2, <2>3 DEF OpenCall, sendVars, recvVars, outerVars
<1>5. CASE OpenReceived(c)
  BY <1>5 DEF OpenReceived, sendVars, recvVars, endVars, outerVars
<1>6. CASE Admit(c)
  <2>1. UNCHANGED <<setting, open, held, sending, sent, recvVars, closing, telling, last, queue, outerVars>>
    BY <1>6 DEF Admit
  <2>2. /\ request' \in [Channels -> {"none", "asked", "handling", "admitted", "refused"}]
        /\ table' \in [Sides -> SUBSET Channels] /\ pending' \in [Sides -> Seq(Channels)]
        /\ state' \in [Ends -> {"absent", "open", "closed", "remote", "gone", "refused", "overrun"}]
        /\ credit' \in [Ends -> Nat]
    <3>1. CASE Refuses(c)
      BY <1>6, <3>1 DEF Admit
    <3>2. CASE ~Refuses(c)
      <4>1. /\ request' = [request EXCEPT ![c] = "admitted"]
            /\ table' = [table EXCEPT ![Acceptor(c)] = @ \cup {c}]
            /\ pending' = [pending EXCEPT ![Acceptor(c)] = Append(@, c)]
            /\ state' = [state EXCEPT ![<<Acceptor(c), c>>] = "open"]
            /\ credit' = [credit EXCEPT ![<<Acceptor(c), c>>] = Window]
        BY <1>6, <3>2 DEF Admit
      <4>2. pending' \in [Sides -> Seq(Channels)] /\ table' \in [Sides -> SUBSET Channels]
        BY <1>1, <4>1
      <4>3. credit' \in [Ends -> Nat]
        BY <1>2, <1>3, <4>1
      <4> QED BY <1>2, <4>1, <4>2, <4>3
    <3> QED BY <3>1, <3>2
  <2> QED BY <2>1, <2>2 DEF recvVars, outerVars
<1>7. CASE OpenReturns(c)
  <2>1. /\ open' \in [Channels -> {"none", "calling", "opened", "failed"}] /\ held' \subseteq Ends
        /\ UNCHANGED <<setting, request, table, pending, sending, sent, recvVars, endVars, queue, outerVars>>
    BY <1>2, <1>7 DEF OpenReturns
  <2>2. credit' \in [Ends -> Nat]
    <3>1. credit' = [credit EXCEPT ![<<Opener(c), c>>] = credit[<<Opener(c), c>>] + Window]
      BY <1>7 DEF OpenReturns
    <3>2. credit[<<Opener(c), c>>] + Window \in Nat
      BY <1>2, <1>3, SMTT(30)
    <3> QED BY <3>1, <3>2
  <2> QED BY <2>1, <2>2 DEF recvVars, endVars, outerVars
<1>8. CASE OpenFails(c)
  <2>1. /\ open' \in [Channels -> {"none", "calling", "opened", "failed"}]
        /\ UNCHANGED <<setting, request, held, sendVars, recvVars, closing, telling, last, queue, outerVars>>
    BY <1>8 DEF OpenFails
  <2>2. PICK e \in Ends : e = <<Opener(c), c>>
    BY <1>2
  <2>3. EndAs(e, "closed") /\ Remove(e[1], e[2])
    BY <1>8, <2>2 DEF OpenFails
  <2>4. /\ table' \in [Sides -> SUBSET Channels] /\ pending' \in [Sides -> Seq(Channels)]
        /\ state' \in [Ends -> {"absent", "open", "closed", "remote", "gone", "refused", "overrun"}]
    BY <2>3, EndingTypes
  <2> QED BY <2>1, <2>4 DEF sendVars, recvVars, outerVars
<1> QED BY <1>4, <1>5, <1>6, <1>7, <1>8 DEF Opening

LEMMA TypeTaking ==
  ASSUME TypeOK, NEW p \in Sides, Taking(p)
  PROVE  TypeOK'
<1> USE DEF TypeOK
<1>1. CASE Accept(p)
  <2>1. /\ pending[p] \in Seq(Channels) /\ pending[p] # <<>>
        /\ held' = held \cup {<<p, Head(pending[p])>>}
        /\ pending' = [pending EXCEPT ![p] = Tail(pending[p])]
        /\ UNCHANGED <<setting, open, request, table, sendVars, recvVars, endVars, queue, outerVars>>
    BY <1>1 DEF Accept
  <2>2. Head(pending[p]) \in Channels /\ Tail(pending[p]) \in Seq(Channels)
    BY <2>1
  <2>3. held' \subseteq Ends /\ pending' \in [Sides -> Seq(Channels)]
    BY <2>1, <2>2, EndOf
  <2> QED BY <2>1, <2>3 DEF sendVars, recvVars, endVars, outerVars
<1>2. ASSUME NEW c \in Channels, Resolve(p, c) PROVE TypeOK'
  <2>1. /\ pending[p] \in Seq(Channels)
        /\ held' = held \cup {<<p, c>>}
        /\ pending' = [pending EXCEPT ![p] = Without(pending[p], c)]
        /\ UNCHANGED <<setting, open, request, table, sendVars, recvVars, endVars, queue, outerVars>>
    BY <1>2 DEF Resolve
  <2>2. Without(pending[p], c) \in Seq(Channels)
    BY <2>1, WithoutType
  <2>3. held' \subseteq Ends /\ pending' \in [Sides -> Seq(Channels)]
    BY <2>1, <2>2, EndOf
  <2> QED BY <2>1, <2>3 DEF sendVars, recvVars, endVars, outerVars
<1> QED BY <1>1, <1>2 DEF Taking

LEMMA NoticeTypes ==
  ASSUME NEW c \in Channels, NEW n \in Nat
  PROVE  Frame(c, n) \in Notices /\ Credit(c, n) \in Notices /\ CloseNotice(c) \in Notices
BY DEF Frame, Credit, CloseNotice, Notices

LEMMA TypeSending ==
  ASSUME TypeOK, NEW e \in Ends, Sending(e)
  PROVE  TypeOK'
<1> USE DEF TypeOK
<1>1. e[1] \in Sides /\ e[2] \in Channels
  BY EndFacts
<1>2. CASE SendTakes(e)
  <2>1. /\ credit' = [credit EXCEPT ![e] = IF credit[e] > 0 THEN credit[e] - 1 ELSE credit[e]]
        /\ sending' = [sending EXCEPT ![e] = "emitting"]
        /\ UNCHANGED <<setting, openVars, sent, recvVars, endVars, queue, outerVars>>
    BY <1>2 DEF SendTakes
  <2>2. (IF credit[e] > 0 THEN credit[e] - 1 ELSE credit[e]) \in Nat
    OBVIOUS
  <2>3. credit' \in [Ends -> Nat]
    BY <2>1, <2>2
  <2> QED BY <2>1, <2>3 DEF openVars, recvVars, endVars, outerVars
<1>3. CASE SendWaits(e) \/ SendGivesUp(e) \/ SendFails(e)
  BY <1>3, ZenonT(60) DEF SendWaits, SendGivesUp, SendFails, openVars, recvVars, endVars, outerVars
<1>4. CASE SendEmits(e)
  <2>1. /\ sending' = [sending EXCEPT ![e] = "idle"]
        /\ UNCHANGED <<setting, openVars, credit, recvVars, endVars, outerVars>>
    BY <1>4 DEF SendEmits
  <2>2. sent[e] + 1 \in Nat
    OBVIOUS
  <2>3. PICK n \in Nat : Emit(e[1], Frame(e[2], n))
    BY <1>4, <2>2 DEF SendEmits
  <2>4. queue' \in [Sides -> Seq(Notices)]
    BY <1>1, <2>3, NoticeTypes, EmitTypes
  <2>5. sent' \in [Ends -> Nat]
    <3>1. sent' = sent \/ sent' = [sent EXCEPT ![e] = sent[e] + 1]
      BY <1>4 DEF SendEmits
    <3> QED BY <2>2, <3>1
  <2> QED BY <2>1, <2>4, <2>5 DEF Notices, openVars, recvVars, endVars, outerVars
<1> QED BY <1>2, <1>3, <1>4 DEF Sending

LEMMA TypeReceiving ==
  ASSUME TypeOK, NEW e \in Ends, e \in held => state[e] # "absent", Receiving(e)
  PROVE  TypeOK'
<1> USE DEF TypeOK
<1>1. e[1] \in Sides /\ e[2] \in Channels
  BY EndFacts
<1>2. CASE Receive(e)
  <2>1. /\ inbox[e] \in Seq(Nat) /\ inbox[e] # <<>>
        /\ inbox' = [inbox EXCEPT ![e] = Tail(inbox[e])]
        /\ got' = [got EXCEPT ![e] = Head(inbox[e])]
        /\ UNCHANGED <<setting, openVars, sendVars, saw, endVars, queue, outerVars>>
    BY <1>2 DEF Receive
  <2>2. Tail(inbox[e]) \in Seq(Nat) /\ Head(inbox[e]) \in Nat
    BY <2>1
  <2>3. inbox' \in [Ends -> Seq(Nat)] /\ got' \in [Ends -> Nat]
    BY <2>1, <2>2
  <2>4. taken' \in [Ends -> Nat] /\ crediting' \in [Ends -> Nat]
    <3>1. taken[e] + 1 \in Nat
      OBVIOUS
    <3>2. /\ taken' = [taken EXCEPT ![e] = 0] \/ taken' = [taken EXCEPT ![e] = taken[e] + 1]
          /\ crediting' = crediting \/ crediting' = [crediting EXCEPT ![e] = taken[e] + 1]
      BY <1>2 DEF Receive
    <3>3. taken' \in [Ends -> Nat]
      <4>1. CASE taken' = [taken EXCEPT ![e] = 0]
        BY <4>1
      <4>2. CASE taken' = [taken EXCEPT ![e] = taken[e] + 1]
        BY <3>1, <4>2
      <4> QED BY <3>2, <4>1, <4>2
    <3>4. crediting' \in [Ends -> Nat]
      <4>1. CASE crediting' = crediting
        BY <4>1
      <4>2. CASE crediting' = [crediting EXCEPT ![e] = taken[e] + 1]
        BY <3>1, <4>2
      <4> QED BY <3>2, <4>1, <4>2
    <3> QED BY <3>3, <3>4
  <2> QED BY <2>1, <2>3, <2>4 DEF openVars, sendVars, endVars, outerVars
<1>3. CASE ReturnCredit(e)
  <2>1. Emit(e[1], Credit(e[2], crediting[e])) /\ crediting[e] \in Nat
    BY <1>3 DEF ReturnCredit
  <2>2. queue' \in [Sides -> Seq(Notices)]
    BY <1>1, <2>1, NoticeTypes, EmitTypes
  <2> QED BY <1>3, <2>2 DEF ReturnCredit, Notices, openVars, sendVars, endVars, outerVars
<1>4. CASE CreditLost(e)
  BY <1>4 DEF CreditLost, openVars, sendVars, endVars, outerVars
<1>5. CASE ReceiveEnd(e)
  <2>1. /\ state[e] \in {"absent", "open", "closed", "remote", "gone", "refused", "overrun"}
        /\ saw' = [saw EXCEPT ![e] = state[e]] /\ state[e] # "open" /\ e \in held
        /\ UNCHANGED <<setting, openVars, sendVars, inbox, taken, crediting, got, endVars, queue, outerVars>>
    BY <1>5 DEF ReceiveEnd
  <2>2. saw' \in [Ends -> {"none", "closed", "remote", "gone", "refused", "overrun"}]
    BY <2>1
  <2> QED BY <2>1, <2>2 DEF openVars, sendVars, endVars, outerVars
<1> QED BY <1>2, <1>3, <1>4, <1>5 DEF Receiving

LEMMA TypeEventing ==
  ASSUME TypeOK, NEW p \in Sides, Eventing(p)
  PROVE  TypeOK'
<1> USE DEF TypeOK
<1>1. ASSUME queue[Other(p)] # <<>>, Consume(p)
      PROVE  /\ queue' \in [Sides -> Seq(Notices)] /\ Arrived(p) \in Notices
             /\ Arrived(p).channel \in Channels /\ Arrived(p).n \in Nat
             /\ <<p, Arrived(p).channel>> \in Ends
  BY <1>1, ConsumeTypes, EndOf
<1>2. CASE OnFrame(p)
  <2>1. queue[Other(p)] # <<>> /\ Consume(p)
        /\ UNCHANGED <<setting, open, request, held, sendVars, taken, crediting, got, saw, closing, last, outerVars>>
    BY <1>2 DEF OnFrame, Arrives
  <2>2. PICK e \in Ends : e = <<p, Arrived(p).channel>> /\ e[1] = p /\ e[2] = Arrived(p).channel
    BY <1>1, <2>1
  <2>3. /\ queue' \in [Sides -> Seq(Notices)] /\ Arrived(p).n \in Nat /\ e[2] \in Channels
    BY <1>1, <2>1, <2>2
  <2>4. /\ inbox' \in [Ends -> Seq(Nat)]
        /\ table' \in [Sides -> SUBSET Channels] /\ pending' \in [Sides -> Seq(Channels)]
        /\ state' \in [Ends -> {"absent", "open", "closed", "remote", "gone", "refused", "overrun"}]
        /\ telling' \in [Sides -> Channels \cup {0}]
    <3>1. CASE UNCHANGED <<inbox, table, pending, state, telling>>
      BY <3>1
    <3>2. CASE /\ inbox' = [inbox EXCEPT ![e] = Append(@, Arrived(p).n)]
               /\ UNCHANGED <<table, pending, state, telling>>
      <4>1. Append(inbox[e], Arrived(p).n) \in Seq(Nat)
        BY <2>3
      <4>2. inbox' \in [Ends -> Seq(Nat)]
        BY <3>2, <4>1
      <4> QED BY <3>2, <4>2
    <3>3. CASE /\ \E how \in {"refused", "overrun"} : EndAs(e, how)
               /\ Remove(p, e[2]) /\ telling' = [telling EXCEPT ![p] = e[2]] /\ UNCHANGED inbox
      <4>1. PICK how \in {"closed", "remote", "gone", "refused", "overrun"} : EndAs(e, how)
        BY <3>3
      <4>2. /\ table' \in [Sides -> SUBSET Channels] /\ pending' \in [Sides -> Seq(Channels)]
            /\ state' \in [Ends -> {"absent", "open", "closed", "remote", "gone", "refused", "overrun"}]
        BY <2>2, <3>3, <4>1, EndingTypes
      <4>3. telling' \in [Sides -> Channels \cup {0}]
        BY <2>3, <3>3
      <4> QED BY <3>3, <4>2, <4>3
    <3>4. \/ UNCHANGED <<inbox, table, pending, state, telling>>
          \/ /\ inbox' = [inbox EXCEPT ![e] = Append(@, Arrived(p).n)]
             /\ UNCHANGED <<table, pending, state, telling>>
          \/ /\ \E how \in {"refused", "overrun"} : EndAs(e, how)
             /\ Remove(p, e[2]) /\ telling' = [telling EXCEPT ![p] = e[2]] /\ UNCHANGED inbox
      BY <1>2, <2>2 DEF OnFrame
    <3> QED BY <3>1, <3>2, <3>3, <3>4
  <2> QED BY <2>1, <2>3, <2>4 DEF Notices, sendVars, outerVars
<1>3. CASE OnCredit(p)
  <2>1. queue[Other(p)] # <<>> /\ Consume(p)
        /\ UNCHANGED <<setting, openVars, sending, sent, recvVars, endVars, outerVars>>
    BY <1>3 DEF OnCredit, Arrives
  <2>2. PICK e \in Ends : e = <<p, Arrived(p).channel>>
    BY <1>1, <2>1
  <2>3. queue' \in [Sides -> Seq(Notices)]
    BY <1>1, <2>1
  <2>4. PICK n \in Nat : n = Arrived(p).n
    BY <1>1, <2>1
  <2>5. credit' \in [Ends -> Nat]
    <3>1. credit[e] + n \in Nat
      BY <2>4
    <3>2. CASE credit' = credit
      BY <3>2
    <3>3. CASE credit' = [credit EXCEPT ![e] = credit[e] + n]
      BY <3>1, <3>3
    <3> QED BY <1>3, <2>2, <2>4, <3>2, <3>3 DEF OnCredit
  <2> QED BY <2>1, <2>3, <2>5 DEF Notices, openVars, recvVars, endVars, outerVars
<1>4. CASE OnClose(p)
  <2>1. queue[Other(p)] # <<>> /\ Consume(p)
        /\ UNCHANGED <<setting, open, request, held, sendVars, recvVars, closing, telling, last, outerVars>>
    BY <1>4 DEF OnClose, Arrives
  <2>2. PICK e \in Ends : e = <<p, Arrived(p).channel>> /\ e[1] = p
    BY <1>1, <2>1
  <2>3. queue' \in [Sides -> Seq(Notices)]
    BY <1>1, <2>1
  <2>4. (Remove(e[1], e[2]) /\ EndAs(e, "remote")) \/ UNCHANGED <<table, pending, state>>
    BY <1>4, <2>2 DEF OnClose
  <2>5. /\ table' \in [Sides -> SUBSET Channels] /\ pending' \in [Sides -> Seq(Channels)]
        /\ state' \in [Ends -> {"absent", "open", "closed", "remote", "gone", "refused", "overrun"}]
    BY <2>4, EndingTypes
  <2> QED BY <2>1, <2>3, <2>5 DEF Notices, sendVars, recvVars, outerVars
<1>5. CASE Tell(p)
  <2>1. telling[p] \in Channels
    BY <1>5 DEF Tell
  <2>2. queue' \in [Sides -> Seq(Notices)]
    BY <1>5, <2>1, NoticeTypes, EmitTypes DEF Tell, Notices
  <2>3. last' \in [Ends -> Nat] /\ telling' \in [Sides -> Channels \cup {0}]
    <3>1. <<p, telling[p]>> \in Ends
      BY <2>1, EndOf
    <3> QED BY <1>5, <3>1 DEF Tell
  <2> QED BY <1>5, <2>2, <2>3 DEF Tell, Notices, openVars, sendVars, recvVars, outerVars
<1> QED BY <1>2, <1>3, <1>4, <1>5 DEF Eventing

LEMMA TypeEnding ==
  ASSUME TypeOK
  PROVE  /\ \A e \in Ends : Close(e) \/ CloseTold(e) => TypeOK'
         /\ \A p \in Sides : OuterEnd(p) \/ Watch(p) => TypeOK'
<1> USE DEF TypeOK
<1>1. ASSUME NEW e \in Ends, Close(e) PROVE TypeOK'
  <2>1. /\ EndAs(e, "closed") /\ Remove(e[1], e[2]) /\ closing' \subseteq Ends
        /\ UNCHANGED <<setting, open, request, held, sendVars, recvVars, telling, last, queue, outerVars>>
    BY <1>1 DEF Close
  <2>2. /\ table' \in [Sides -> SUBSET Channels] /\ pending' \in [Sides -> Seq(Channels)]
        /\ state' \in [Ends -> {"absent", "open", "closed", "remote", "gone", "refused", "overrun"}]
    BY <2>1, EndingTypes
  <2> QED BY <2>1, <2>2 DEF sendVars, recvVars, outerVars
<1>2. ASSUME NEW e \in Ends, CloseTold(e) PROVE TypeOK'
  <2>1. e[1] \in Sides /\ e[2] \in Channels
    BY EndFacts
  <2>2. queue' \in [Sides -> Seq(Notices)]
    BY <1>2, <2>1, NoticeTypes, EmitTypes DEF CloseTold, Notices
  <2>3. last' \in [Ends -> Nat] /\ closing' \subseteq Ends
    BY <1>2 DEF CloseTold
  <2> QED BY <1>2, <2>2, <2>3 DEF CloseTold, Notices, openVars, sendVars, recvVars, outerVars
<1>3. ASSUME NEW p \in Sides, OuterEnd(p) PROVE TypeOK'
  BY <1>3 DEF OuterEnd, openVars, sendVars, recvVars, endVars
<1>4. ASSUME NEW p \in Sides, Watch(p) PROVE TypeOK'
  <2>1. /\ watched' \subseteq Sides
        /\ table' \in [Sides -> SUBSET Channels] /\ pending' \in [Sides -> Seq(Channels)]
    BY <1>4 DEF Watch
  <2>2. state' \in [Ends -> {"absent", "open", "closed", "remote", "gone", "refused", "overrun"}]
    BY <1>4 DEF Watch
  <2> QED BY <1>4, <2>1, <2>2 DEF Watch, sendVars, recvVars
<1> QED BY <1>1, <1>2, <1>3, <1>4

LEMMA TypeInit == Init => TypeOK
<1> SUFFICES ASSUME Init PROVE TypeOK
  OBVIOUS
<1> USE DEF Init, PerEnd, PerSide
<1>1. /\ setting \in Settings /\ held = {} /\ closing = {} /\ watched = {}
      /\ open \in [Channels -> {"none", "calling", "opened", "failed"}]
      /\ request \in [Channels -> {"none", "asked", "handling", "admitted", "refused"}]
  OBVIOUS
<1>2. /\ table \in [Sides -> SUBSET Channels] /\ pending \in [Sides -> Seq(Channels)]
      /\ telling \in [Sides -> Channels \cup {0}] /\ queue \in [Sides -> Seq(Notices)]
      /\ outer \in [Sides -> {"up", "ended"}]
  OBVIOUS
<1>3. /\ state \in [Ends -> {"absent", "open", "closed", "remote", "gone", "refused", "overrun"}]
      /\ credit \in [Ends -> Nat] /\ sending \in [Ends -> {"idle", "waiting", "emitting"}]
      /\ inbox \in [Ends -> Seq(Nat)] /\ taken \in [Ends -> Nat] /\ crediting \in [Ends -> Nat]
  OBVIOUS
<1>4. /\ sent \in [Ends -> Nat] /\ got \in [Ends -> Nat] /\ last \in [Ends -> Nat]
      /\ saw \in [Ends -> {"none", "closed", "remote", "gone", "refused", "overrun"}]
  OBVIOUS
<1> QED BY <1>1, <1>2, <1>3, <1>4 DEF TypeOK, Notices

LEMMA TypeStep ==
  ASSUME TypeOK, \A e \in held : state[e] # "absent", [Next]_vars
  PROVE  TypeOK'
<1>1. ASSUME NEW c \in Channels, Opening(c) PROVE TypeOK'
  BY <1>1, TypeOpening
<1>2. ASSUME NEW e \in Ends, Sending(e) \/ Receiving(e) \/ Close(e) \/ CloseTold(e) PROVE TypeOK'
  BY <1>2, TypeSending, TypeReceiving, TypeEnding
<1>3. ASSUME NEW p \in Sides, Taking(p) \/ Eventing(p) \/ OuterEnd(p) \/ Watch(p) PROVE TypeOK'
  BY <1>3, TypeTaking, TypeEventing, TypeEnding
<1>4. CASE UNCHANGED vars
  BY <1>4 DEF TypeOK, vars, openVars, sendVars, recvVars, endVars, outerVars
<1> QED BY <1>1, <1>2, <1>3, <1>4 DEF Next

-----------------------------------------------------------------------------
(* The tables.  A channel is in a side's table exactly while its end there *)
(* is open, and nothing of a channel moves before it is admitted.          *)

TableInv ==
  /\ \A e \in Ends :
       /\ e[2] \in table[e[1]] <=> state[e] = "open"
       /\ e[1] = Opener(e[2]) => (open[e[2]] = "none" <=> state[e] = "absent")
       /\ e[1] # Opener(e[2]) => (request[e[2]] = "admitted" <=> state[e] # "absent")
  /\ \A c \in Channels :
       /\ open[c] = "opened" => request[c] = "admitted"
       /\ open[c] = "none" => request[c] = "none"
  /\ \A e \in held : request[e[2]] = "admitted"
  /\ \A p \in Sides : \A i \in DOMAIN pending[p] : request[pending[p][i]] = "admitted"

Quiet(e) ==
  /\ credit[e] = 0 /\ sending[e] = "idle" /\ sent[e] = 0
  /\ inbox[e] = <<>> /\ taken[e] = 0 /\ crediting[e] = 0 /\ got[e] = 0 /\ saw[e] = "none"
  /\ last[e] = 0 /\ e \notin closing /\ telling[e[1]] # e[2]
  /\ \A i \in DOMAIN queue[e[1]] : queue[e[1]][i].channel # e[2]

QuietInv == \A e \in Ends : request[e[2]] # "admitted" => Quiet(e)

\* An end that an application holds is one its side has.
LEMMA HeldIsThere ==
  ASSUME TypeOK, TableInv, NEW e \in Ends, request[e[2]] = "admitted"
  PROVE  state[e] # "absent"
<1>1. e[1] \in Sides /\ e[2] \in Channels
  BY EndFacts
<1> QED BY <1>1 DEF TableInv

LEMMA HeldStates ==
  ASSUME TypeOK, TableInv
  PROVE  \A e \in held : e \in Ends /\ request[e[2]] = "admitted" /\ state[e] # "absent"
BY HeldIsThere DEF TypeOK, TableInv

LEMMA TableKept ==
  ASSUME TableInv, UNCHANGED <<table, state, open, request>>,
         held' \subseteq held, pending' = pending
  PROVE  TableInv'
BY DEF TableInv

\* An end that ends leaves its side's table.
LEMMA TableEnding ==
  ASSUME TypeOK, TableInv, NEW e \in Ends,
         NEW how \in {"closed", "remote", "gone", "refused", "overrun"},
         EndAs(e, how), Remove(e[1], e[2]), UNCHANGED <<request, held>>,
         \/ open' = open
         \/ /\ e[1] = Opener(e[2]) /\ open[e[2]] # "none"
            /\ open' = [open EXCEPT ![e[2]] = "failed"]
  PROVE  TableInv'
<1>1. e[1] \in Sides /\ e[2] \in Channels /\ e = <<e[1], e[2]>>
  BY EndFacts
<1>2. \A d \in Ends : state'[d] = IF d = e /\ state[d] = "open" THEN how ELSE state[d]
  BY SMTT(30) DEF EndAs, TypeOK
<1>3. \A p \in Sides : table'[p] = IF p = e[1] THEN table[p] \ {e[2]} ELSE table[p]
  BY SMTT(30), ZenonT(60) DEF Remove, TypeOK
<1>4. ASSUME NEW d \in Ends
      PROVE  /\ d[2] \in table'[d[1]] <=> state'[d] = "open"
             /\ state'[d] = "absent" <=> state[d] = "absent"
  <2>1. d[1] \in Sides /\ d[2] \in Channels /\ d = <<d[1], d[2]>>
    BY EndFacts
  <2>2. d[2] \in table[d[1]] <=> state[d] = "open"
    BY DEF TableInv
  <2>3. CASE d = e
    BY <1>2, <1>3, <2>1, <2>2, <2>3
  <2>4. CASE d # e
    BY <1>1, <1>2, <1>3, <2>1, <2>2, <2>4
  <2> QED BY <2>3, <2>4
<1>5. ASSUME NEW c \in Channels
      PROVE  (open'[c] = "none" <=> open[c] = "none") /\ (open'[c] = "opened" => open[c] = "opened")
  BY <1>1 DEF TypeOK
<1>6. \A p \in Sides : \A i \in DOMAIN pending'[p] : request'[pending'[p][i]] = "admitted"
  <2> SUFFICES ASSUME NEW p \in Sides, NEW i \in DOMAIN pending'[p]
               PROVE  request[pending'[p][i]] = "admitted"
    OBVIOUS
  <2>1. CASE p = e[1]
    <3>1. pending[p] \in Seq(Channels) /\ pending'[p] = Without(pending[p], e[2])
      BY <2>1 DEF Remove, TypeOK
    <3>2. i \in 1 .. Len(Without(pending[p], e[2]))
      BY <3>1, WithoutType
    <3>3. PICK j \in 1 .. Len(pending[p]) : pending'[p][i] = pending[p][j]
      BY <3>1, <3>2, WithoutType
    <3> QED BY <3>1, <3>3 DEF TableInv
  <2>2. CASE p # e[1]
    BY <2>2 DEF Remove, TypeOK, TableInv
  <2> QED BY <2>1, <2>2
<1>7. \A d \in held' : request'[d[2]] = "admitted"
  BY DEF TableInv
<1>8. \A d \in Ends : d[2] \in Channels
  BY EndFacts
<1> QED BY <1>4, <1>5, <1>6, <1>7, <1>8 DEF TableInv

LEMMA TableOpening ==
  ASSUME TypeOK, TableInv, NEW c \in Channels, Opening(c)
  PROVE  TableInv'
<1>1. Opener(c) \in Sides /\ Acceptor(c) \in Sides /\ Acceptor(c) # Opener(c)
  BY SideFacts
<1>2. \A d \in Ends : d[1] \in Sides /\ d[2] \in Channels /\ d = <<d[1], d[2]>>
  BY EndFacts
<1>3. PICK o \in Ends : o = <<Opener(c), c>> /\ o[1] = Opener(c) /\ o[2] = c
  BY <1>1, EndOf
<1>9. PICK a \in Ends : a = <<Acceptor(c), c>> /\ a[1] = Acceptor(c) /\ a[2] = c
  BY <1>1, EndOf
<1>10. ASSUME NEW d \in Ends
       PROVE  /\ d[1] \in Sides /\ d[2] \in Channels
              /\ (d = o) <=> (d[1] = Opener(c) /\ d[2] = c)
              /\ (d = a) <=> (d[1] # Opener(c) /\ d[2] = c)
  <2>1. d[1] \in Sides /\ d[2] \in Channels /\ d = <<d[1], d[2]>>
    BY <1>2
  <2>2. d[1] # Opener(c) <=> d[1] = Acceptor(c)
    BY <1>1, <2>1 DEF Sides
  <2> QED BY <1>3, <1>9, <2>1, <2>2
<1>4. CASE OpenCall(c)
  <2>1. open[c] = "none" /\ request[c] = "none"
    BY <1>4 DEF OpenCall, TableInv
  <2>2. /\ \A b \in Channels : open'[b] = IF b = c THEN "calling" ELSE open[b]
        /\ \A b \in Channels : b # c => request'[b] = request[b]
        /\ request'[c] # "admitted"
        /\ UNCHANGED <<pending, held>>
    BY <1>4 DEF OpenCall, TypeOK
  <2>3. /\ \A d \in Ends : state'[d] = IF d = o THEN "open" ELSE state[d]
        /\ \A p \in Sides : table'[p] = IF p = Opener(c) THEN table[p] \cup {c} ELSE table[p]
    BY <1>1, <1>3, <1>4 DEF OpenCall, TypeOK
  <2>4. ASSUME NEW d \in Ends
        PROVE  /\ d[2] \in table'[d[1]] <=> state'[d] = "open"
               /\ d[1] = Opener(d[2]) => (open'[d[2]] = "none" <=> state'[d] = "absent")
               /\ d[1] # Opener(d[2]) => (request'[d[2]] = "admitted" <=> state'[d] # "absent")
    <3>1. /\ d[1] \in Sides /\ d[2] \in Channels
          /\ (d = o) <=> (d[1] = Opener(c) /\ d[2] = c)
      BY <1>10
    <3>2. /\ d[2] \in table[d[1]] <=> state[d] = "open"
          /\ d[1] = Opener(d[2]) => (open[d[2]] = "none" <=> state[d] = "absent")
          /\ d[1] # Opener(d[2]) => (request[d[2]] = "admitted" <=> state[d] # "absent")
      BY DEF TableInv
    <3>3. CASE d = o
      BY <2>2, <2>3, <3>1, <3>2, <3>3
    <3>4. CASE d # o /\ d[2] = c
      BY <2>1, <2>2, <2>3, <3>1, <3>2, <3>4
    <3>5. CASE d[2] # c
      <4>1. state'[d] = state[d] /\ open'[d[2]] = open[d[2]] /\ request'[d[2]] = request[d[2]]
        BY <2>2, <2>3, <3>1, <3>5
      <4>2. d[2] \in table'[d[1]] <=> d[2] \in table[d[1]]
        BY <2>3, <3>1, <3>5
      <4> QED BY <3>2, <4>1, <4>2
    <3> QED BY <3>3, <3>4, <3>5
  <2>5. \A b \in Channels :
          /\ open'[b] = "opened" => request'[b] = "admitted"
          /\ open'[b] = "none" => request'[b] = "none"
    BY <2>1, <2>2 DEF TableInv
  <2>6. /\ \A d \in held' : request'[d[2]] = "admitted"
        /\ \A p \in Sides : \A i \in DOMAIN pending'[p] : request'[pending'[p][i]] = "admitted"
    <3>1. \A b : request[b] = "admitted" => b # c
      BY <2>1
    <3>2. \A d \in held : d[2] \in Channels
      BY <1>2 DEF TypeOK
    <3>3. \A p \in Sides : \A i \in DOMAIN pending[p] : pending[p][i] \in Channels
      BY SMTT(30) DEF TypeOK
    <3> QED BY <2>2, <3>1, <3>2, <3>3 DEF TableInv
  <2> QED BY <2>4, <2>5, <2>6 DEF TableInv
<1>5. CASE OpenReceived(c)
  <2>1. /\ request[c] = "asked" /\ request' = [request EXCEPT ![c] = "handling"]
        /\ UNCHANGED <<open, table, state, pending, held>>
    BY <1>5 DEF OpenReceived, endVars
  <2>2. \A b : (request'[b] = "admitted" <=> request[b] = "admitted")
               /\ (request[b] = "none" => request'[b] = "none")
    BY <2>1 DEF TypeOK
  <2> QED BY <2>1, <2>2 DEF TableInv
<1>6. CASE Admit(c)
  <2>1. request[c] = "handling" /\ UNCHANGED <<open, held>>
    BY <1>6 DEF Admit
  <2>2. CASE Refuses(c)
    <3>1. request' = [request EXCEPT ![c] = "refused"] /\ UNCHANGED <<table, pending, state>>
      BY <1>6, <2>2 DEF Admit
    <3>2. \A b : (request'[b] = "admitted" <=> request[b] = "admitted")
                 /\ (request[b] = "none" => request'[b] = "none")
      BY <2>1, <3>1 DEF TypeOK
    <3> QED BY <1>2, <2>1, <3>1, <3>2 DEF TableInv
  <2>3. CASE ~Refuses(c)
    <3>1. /\ request' = [request EXCEPT ![c] = "admitted"]
          /\ table' = [table EXCEPT ![Acceptor(c)] = @ \cup {c}]
          /\ pending' = [pending EXCEPT ![Acceptor(c)] = Append(@, c)]
          /\ state' = [state EXCEPT ![<<Acceptor(c), c>>] = "open"]
      BY <1>6, <2>3 DEF Admit
    <3>2. /\ \A d \in Ends : state'[d] = IF d = a THEN "open" ELSE state[d]
          /\ \A p \in Sides : table'[p] = IF p = Acceptor(c) THEN table[p] \cup {c} ELSE table[p]
          /\ \A b \in Channels : request'[b] = IF b = c THEN "admitted" ELSE request[b]
      BY <1>1, <1>9, <3>1 DEF TypeOK
    <3>4. open[c] # "none"
      BY <2>1 DEF TableInv
    <3>3. ASSUME NEW d \in Ends
          PROVE  /\ d[2] \in table'[d[1]] <=> state'[d] = "open"
                 /\ d[1] = Opener(d[2]) => (open'[d[2]] = "none" <=> state'[d] = "absent")
                 /\ d[1] # Opener(d[2]) => (request'[d[2]] = "admitted" <=> state'[d] # "absent")
      <4>1. /\ d[1] \in Sides /\ d[2] \in Channels
            /\ (d = a) <=> (d[1] # Opener(c) /\ d[2] = c)
        BY <1>10
      <4>2. /\ d[2] \in table[d[1]] <=> state[d] = "open"
            /\ d[1] = Opener(d[2]) => (open[d[2]] = "none" <=> state[d] = "absent")
            /\ d[1] # Opener(d[2]) => (request[d[2]] = "admitted" <=> state[d] # "absent")
        BY DEF TableInv
      <4>3. CASE d = a
        BY <1>9, <3>2, <4>1, <4>2, <4>3
      <4>4. CASE d # a /\ d[2] = c
        BY <1>1, <2>1, <3>2, <3>4, <4>1, <4>2, <4>4
      <4>5. CASE d[2] # c
        BY <2>1, <3>2, <4>1, <4>2, <4>5, ZenonT(60)
      <4> QED BY <4>3, <4>4, <4>5
    <3>5. \A b \in Channels :
            /\ open'[b] = "opened" => request'[b] = "admitted"
            /\ open'[b] = "none" => request'[b] = "none"
      BY <2>1, <3>2, <3>4 DEF TableInv
    <3>6. \A d \in held' : request'[d[2]] = "admitted"
      BY <1>2, <2>1, <3>2, ZenonT(60) DEF TableInv, TypeOK
    <3>7. \A p \in Sides : \A i \in DOMAIN pending'[p] : request'[pending'[p][i]] = "admitted"
      <4> SUFFICES ASSUME NEW p \in Sides, NEW i \in DOMAIN pending'[p]
                   PROVE  request'[pending'[p][i]] = "admitted"
        OBVIOUS
      <4>1. pending[p] \in Seq(Channels)
        BY DEF TypeOK
      <4>2. CASE p = Acceptor(c)
        <5>1. pending'[p] = Append(pending[p], c)
          BY <3>1, <4>2 DEF TypeOK
        <5>2. i \in 1 .. Len(pending[p]) + 1
          BY <4>1, <5>1
        <5>3. CASE i = Len(pending[p]) + 1
          BY <3>2, <4>1, <5>1, <5>3
        <5>4. CASE i \in 1 .. Len(pending[p])
          <6>1. pending'[p][i] = pending[p][i] /\ pending[p][i] \in Channels
            BY <4>1, <5>1, <5>4
          <6>2. request[pending[p][i]] = "admitted"
            BY <4>1, <5>4 DEF TableInv
          <6> QED BY <3>2, <6>1, <6>2
        <5> QED BY <4>1, <5>2, <5>3, <5>4
      <4>3. CASE p # Acceptor(c)
        <5>1. pending'[p] = pending[p]
          BY <3>1, <4>3 DEF TypeOK
        <5>2. pending[p][i] \in Channels /\ request[pending[p][i]] = "admitted"
          BY <4>1, <5>1 DEF TableInv
        <5> QED BY <3>2, <5>1, <5>2
      <4> QED BY <4>2, <4>3
    <3> QED BY <3>3, <3>5, <3>6, <3>7 DEF TableInv
  <2> QED BY <2>2, <2>3
<1>7. CASE OpenReturns(c)
  <2>1. /\ open[c] = "calling" /\ request[c] = "admitted"
        /\ open' = [open EXCEPT ![c] = "opened"] /\ held' = held \cup {<<Opener(c), c>>}
        /\ UNCHANGED <<request, table, pending, state>>
    BY <1>7 DEF OpenReturns, endVars
  <2>2. \A b \in Channels : open'[b] = IF b = c THEN "opened" ELSE open[b]
    BY <2>1 DEF TypeOK
  <2>3. \A d \in held' : request'[d[2]] = "admitted"
    BY <2>1 DEF TableInv
  <2>4. \A b \in Channels :
          /\ open'[b] = "none" <=> open[b] = "none"
          /\ open'[b] = "opened" => request'[b] = "admitted"
          /\ open'[b] = "none" => request'[b] = "none"
    BY <2>1, <2>2 DEF TableInv
  <2> QED BY <1>2, <2>1, <2>3, <2>4 DEF TableInv
<1>8. CASE OpenFails(c)
  <2>1. PICK e \in Ends : e = <<Opener(c), c>> /\ e[1] = Opener(c) /\ e[2] = c
    BY <1>1, EndOf
  <2>2. /\ open[c] # "none" /\ open' = [open EXCEPT ![c] = "failed"]
        /\ EndAs(e, "closed") /\ Remove(e[1], e[2]) /\ UNCHANGED <<request, held>>
    BY <1>8, <2>1 DEF OpenFails
  <2> QED BY <2>1, <2>2, TableEnding
<1> QED BY <1>4, <1>5, <1>6, <1>7, <1>8 DEF Opening

LEMMA TableTaking ==
  ASSUME TypeOK, TableInv, NEW p \in Sides, Taking(p)
  PROVE  TableInv'
<1>1. CASE Accept(p)
  <2>1. /\ pending[p] \in Seq(Channels) /\ pending[p] # <<>>
        /\ held' = held \cup {<<p, Head(pending[p])>>}
        /\ pending' = [pending EXCEPT ![p] = Tail(pending[p])]
        /\ UNCHANGED <<open, request, table, state>>
    BY <1>1 DEF Accept, TypeOK, endVars
  <2>2. /\ Head(pending[p]) = pending[p][1] /\ 1 \in DOMAIN pending[p]
        /\ \A i \in DOMAIN Tail(pending[p]) :
             i + 1 \in DOMAIN pending[p] /\ Tail(pending[p])[i] = pending[p][i + 1]
    BY <2>1
  <2>3. \A d \in held' : request'[d[2]] = "admitted"
    BY <2>1, <2>2 DEF TableInv
  <2>4. \A r \in Sides : \A i \in DOMAIN pending'[r] : request'[pending'[r][i]] = "admitted"
    <3> SUFFICES ASSUME NEW r \in Sides, NEW i \in DOMAIN pending'[r]
                 PROVE  request'[pending'[r][i]] = "admitted"
      OBVIOUS
    <3>1. CASE r = p
      <4>1. pending'[p] = Tail(pending[p])
        BY <2>1 DEF TypeOK
      <4>2. i + 1 \in DOMAIN pending[p] /\ pending'[r][i] = pending[p][i + 1]
        BY <2>2, <3>1, <4>1
      <4> QED BY <2>1, <4>2 DEF TableInv
    <3>2. CASE r # p
      BY <2>1, <3>2 DEF TypeOK, TableInv
    <3> QED BY <3>1, <3>2
  <2> QED BY <2>1, <2>3, <2>4 DEF TableInv
<1>2. ASSUME NEW c \in Channels, Resolve(p, c) PROVE TableInv'
  <2>1. /\ pending[p] \in Seq(Channels) /\ request[c] = "admitted"
        /\ held' = held \cup {<<p, c>>}
        /\ pending' = [pending EXCEPT ![p] = Without(pending[p], c)]
        /\ UNCHANGED <<open, request, table, state>>
    BY <1>2 DEF Resolve, TypeOK, endVars
  <2>2. \A d \in held' : request'[d[2]] = "admitted"
    BY <2>1 DEF TableInv
  <2>3. \A r \in Sides : \A i \in DOMAIN pending'[r] : request'[pending'[r][i]] = "admitted"
    <3> SUFFICES ASSUME NEW r \in Sides, NEW i \in DOMAIN pending'[r]
                 PROVE  request'[pending'[r][i]] = "admitted"
      OBVIOUS
    <3>1. CASE r = p
      <4>1. pending'[p] = Without(pending[p], c)
        BY <2>1 DEF TypeOK
      <4>2. i \in 1 .. Len(Without(pending[p], c))
        BY <2>1, <3>1, <4>1, WithoutType
      <4>3. PICK j \in 1 .. Len(pending[p]) : pending'[r][i] = pending[p][j]
        BY <2>1, <3>1, <4>1, <4>2, WithoutType
      <4> QED BY <2>1, <4>3 DEF TableInv
    <3>2. CASE r # p
      BY <2>1, <3>2 DEF TypeOK, TableInv
    <3> QED BY <3>1, <3>2
  <2> QED BY <2>1, <2>2, <2>3 DEF TableInv
<1> QED BY <1>1, <1>2 DEF Taking

LEMMA TableEventing ==
  ASSUME TypeOK, TableInv, NEW p \in Sides, Eventing(p)
  PROVE  TableInv'
<1>1. ASSUME Arrives(p, "frame") \/ Arrives(p, "close"), Consume(p)
      PROVE  <<p, Arrived(p).channel>> \in Ends
  BY <1>1, ConsumeTypes, EndOf DEF Arrives
<1>2. CASE OnFrame(p)
  <2>1. /\ Arrives(p, "frame") /\ Consume(p) /\ UNCHANGED <<open, request, held>>
        /\ \/ UNCHANGED <<table, pending, state>>
           \/ \E how \in {"refused", "overrun"} :
                EndAs(<<p, Arrived(p).channel>>, how) /\ Remove(p, Arrived(p).channel)
    BY <1>2 DEF OnFrame
  <2>2. PICK e \in Ends : e = <<p, Arrived(p).channel>> /\ e[1] = p /\ e[2] = Arrived(p).channel
    BY <1>1, <2>1
  <2>3. CASE UNCHANGED <<table, pending, state>>
    BY <2>1, <2>3, TableKept
  <2>4. CASE \E how \in {"refused", "overrun"} : EndAs(e, how) /\ Remove(e[1], e[2])
    <3>1. PICK how \in {"closed", "remote", "gone", "refused", "overrun"} :
            EndAs(e, how) /\ Remove(e[1], e[2])
      BY <2>4
    <3> QED BY <2>1, <3>1, TableEnding
  <2> QED BY <2>1, <2>2, <2>3, <2>4
<1>3. CASE OnCredit(p)
  BY <1>3, TableKept DEF OnCredit, openVars, endVars
<1>4. CASE OnClose(p)
  <2>1. /\ Arrives(p, "close") /\ Consume(p) /\ UNCHANGED <<open, request, held>>
        /\ \/ UNCHANGED <<table, pending, state>>
           \/ EndAs(<<p, Arrived(p).channel>>, "remote") /\ Remove(p, Arrived(p).channel)
    BY <1>4 DEF OnClose
  <2>2. PICK e \in Ends : e = <<p, Arrived(p).channel>> /\ e[1] = p /\ e[2] = Arrived(p).channel
    BY <1>1, <2>1
  <2>3. CASE UNCHANGED <<table, pending, state>>
    BY <2>1, <2>3, TableKept
  <2>4. CASE EndAs(e, "remote") /\ Remove(e[1], e[2])
    BY <2>1, <2>4, TableEnding
  <2> QED BY <2>1, <2>2, <2>3, <2>4
<1>5. CASE Tell(p)
  BY <1>5, TableKept DEF Tell, openVars
<1> QED BY <1>2, <1>3, <1>4, <1>5 DEF Eventing

LEMMA TableWatching ==
  ASSUME TypeOK, TableInv, NEW p \in Sides, Watch(p)
  PROVE  TableInv'
<1>1. /\ UNCHANGED <<open, request, held>>
      /\ \A d \in Ends : state'[d] =
           IF d[1] = p /\ d[2] \in table[p] /\ state[d] = "open" THEN "gone" ELSE state[d]
      /\ table' = [table EXCEPT ![p] = {}] /\ pending' = [pending EXCEPT ![p] = <<>>]
  BY DEF Watch
<1>2. ASSUME NEW d \in Ends
      PROVE  (d[2] \in table'[d[1]] <=> state'[d] = "open") /\ (state'[d] = "absent" <=> state[d] = "absent")
  <2>1. d[1] \in Sides /\ (d[2] \in table[d[1]] <=> state[d] = "open")
    BY EndFacts DEF TableInv
  <2>2. table'[d[1]] = IF d[1] = p THEN {} ELSE table[d[1]]
    BY <1>1, <2>1 DEF TypeOK
  <2> QED BY <1>1, <2>1, <2>2
<1>3. \A r \in Sides : \A i \in DOMAIN pending'[r] : pending'[r] = pending[r]
  <2> SUFFICES ASSUME NEW r \in Sides, NEW i \in DOMAIN pending'[r] PROVE pending'[r] = pending[r]
    OBVIOUS
  <2>1. r # p
    BY <1>1 DEF TypeOK
  <2> QED BY <1>1, <2>1 DEF TypeOK
<1> QED BY <1>1, <1>2, <1>3 DEF TableInv

LEMMA TableStep ==
  ASSUME TypeOK, TableInv, [Next]_vars
  PROVE  TableInv'
<1>1. ASSUME NEW c \in Channels, Opening(c) PROVE TableInv'
  BY <1>1, TableOpening
<1>2. ASSUME NEW e \in Ends, Sending(e) \/ Receiving(e) \/ CloseTold(e) PROVE TableInv'
  <2>1. UNCHANGED <<open, request, table, pending, held, state>>
    BY <1>2 DEF Sending, SendTakes, SendWaits, SendEmits, SendGivesUp, SendFails, Receiving, Receive,
       ReturnCredit, CreditLost, ReceiveEnd, CloseTold, openVars, endVars
  <2> QED BY <2>1, TableKept
<1>3. ASSUME NEW e \in Ends, Close(e) PROVE TableInv'
  <2>1. EndAs(e, "closed") /\ Remove(e[1], e[2]) /\ UNCHANGED <<open, request, held>>
    BY <1>3 DEF Close
  <2> QED BY <2>1, TableEnding
<1>4. ASSUME NEW p \in Sides, Taking(p) \/ Eventing(p) \/ OuterEnd(p) \/ Watch(p) PROVE TableInv'
  <2>1. CASE OuterEnd(p)
    BY <2>1, TableKept DEF OuterEnd, openVars, endVars
  <2> QED BY <1>4, <2>1, TableTaking, TableEventing, TableWatching
<1>5. CASE UNCHANGED vars
  BY <1>5, TableKept DEF vars, openVars, endVars
<1> QED BY <1>1, <1>2, <1>3, <1>4, <1>5 DEF Next

\* A channel that has been admitted stays so.
LEMMA AdmittedStays ==
  ASSUME TypeOK, TableInv, [Next]_vars, NEW c \in Channels, request[c] = "admitted"
  PROVE  request'[c] = "admitted"
<1>1. ASSUME NEW b \in Channels, Opening(b) PROVE request'[c] = "admitted"
  <2>1. CASE OpenCall(b)
    <3>1. request[b] = "none" /\ \E r : request' = [request EXCEPT ![b] = r]
      BY <2>1 DEF OpenCall, TableInv
    <3> QED BY <3>1 DEF TypeOK
  <2>2. CASE OpenReceived(b)
    BY <2>2 DEF OpenReceived, TypeOK
  <2>3. CASE Admit(b)
    <3>1. request[b] = "handling" /\ \E r : request' = [request EXCEPT ![b] = r]
      BY <2>3 DEF Admit
    <3> QED BY <3>1 DEF TypeOK
  <2>4. CASE OpenReturns(b) \/ OpenFails(b)
    BY <2>4 DEF OpenReturns, OpenFails
  <2> QED BY <1>1, <2>1, <2>2, <2>3, <2>4 DEF Opening
<1>2. ASSUME NEW e \in Ends, Sending(e) \/ Receiving(e) \/ CloseTold(e) \/ Close(e)
      PROVE  request' = request
  BY <1>2 DEF Sending, SendTakes, SendWaits, SendEmits, SendGivesUp, SendFails, Receiving, Receive,
     ReturnCredit, CreditLost, ReceiveEnd, CloseTold, Close, openVars
<1>3. ASSUME NEW p \in Sides, Taking(p) \/ Eventing(p) \/ OuterEnd(p) \/ Watch(p)
      PROVE  request' = request
  BY <1>3 DEF Taking, Accept, Resolve, Eventing, OnFrame, OnCredit, OnClose, Tell, OuterEnd, Watch, openVars
<1>4. CASE UNCHANGED vars
  BY <1>4 DEF vars, openVars
<1> QED BY <1>1, <1>2, <1>3, <1>4 DEF Next

\* What a step leaves alone at an end.
Still(e) ==
  /\ credit'[e] = credit[e] /\ sending'[e] = sending[e] /\ sent'[e] = sent[e]
  /\ inbox'[e] = inbox[e] /\ taken'[e] = taken[e] /\ crediting'[e] = crediting[e]
  /\ got'[e] = got[e] /\ saw'[e] = saw[e]
  /\ last'[e] = last[e] /\ (e \in closing' <=> e \in closing)
  /\ (telling'[e[1]] = e[2] <=> telling[e[1]] = e[2])

LEMMA StillUnchanged ==
  ASSUME UNCHANGED <<sendVars, recvVars, closing, telling, last>>, NEW e
  PROVE  Still(e)
BY DEF sendVars, recvVars, Still

\* A step of an end is a step of a channel that has been admitted, and leaves
\* the other channels' ends alone.
LEMMA OwnStep ==
  ASSUME TypeOK, TableInv, QuietInv, NEW d \in Ends,
         Sending(d) \/ Receiving(d) \/ Close(d) \/ CloseTold(d)
  PROVE  /\ request[d[2]] = "admitted" /\ request' = request
         /\ \A e \in Ends : e # d => Still(e)
         /\ queue' = queue \/ \E f \in Notices : f.channel = d[2] /\ Emit(d[1], f)
<1> USE DEF Still
<1>1. d[1] \in Sides /\ d[2] \in Channels /\ d = <<d[1], d[2]>>
  BY EndFacts
<1>2. /\ d \in held => request[d[2]] = "admitted"
      /\ sending[d] # "idle" => request[d[2]] = "admitted"
      /\ inbox[d] # <<>> => request[d[2]] = "admitted"
      /\ crediting[d] # 0 => request[d[2]] = "admitted"
      /\ d \in closing => request[d[2]] = "admitted"
  BY DEF TableInv, QuietInv, Quiet
<1>3. CASE SendTakes(d) \/ SendWaits(d) \/ SendGivesUp(d) \/ SendFails(d)
  <2>1. /\ d \in held \/ sending[d] # "idle"
        /\ UNCHANGED <<request, sent, inbox, taken, crediting, got, saw, closing, telling, last, queue>>
        /\ credit' = credit \/ credit' = [credit EXCEPT ![d] = IF @ > 0 THEN @ - 1 ELSE @]
        /\ \E s : sending' = [sending EXCEPT ![d] = s]
    BY <1>3 DEF SendTakes, SendWaits, SendGivesUp, SendFails, MaySend, openVars, recvVars, endVars
  <2>2. \A e \in Ends : e # d => credit'[e] = credit[e] /\ sending'[e] = sending[e]
    BY <2>1 DEF TypeOK
  <2> QED BY <1>2, <2>1, <2>2
<1>4. CASE SendEmits(d)
  <2>1. /\ sending[d] # "idle"
        /\ UNCHANGED <<request, credit, inbox, taken, crediting, got, saw, closing, telling, last>>
        /\ sent' = sent \/ sent' = [sent EXCEPT ![d] = @ + 1]
        /\ sending' = [sending EXCEPT ![d] = "idle"]
    BY <1>4 DEF SendEmits, openVars, recvVars, endVars
  <2>2. \A e \in Ends : e # d => sent'[e] = sent[e] /\ sending'[e] = sending[e]
    BY <2>1 DEF TypeOK
  <2>3. Emit(d[1], Frame(d[2], sent[d] + 1)) \/ Emit(d[1], Frame(d[2], 0))
    BY <1>4 DEF SendEmits
  <2>4. /\ Frame(d[2], sent[d] + 1) \in Notices /\ Frame(d[2], sent[d] + 1).channel = d[2]
        /\ Frame(d[2], 0) \in Notices /\ Frame(d[2], 0).channel = d[2]
    BY <1>1 DEF Frame, Notices, TypeOK
  <2>5. \E f \in Notices : f.channel = d[2] /\ Emit(d[1], f)
    BY <2>3, <2>4
  <2> QED BY <1>2, <2>1, <2>2, <2>5
<1>5. CASE Receive(d)
  <2>1. /\ d \in held
        /\ UNCHANGED <<request, credit, sending, sent, saw, closing, telling, last, queue>>
        /\ \E i, g, t : /\ inbox' = [inbox EXCEPT ![d] = i] /\ got' = [got EXCEPT ![d] = g]
                        /\ taken' = [taken EXCEPT ![d] = t]
        /\ crediting' = crediting \/ crediting' = [crediting EXCEPT ![d] = taken[d] + 1]
    BY <1>5 DEF Receive, openVars, sendVars, endVars
  <2>2. \A e \in Ends : e # d => /\ inbox'[e] = inbox[e] /\ got'[e] = got[e]
                                 /\ taken'[e] = taken[e] /\ crediting'[e] = crediting[e]
    BY <2>1 DEF TypeOK
  <2> QED BY <1>2, <2>1, <2>2
<1>6. CASE ReturnCredit(d)
  <2>1. /\ crediting[d] # 0 /\ crediting[d] \in Nat /\ Emit(d[1], Credit(d[2], crediting[d]))
        /\ UNCHANGED <<request, credit, sending, sent, inbox, taken, got, saw, closing, telling, last>>
        /\ crediting' = [crediting EXCEPT ![d] = 0]
    BY <1>6 DEF ReturnCredit, openVars, sendVars, endVars, TypeOK
  <2>2. Credit(d[2], crediting[d]) \in Notices /\ Credit(d[2], crediting[d]).channel = d[2]
    BY <1>1, <2>1 DEF Credit, Notices
  <2>3. \A e \in Ends : e # d => crediting'[e] = crediting[e]
    BY <2>1 DEF TypeOK
  <2> QED BY <1>2, <2>1, <2>2, <2>3
<1>7. CASE CreditLost(d)
  <2>1. /\ crediting[d] # 0 /\ crediting' = [crediting EXCEPT ![d] = 0]
        /\ UNCHANGED <<request, credit, sending, sent, inbox, taken, got, saw, closing, telling, last, queue>>
    BY <1>7 DEF CreditLost, openVars, sendVars, endVars, TypeOK
  <2> QED BY <1>2, <2>1 DEF TypeOK
<1>8. CASE ReceiveEnd(d)
  <2>1. /\ d \in held /\ saw' = [saw EXCEPT ![d] = state[d]]
        /\ UNCHANGED <<request, credit, sending, sent, inbox, taken, crediting, got, closing, telling, last, queue>>
    BY <1>8 DEF ReceiveEnd, openVars, sendVars, endVars, TypeOK
  <2> QED BY <1>2, <2>1 DEF TypeOK
<1>9. CASE Close(d)
  <2>1. /\ d \in held /\ (closing' = closing \/ closing' = closing \cup {d})
        /\ UNCHANGED <<request, sendVars, recvVars, telling, last, queue>>
    BY <1>9 DEF Close
  <2> QED BY <1>2, <2>1 DEF sendVars, recvVars
<1>10. CASE CloseTold(d)
  <2>1. /\ d \in closing /\ closing' = closing \ {d} /\ last' = [last EXCEPT ![d] = sent[d]]
        /\ UNCHANGED <<request, sendVars, recvVars, telling>>
        /\ Emit(d[1], CloseNotice(d[2])) \/ UNCHANGED queue
    BY <1>10 DEF CloseTold, openVars
  <2>2. CloseNotice(d[2]) \in Notices /\ CloseNotice(d[2]).channel = d[2]
    BY <1>1 DEF CloseNotice, Notices
  <2> QED BY <1>2, <2>1, <2>2 DEF sendVars, recvVars, TypeOK
<1> QED BY <1>3, <1>4, <1>5, <1>6, <1>7, <1>8, <1>9, <1>10 DEF Sending, Receiving

\* So is a step of a side's event loop, which takes the first notice queued for
\* the side or tells a refusal of its own.
LEMMA LoopStep ==
  ASSUME TypeOK, QuietInv, NEW p \in Sides, Eventing(p)
  PROVE  \E d \in Ends :
           /\ d[1] = p /\ request[d[2]] = "admitted" /\ request' = request
           /\ \A e \in Ends : e # d => Still(e)
           /\ \/ /\ queue[Other(p)] # <<>> /\ Consume(p) /\ Arrived(p).channel = d[2]
              \/ queue' = queue
              \/ \E f \in Notices : f.channel = d[2] /\ Emit(p, f)
<1> USE DEF Still
<1>1. \A e \in Ends : e[1] \in Sides /\ e[2] \in Channels /\ e = <<e[1], e[2]>>
  BY EndFacts
<1>2. ASSUME queue[Other(p)] # <<>>, Consume(p)
      PROVE  \E d \in Ends : /\ d = <<p, Arrived(p).channel>> /\ d[1] = p /\ d[2] = Arrived(p).channel
                             /\ request[d[2]] = "admitted"
  <2>1. PICK d \in Ends : d = <<p, Arrived(p).channel>> /\ d[1] = p /\ d[2] = Arrived(p).channel
    BY <1>2, ConsumeTypes, EndOf, ZenonT(60)
  <2>2. queue[Other(p)] \in Seq(Notices) /\ Other(p) \in Sides
    BY SideFacts DEF TypeOK, Notices
  <2>3. 1 \in DOMAIN queue[Other(p)] /\ queue[Other(p)][1].channel = d[2]
    BY <1>2, <2>1, <2>2 DEF Arrived
  <2>4. PICK f \in Ends : f[1] = Other(p) /\ f[2] = d[2]
    BY <2>1, EndFacts
  <2>5. request[d[2]] = "admitted"
    <3>1. ASSUME request[f[2]] # "admitted" PROVE FALSE
      <4>1. \A i \in DOMAIN queue[f[1]] : queue[f[1]][i].channel # f[2]
        BY <3>1 DEF QuietInv, Quiet
      <4> QED BY <2>3, <2>4, <4>1
    <3> QED BY <2>4, <3>1
  <2> QED BY <2>1, <2>5
<1>3. CASE OnFrame(p)
  <2>1. queue[Other(p)] # <<>> /\ Consume(p)
        /\ UNCHANGED <<request, sendVars, taken, crediting, got, saw, closing, last>>
    BY <1>3 DEF OnFrame, Arrives
  <2>2. PICK d \in Ends : /\ d = <<p, Arrived(p).channel>> /\ d[1] = p /\ d[2] = Arrived(p).channel
                          /\ request[d[2]] = "admitted"
    BY <1>2, <2>1
  <2>3. /\ inbox' = inbox \/ inbox' = [inbox EXCEPT ![d] = Append(@, Arrived(p).n)]
        /\ telling' = telling \/ telling' = [telling EXCEPT ![p] = d[2]]
    BY <1>3, <2>2 DEF OnFrame
  <2>4. \A e \in Ends : e # d => inbox'[e] = inbox[e]
    BY <2>3 DEF TypeOK
  <2>5. telling[p] = 0 /\ \A e \in Ends : e[2] # 0
    BY <1>1, <1>3, TunnelAssumption DEF OnFrame, Arrives
  <2>6. ASSUME NEW e \in Ends, e # d
        PROVE  telling'[e[1]] = e[2] <=> telling[e[1]] = e[2]
    <3>1. e[1] # p \/ e[2] # d[2]
      BY <1>1, <2>2, <2>6
    <3> QED BY <1>1, <2>2, <2>3, <2>5, <3>1, SMTT(30) DEF TypeOK
  <2> QED BY <2>1, <2>2, <2>4, <2>6 DEF sendVars
<1>4. CASE OnCredit(p)
  <2>1. queue[Other(p)] # <<>> /\ Consume(p)
        /\ UNCHANGED <<request, sending, sent, recvVars, closing, telling, last>>
    BY <1>4 DEF OnCredit, Arrives, openVars, endVars
  <2>2. PICK d \in Ends : /\ d = <<p, Arrived(p).channel>> /\ d[1] = p /\ d[2] = Arrived(p).channel
                          /\ request[d[2]] = "admitted"
    BY <1>2, <2>1
  <2>3. \E n : credit' = [credit EXCEPT ![d] = n]
    BY <1>4, <2>2 DEF OnCredit
  <2>4. \A e \in Ends : e # d => credit'[e] = credit[e]
    BY <2>3 DEF TypeOK
  <2> QED BY <2>1, <2>2, <2>4 DEF recvVars
<1>5. CASE OnClose(p)
  <2>1. queue[Other(p)] # <<>> /\ Consume(p)
        /\ UNCHANGED <<request, sendVars, recvVars, closing, telling, last>>
    BY <1>5 DEF OnClose, Arrives
  <2>2. PICK d \in Ends : /\ d = <<p, Arrived(p).channel>> /\ d[1] = p /\ d[2] = Arrived(p).channel
                          /\ request[d[2]] = "admitted"
    BY <1>2, <2>1
  <2> QED BY <2>1, <2>2, StillUnchanged DEF sendVars, recvVars
<1>6. CASE Tell(p)
  <2>1. telling[p] \in Channels /\ telling[p] # 0
    BY <1>6 DEF Tell, TypeOK
  <2>2. PICK d \in Ends : d = <<p, telling[p]>> /\ d[1] = p /\ d[2] = telling[p]
    BY <2>1, EndOf
  <2>3. request[d[2]] = "admitted"
    BY <2>2 DEF QuietInv, Quiet
  <2>4. /\ UNCHANGED <<request, sendVars, recvVars, closing>>
        /\ last' = [last EXCEPT ![d] = sent[d]] /\ telling' = [telling EXCEPT ![p] = 0]
        /\ Emit(p, CloseNotice(d[2])) \/ UNCHANGED queue
    BY <1>6, <2>2 DEF Tell, openVars
  <2>5. CloseNotice(d[2]) \in Notices /\ CloseNotice(d[2]).channel = d[2]
    BY <2>1, <2>2 DEF CloseNotice, Notices
  <2>6. \A e \in Ends : e # d => last'[e] = last[e]
    BY <2>4 DEF TypeOK
  <2>7. ASSUME NEW e \in Ends, e # d
        PROVE  telling'[e[1]] = e[2] <=> telling[e[1]] = e[2]
    <3>1. (e[1] # p \/ e[2] # d[2]) /\ e[2] # 0
      BY <1>1, <2>2, <2>7, TunnelAssumption
    <3> QED BY <1>1, <2>2, <2>4, <3>1 DEF TypeOK
  <2> QED BY <2>2, <2>3, <2>4, <2>5, <2>6, <2>7 DEF sendVars, recvVars
<1> QED BY <1>3, <1>4, <1>5, <1>6 DEF Eventing

LEMMA QuietStep ==
  ASSUME TypeOK, TypeOK', TableInv, QuietInv, [Next]_vars
  PROVE  QuietInv'
<1> SUFFICES ASSUME NEW e \in Ends, request'[e[2]] # "admitted"
             PROVE  Quiet(e)'
  BY DEF QuietInv
<1>1. e[1] \in Sides /\ e[2] \in Channels /\ e = <<e[1], e[2]>>
  BY EndFacts
<1>2. request[e[2]] # "admitted"
  BY <1>1, AdmittedStays
<1>3. Quiet(e)
  BY <1>2 DEF QuietInv
<1>4. \A i \in DOMAIN queue[Other(e[1])] : queue[Other(e[1])][i].channel # e[2]
  <2>1. PICK f \in Ends : f[1] = Other(e[1]) /\ f[2] = e[2]
    BY EndFacts
  <2> QED BY <1>2, <2>1, SMTT(30) DEF QuietInv, Quiet
<1>5. /\ queue \in [Sides -> Seq(Notices)] /\ queue[e[1]] \in Seq(Notices)
      /\ queue' \in [Sides -> Seq(Notices)]
  BY <1>1 DEF TypeOK, Notices
<1>6. ASSUME Still(e), \A i \in DOMAIN queue'[e[1]] : queue'[e[1]][i].channel # e[2]
      PROVE  Quiet(e)'
  BY <1>3, <1>6 DEF Still, Quiet
<1>7. ASSUME queue' = queue PROVE \A i \in DOMAIN queue'[e[1]] : queue'[e[1]][i].channel # e[2]
  BY <1>3, <1>7 DEF Quiet
<1>8. ASSUME NEW d \in Ends, request[d[2]] = "admitted", NEW p \in Sides,
             NEW f \in Notices, f.channel = d[2], Emit(p, f)
      PROVE  \A i \in DOMAIN queue'[e[1]] : queue'[e[1]][i].channel # e[2]
  <2>1. queue'[e[1]] = IF p = e[1] THEN Append(queue[e[1]], f) ELSE queue[e[1]]
    BY <1>1, <1>5, <1>8 DEF Emit
  <2>2. f.channel # e[2] /\ \A i \in DOMAIN queue[e[1]] : queue[e[1]][i].channel # e[2]
    BY <1>2, <1>3, <1>8 DEF Quiet
  <2>3. \A i \in DOMAIN Append(queue[e[1]], f) : Append(queue[e[1]], f)[i].channel # e[2]
    BY <1>5, <2>2
  <2> QED BY <2>1, <2>2, <2>3
<1>9. ASSUME NEW p \in Sides, queue[Other(p)] # <<>>, Consume(p)
      PROVE  \A i \in DOMAIN queue'[e[1]] : queue'[e[1]][i].channel # e[2]
  <2>1. \A i \in DOMAIN queue[e[1]] : queue[e[1]][i].channel # e[2]
    BY <1>3 DEF Quiet
  <2>2. CASE e[1] = Other(p)
    <3>1. queue[e[1]] # <<>> /\ queue'[e[1]] = Tail(queue[e[1]])
      BY <1>1, <1>9, <2>2 DEF Consume, TypeOK
    <3>2. \A i \in DOMAIN Tail(queue[e[1]]) :
            i + 1 \in DOMAIN queue[e[1]] /\ Tail(queue[e[1]])[i] = queue[e[1]][i + 1]
      BY <1>5, <3>1
    <3> QED BY <2>1, <3>1, <3>2
  <2>3. CASE e[1] # Other(p)
    BY <1>1, <1>9, <2>1, <2>3 DEF Consume, TypeOK
  <2> QED BY <2>2, <2>3
<1>10. ASSUME NEW c \in Channels, Opening(c) PROVE Quiet(e)'
  <2>1. UNCHANGED <<sending, sent, recvVars, closing, telling, last, queue>>
    BY <1>10 DEF Opening, OpenCall, OpenReceived, Admit, OpenReturns, OpenFails, sendVars, endVars
  <2>2. credit'[e] = credit[e]
    <3>1. Opener(c) \in Sides /\ Acceptor(c) \in Sides
      BY SideFacts
    <3>2. <<Opener(c), c>>[2] = c /\ <<Acceptor(c), c>>[2] = c
      OBVIOUS
    <3>3. CASE OpenCall(c) \/ OpenReceived(c) \/ OpenFails(c)
      BY <3>3 DEF OpenCall, OpenReceived, OpenFails, sendVars
    <3>4. CASE OpenReturns(c)
      <4>1. request[c] = "admitted" /\ credit' = [credit EXCEPT ![<<Opener(c), c>>] = @ + Window]
        BY <3>4 DEF OpenReturns
      <4>2. e # <<Opener(c), c>>
        BY <1>2, <3>2, <4>1
      <4> QED BY <4>1, <4>2 DEF TypeOK
    <3>5. CASE Admit(c)
      <4>1. CASE Refuses(c)
        BY <3>5, <4>1 DEF Admit
      <4>2. CASE ~Refuses(c)
        <5>1. /\ request' = [request EXCEPT ![c] = "admitted"]
              /\ credit' = [credit EXCEPT ![<<Acceptor(c), c>>] = Window]
          BY <3>5, <4>2 DEF Admit
        <5>2. request'[c] = "admitted"
          BY <5>1 DEF TypeOK
        <5>3. e # <<Acceptor(c), c>>
          BY <3>2, <5>2
        <5> QED BY <5>1, <5>3 DEF TypeOK
      <4> QED BY <4>1, <4>2
    <3> QED BY <1>10, <3>3, <3>4, <3>5 DEF Opening
  <2>3. Still(e)
    BY <2>1, <2>2 DEF Still, recvVars
  <2> QED BY <1>6, <1>7, <2>1, <2>3
<1>11. ASSUME NEW d \in Ends, Sending(d) \/ Receiving(d) \/ Close(d) \/ CloseTold(d)
       PROVE  Quiet(e)'
  <2>1. /\ request[d[2]] = "admitted" /\ e # d /\ d[1] \in Sides
        /\ queue' = queue \/ \E f \in Notices : f.channel = d[2] /\ Emit(d[1], f)
    BY <1>2, <1>11, OwnStep, EndFacts
  <2>2. Still(e)
    BY <1>11, <2>1, OwnStep
  <2>3. CASE queue' = queue
    BY <1>6, <1>7, <2>2, <2>3
  <2>4. ASSUME NEW f \in Notices, f.channel = d[2], Emit(d[1], f) PROVE Quiet(e)'
    BY <1>6, <1>8, <2>1, <2>2, <2>4
  <2> QED BY <2>1, <2>3, <2>4
<1>12. ASSUME NEW p \in Sides, Eventing(p) PROVE Quiet(e)'
  <2>1. PICK d \in Ends :
           /\ d[1] = p /\ request[d[2]] = "admitted"
           /\ \A x \in Ends : x # d => Still(x)
           /\ \/ queue[Other(p)] # <<>> /\ Consume(p)
              \/ queue' = queue
              \/ \E f \in Notices : f.channel = d[2] /\ Emit(p, f)
    BY <1>12, LoopStep
  <2>2. Still(e)
    BY <1>2, <2>1
  <2> QED BY <1>6, <1>7, <1>8, <1>9, <2>1, <2>2
<1>13. ASSUME NEW p \in Sides, Taking(p) \/ OuterEnd(p) \/ Watch(p) PROVE Quiet(e)'
  <2>1. UNCHANGED <<sendVars, recvVars, closing, telling, last, queue>>
    BY <1>13 DEF Taking, Accept, Resolve, OuterEnd, Watch, endVars
  <2> QED BY <1>6, <1>7, <2>1, StillUnchanged
<1>14. CASE UNCHANGED vars
  <2>1. UNCHANGED <<sendVars, recvVars, closing, telling, last, queue>>
    BY <1>14 DEF vars, endVars
  <2> QED BY <1>6, <1>7, <2>1, StillUnchanged
<1> QED BY <1>10, <1>11, <1>12, <1>13, <1>14 DEF Next

-----------------------------------------------------------------------------
(* Counting what is queued: the notices of one kind and channel, and the   *)
(* credit in them.                                                         *)

Marks(q, kind, c) == {i \in 1 .. Len(q) : q[i].kind = kind /\ q[i].channel = c}
Worth(q, c) == UNION {{i} \X (1 .. q[i].n) : i \in Marks(q, "credit", c)}

LEMMA SameCount ==
  ASSUME NEW S, NEW T, IsFiniteSet(S), NEW F \in [S -> T],
         \A a, b \in S : F[a] = F[b] => a = b,
         \A t \in T : \E s \in S : F[s] = t
  PROVE  IsFiniteSet(T) /\ Cardinality(T) = Cardinality(S)
<1>1. F \in Bijection(S, T)
  BY DEF Bijection, Injection, Surjection, IsInjective
<1> QED BY <1>1, FS_Bijection DEF ExistsBijection

LEMMA TailParts ==
  ASSUME NEW q \in Seq(Notices), q # <<>>
  PROVE  /\ Tail(q) \in Seq(Notices) /\ Len(q) \in Nat /\ 1 \in 1 .. Len(q)
         /\ Head(q) = q[1] /\ q[1] \in Notices /\ Len(Tail(q)) = Len(q) - 1
         /\ \A i \in 1 .. Len(Tail(q)) : Tail(q)[i] = q[i + 1] /\ i + 1 \in 1 .. Len(q)
         /\ \A i \in 1 .. Len(q) : i = 1 \/ (i - 1 \in 1 .. Len(Tail(q)) /\ q[i] = Tail(q)[i - 1])
<1>1. /\ Tail(q) \in Seq(Notices) /\ Len(q) \in Nat /\ Len(q) >= 1 /\ q[1] \in Notices
      /\ Len(Tail(q)) = Len(q) - 1 /\ Head(q) = q[1]
  OBVIOUS
<1>2. \A i \in 1 .. Len(Tail(q)) : Tail(q)[i] = q[i + 1]
  BY <1>1
<1>3. \A i \in 1 .. Len(q) : i = 1 \/ (i - 1 \in 1 .. Len(Tail(q)) /\ (i - 1) + 1 = i)
  BY <1>1
<1> QED BY <1>1, <1>2, <1>3

LEMMA AppendParts ==
  ASSUME NEW q \in Seq(Notices), NEW f \in Notices
  PROVE  /\ Append(q, f) \in Seq(Notices) /\ Len(q) \in Nat /\ Len(Append(q, f)) = Len(q) + 1
         /\ Append(q, f)[Len(q) + 1] = f
         /\ \A i \in 1 .. Len(q) : Append(q, f)[i] = q[i]
OBVIOUS

LEMMA MarksFinite ==
  ASSUME NEW q \in Seq(Notices), NEW kind, NEW c
  PROVE  IsFiniteSet(Marks(q, kind, c)) /\ Cardinality(Marks(q, kind, c)) \in Nat
<1>1. Len(q) \in Nat /\ IsFiniteSet(1 .. Len(q))
  BY FS_Interval
<1>2. Marks(q, kind, c) \in SUBSET (1 .. Len(q))
  BY DEF Marks
<1>3. IsFiniteSet(Marks(q, kind, c))
  BY <1>1, <1>2, FS_Subset
<1> QED BY <1>3, FS_CardinalityType

LEMMA MarksAppend ==
  ASSUME NEW q \in Seq(Notices), NEW f \in Notices, NEW kind, NEW c
  PROVE  /\ f.kind = kind /\ f.channel = c =>
              Cardinality(Marks(Append(q, f), kind, c)) = Cardinality(Marks(q, kind, c)) + 1
         /\ ~(f.kind = kind /\ f.channel = c) => Marks(Append(q, f), kind, c) = Marks(q, kind, c)
<1> DEFINE t == Append(q, f)
<1>1. /\ Len(q) \in Nat /\ Len(t) = Len(q) + 1 /\ t[Len(q) + 1] = f
      /\ \A i \in 1 .. Len(q) : t[i] = q[i]
  BY AppendParts
<1> HIDE DEF t
<1>2. \A i : i \in 1 .. Len(t) <=> i \in 1 .. Len(q) \/ i = Len(q) + 1
  BY <1>1
<1>3. ASSUME f.kind = kind, f.channel = c
      PROVE  Cardinality(Marks(t, kind, c)) = Cardinality(Marks(q, kind, c)) + 1
  <2>1. Marks(t, kind, c) = Marks(q, kind, c) \cup {Len(q) + 1}
    BY <1>1, <1>2, <1>3 DEF Marks
  <2>2. Len(q) + 1 \notin Marks(q, kind, c)
    BY <1>1 DEF Marks
  <2> QED BY <2>1, <2>2, MarksFinite, FS_AddElement
<1>4. ASSUME ~(f.kind = kind /\ f.channel = c)
      PROVE  Marks(t, kind, c) = Marks(q, kind, c)
  BY <1>1, <1>2, <1>4 DEF Marks
<1> QED BY <1>3, <1>4 DEF t

LEMMA MarksTail ==
  ASSUME NEW q \in Seq(Notices), q # <<>>, NEW kind, NEW c
  PROVE  /\ q[1].kind = kind /\ q[1].channel = c =>
              Cardinality(Marks(Tail(q), kind, c)) = Cardinality(Marks(q, kind, c)) - 1
         /\ ~(q[1].kind = kind /\ q[1].channel = c) =>
              Cardinality(Marks(Tail(q), kind, c)) = Cardinality(Marks(q, kind, c))
<1> DEFINE t == Tail(q)
<1>1. /\ t \in Seq(Notices) /\ Len(q) \in Nat /\ 1 \in 1 .. Len(q) /\ Len(t) = Len(q) - 1
      /\ \A i \in 1 .. Len(t) : t[i] = q[i + 1] /\ i + 1 \in 1 .. Len(q)
      /\ \A i \in 1 .. Len(q) : i = 1 \/ (i - 1 \in 1 .. Len(t) /\ q[i] = t[i - 1])
  BY TailParts
<1> HIDE DEF t
<1> DEFINE S == Marks(t, kind, c)
           T == Marks(q, kind, c) \ {1}
           F == [i \in S |-> i + 1]
<1>2. F \in [S -> T] /\ \A a, b \in S : F[a] = F[b] => a = b
  BY <1>1, SMTT(30) DEF Marks
<1>3. \A i \in T : \E s \in S : F[s] = i
  <2> SUFFICES ASSUME NEW i \in T PROVE \E s \in S : F[s] = i
    OBVIOUS
  <2>1. i \in 1 .. Len(q) /\ i - 1 \in 1 .. Len(t) /\ q[i] = t[i - 1] /\ (i - 1) + 1 = i
    BY <1>1 DEF Marks
  <2>2. i - 1 \in S
    BY <2>1 DEF Marks
  <2> QED BY <2>1, <2>2
<1>4. IsFiniteSet(S)
  BY <1>1, MarksFinite
<1>5. Cardinality(T) = Cardinality(S)
  <2> HIDE DEF S, T, F
  <2> QED BY <1>2, <1>3, <1>4, SameCount
<1>6. Cardinality(T) = IF 1 \in Marks(q, kind, c) THEN Cardinality(Marks(q, kind, c)) - 1
                                                  ELSE Cardinality(Marks(q, kind, c))
  BY MarksFinite, FS_RemoveElement
<1>7. 1 \in Marks(q, kind, c) <=> q[1].kind = kind /\ q[1].channel = c
  BY <1>1 DEF Marks
<1> QED BY <1>5, <1>6, <1>7 DEF t

LEMMA WorthOf ==
  ASSUME NEW q, NEW c, NEW x
  PROVE  x \in Worth(q, c) <=> \E i \in Marks(q, "credit", c) : \E m \in 1 .. q[i].n : x = <<i, m>>
BY DEF Worth

LEMMA WorthFinite ==
  ASSUME NEW q \in Seq(Notices), NEW c
  PROVE  IsFiniteSet(Worth(q, c)) /\ Cardinality(Worth(q, c)) \in Nat
<1> DEFINE M == Marks(q, "credit", c)
           P(i) == {i} \X (1 .. q[i].n)
<1>1. \A i \in M : IsFiniteSet(P(i))
  <2> SUFFICES ASSUME NEW i \in M PROVE IsFiniteSet(P(i))
    OBVIOUS
  <2>1. q[i] \in Notices
    BY DEF Marks
  <2>2. PICK n \in Int : n = q[i].n
    BY <2>1 DEF Notices
  <2>3. 1 \in Int
    OBVIOUS
  <2>4. IsFiniteSet(1 .. n)
    BY <2>3, FS_Interval
  <2>5. IsFiniteSet(1 .. q[i].n) /\ IsFiniteSet({i})
    BY <2>2, <2>4, FS_Singleton
  <2> QED BY <2>5, FS_Product
<1>2. IsFiniteSet({P(i) : i \in M})
  <2>1. IsFiniteSet(M)
    BY MarksFinite
  <2> DEFINE G == [i \in M |-> P(i)]
             R == {P(i) : i \in M}
  <2>2. G \in Surjection(M, R)
    BY DEF Surjection
  <2> QED BY <2>1, <2>2, FS_Surjection
<1>3. IsFiniteSet(UNION {P(i) : i \in M})
  BY <1>1, <1>2, FS_UNION
<1>4. Worth(q, c) = UNION {P(i) : i \in M}
  BY DEF Worth
<1> QED BY <1>3, <1>4, FS_CardinalityType

LEMMA WorthAppend ==
  ASSUME NEW q \in Seq(Notices), NEW f \in Notices, NEW c
  PROVE  /\ f.kind = "credit" /\ f.channel = c =>
              Cardinality(Worth(Append(q, f), c)) = Cardinality(Worth(q, c)) + f.n
         /\ ~(f.kind = "credit" /\ f.channel = c) =>
              Cardinality(Worth(Append(q, f), c)) = Cardinality(Worth(q, c))
<1> DEFINE t == Append(q, f)
<1>1. /\ t \in Seq(Notices) /\ Len(q) \in Nat /\ Len(t) = Len(q) + 1 /\ t[Len(q) + 1] = f
      /\ \A i \in 1 .. Len(q) : t[i] = q[i]
  BY AppendParts
<1>2. ~(f.kind = "credit" /\ f.channel = c) => Marks(t, "credit", c) = Marks(q, "credit", c)
  BY MarksAppend
<1> HIDE DEF t
<1>3. \A i : i \in 1 .. Len(t) <=> i \in 1 .. Len(q) \/ i = Len(q) + 1
  BY <1>1
<1>4. ASSUME ~(f.kind = "credit" /\ f.channel = c)
      PROVE  Cardinality(Worth(t, c)) = Cardinality(Worth(q, c))
  <2>1. \A i \in Marks(q, "credit", c) : t[i] = q[i]
    BY <1>1 DEF Marks
  <2>2. \A x : x \in Worth(t, c) <=> x \in Worth(q, c)
    BY <1>2, <1>4, <2>1, WorthOf
  <2>3. Worth(t, c) = Worth(q, c)
    BY <2>2
  <2> QED BY <2>3
<1>5. ASSUME f.kind = "credit", f.channel = c
      PROVE  Cardinality(Worth(t, c)) = Cardinality(Worth(q, c)) + f.n
  <2>1. PICK n \in Nat : n = f.n
    BY DEF Notices
  <2>2. PICK k : k = Len(q) + 1
    OBVIOUS
  <2>3. \A i : i \in Marks(t, "credit", c) <=> i \in Marks(q, "credit", c) \/ i = k
    BY <1>1, <1>3, <1>5, <2>2 DEF Marks
  <2>4. k \notin Marks(q, "credit", c) /\ t[k].n = n /\ \A i \in Marks(q, "credit", c) : t[i] = q[i]
    BY <1>1, <2>1, <2>2 DEF Marks
  <2>5. \A x : x \in {k} \X (1 .. n) <=> \E m \in 1 .. n : x = <<k, m>>
    OBVIOUS
  <2>6. Worth(t, c) = Worth(q, c) \cup ({k} \X (1 .. n))
    <3>1. \A x : x \in Worth(t, c) <=> x \in Worth(q, c) \/ x \in {k} \X (1 .. n)
      BY <2>3, <2>4, <2>5, WorthOf
    <3> QED BY <3>1
  <2>7. Worth(q, c) \cap ({k} \X (1 .. n)) = {}
    <3>1. ASSUME NEW x, x \in Worth(q, c), x \in {k} \X (1 .. n) PROVE FALSE
      BY <2>4, <2>5, <3>1, WorthOf
    <3> QED BY <3>1
  <2>8. IsFiniteSet({k} \X (1 .. n)) /\ Cardinality({k} \X (1 .. n)) = n
    <3>1. 1 \in Int /\ n \in Int
      OBVIOUS
    <3>2. IsFiniteSet(1 .. n) /\ Cardinality(1 .. n) = n
      BY <3>1, FS_Interval
    <3>3. IsFiniteSet({k}) /\ Cardinality({k}) = 1
      BY FS_Singleton
    <3>4. IsFiniteSet({k} \X (1 .. n)) /\ Cardinality({k} \X (1 .. n)) = 1 * n
      BY <3>2, <3>3, FS_Product
    <3> QED BY <3>4
  <2>9. IsFiniteSet(Worth(q, c)) /\ Cardinality(Worth(q, c)) \in Nat
    BY WorthFinite
  <2>10. Cardinality(Worth(t, c)) = Cardinality(Worth(q, c)) + n - Cardinality({})
    BY <2>6, <2>7, <2>8, <2>9, FS_Union
  <2> QED BY <2>1, <2>9, <2>10, FS_EmptySet
<1> QED BY <1>4, <1>5 DEF t

LEMMA WorthTail ==
  ASSUME NEW q \in Seq(Notices), q # <<>>, NEW c
  PROVE  /\ q[1].kind = "credit" /\ q[1].channel = c =>
              Cardinality(Worth(Tail(q), c)) = Cardinality(Worth(q, c)) - q[1].n
         /\ ~(q[1].kind = "credit" /\ q[1].channel = c) =>
              Cardinality(Worth(Tail(q), c)) = Cardinality(Worth(q, c))
<1> DEFINE t == Tail(q)
<1>1. /\ t \in Seq(Notices) /\ Len(q) \in Nat /\ 1 \in 1 .. Len(q) /\ Len(t) = Len(q) - 1
      /\ q[1] \in Notices
      /\ \A i \in 1 .. Len(t) : t[i] = q[i + 1] /\ i + 1 \in 1 .. Len(q)
      /\ \A i \in 1 .. Len(q) : i = 1 \/ (i - 1 \in 1 .. Len(t) /\ q[i] = t[i - 1])
  BY TailParts
<1> HIDE DEF t
<1>2. PICK n \in Nat : n = q[1].n
  BY <1>1 DEF Notices
<1> DEFINE H == {1} \X (1 .. n)
           S == Worth(t, c)
           T == Worth(q, c) \ H
           F == [x \in S |-> <<x[1] + 1, x[2]>>]
<1>3. \A i \in Marks(t, "credit", c) : i \in Int /\ i + 1 # 1 /\ i + 1 \in Marks(q, "credit", c) /\ q[i + 1].n = t[i].n
  BY <1>1 DEF Marks
<1>4. \A i \in Marks(q, "credit", c) : i = 1 \/ (i - 1 \in Marks(t, "credit", c) /\ t[i - 1].n = q[i].n /\ (i - 1) + 1 = i)
  BY <1>1 DEF Marks
<1>5. \A x : x \in H <=> \E m \in 1 .. n : x = <<1, m>>
  OBVIOUS
<1>6. \A x \in S : F[x] \in T /\ x = <<x[1], x[2]>> /\ x[1] \in Int
  <2> SUFFICES ASSUME NEW x \in S PROVE F[x] \in T /\ x = <<x[1], x[2]>> /\ x[1] \in Int
    OBVIOUS
  <2>1. PICK i \in Marks(t, "credit", c) : \E m \in 1 .. t[i].n : x = <<i, m>>
    BY WorthOf
  <2>2. PICK m \in 1 .. t[i].n : x = <<i, m>>
    BY <2>1
  <2>3. F[x] = <<i + 1, m>>
    BY <2>2
  <2>4. <<i + 1, m>> \in Worth(q, c)
    BY <1>3, WorthOf
  <2>5. <<i + 1, m>> \notin H
    BY <1>3, <1>5
  <2> QED BY <1>3, <2>2, <2>3, <2>4, <2>5
<1>7. F \in [S -> T]
  BY <1>6
<1>8. \A a, b \in S : F[a] = F[b] => a = b
  BY <1>6
<1>9. \A y \in T : \E x \in S : F[x] = y
  <2> SUFFICES ASSUME NEW y \in T PROVE \E x \in S : F[x] = y
    OBVIOUS
  <2>1. PICK i \in Marks(q, "credit", c) : \E m \in 1 .. q[i].n : y = <<i, m>>
    BY WorthOf
  <2>2. PICK m \in 1 .. q[i].n : y = <<i, m>>
    BY <2>1
  <2>3. i # 1
    BY <1>2, <1>5, <2>2
  <2>4. <<i - 1, m>> \in S
    BY <1>4, <2>3, WorthOf
  <2>5. F[<<i - 1, m>>] = y
    BY <1>4, <2>2, <2>3, <2>4
  <2> QED BY <2>4, <2>5
<1>10. IsFiniteSet(S) /\ IsFiniteSet(Worth(q, c)) /\ Cardinality(Worth(q, c)) \in Nat
  BY <1>1, WorthFinite
<1>11. Cardinality(T) = Cardinality(S)
  <2> HIDE DEF S, T, F
  <2> QED BY <1>7, <1>8, <1>9, <1>10, SameCount
<1>12. Cardinality(T) = Cardinality(Worth(q, c)) - Cardinality(Worth(q, c) \cap H)
  <2> HIDE DEF H
  <2> QED BY <1>10, FS_Difference
<1>13. Cardinality(H) = n
  <2>1. 1 \in Int /\ n \in Int
    OBVIOUS
  <2>2. IsFiniteSet(1 .. n) /\ Cardinality(1 .. n) = n
    BY <2>1, FS_Interval
  <2>3. IsFiniteSet({1}) /\ Cardinality({1}) = 1
    BY FS_Singleton
  <2>4. Cardinality({1} \X (1 .. n)) = 1 * n
    BY <2>2, <2>3, FS_Product
  <2> QED BY <2>4
<1>14. 1 \in Marks(q, "credit", c) <=> q[1].kind = "credit" /\ q[1].channel = c
  BY <1>1 DEF Marks
<1>15. CASE q[1].kind = "credit" /\ q[1].channel = c
  <2>1. \A x \in H : x \in Worth(q, c)
    BY <1>2, <1>5, <1>14, <1>15, WorthOf
  <2>2. Worth(q, c) \cap H = H
    BY <2>1
  <2> QED BY <1>2, <1>11, <1>12, <1>13, <1>15, <2>2 DEF t
<1>16. CASE ~(q[1].kind = "credit" /\ q[1].channel = c)
  <2>1. ASSUME NEW x, x \in Worth(q, c), x \in H PROVE FALSE
    BY <1>5, <1>14, <1>16, <2>1, WorthOf
  <2>2. Worth(q, c) \cap H = {}
    BY <2>1
  <2> QED BY <1>10, <1>11, <1>12, <1>16, <2>2, FS_EmptySet DEF t
<1> QED BY <1>15, <1>16

-----------------------------------------------------------------------------
(* The window.  What an end may still send and what is on its way there or *)
(* back never exceeds the window it was given, and is all of it while both *)
(* ends are open in steady surroundings.                                   *)

Emitting(e) == IF sending[e] = "emitting" THEN 1 ELSE 0
Frames(e) == Cardinality(Events(e[1], "frame", e[2]))
Spent(e) == credit[e] + InUse(e)

\* What of it the sender's side counts, and the receiver's.
Here(e) == credit[e] + Emitting(e) + Frames(e)
There(e) == Len(inbox[Far(e)]) + taken[Far(e)] + crediting[Far(e)] + Returning(e)

Given(e) ==
  IF e[1] = Opener(e[2]) THEN (IF open[e[2]] = "opened" THEN Window ELSE 0)
                         ELSE (IF request[e[2]] = "admitted" THEN Window ELSE 0)

Whole(e) ==
  /\ Steady /\ e[1] \notin Greedy /\ outer = PerSide("up")
  /\ state[e] = "open" /\ state[Far(e)] = "open"

FlowAt(e) ==
  /\ e[1] \notin Greedy => Spent(e) <= Given(e)
  /\ Whole(e) => Spent(e) = Given(e)

FlowInv == \A e \in Ends : FlowAt(e)

LEMMA CountsAreMarks ==
  ASSUME NEW e
  PROVE  /\ Frames(e) = Cardinality(Marks(queue[e[1]], "frame", e[2]))
         /\ Returning(e) = Cardinality(Worth(queue[Other(e[1])], e[2]))
BY DEF Frames, Events, Marks, Returning, Credits, Worth

Counted(e) ==
  /\ Emitting(e) \in Nat /\ Frames(e) \in Nat /\ Returning(e) \in Nat
  /\ credit[e] \in Nat /\ Len(inbox[Far(e)]) \in Nat /\ taken[Far(e)] \in Nat /\ crediting[Far(e)] \in Nat
  /\ Here(e) = credit[e] + Emitting(e) + Frames(e) /\ Here(e) \in Nat
  /\ There(e) = Len(inbox[Far(e)]) + taken[Far(e)] + crediting[Far(e)] + Returning(e) /\ There(e) \in Nat
  /\ Spent(e) = Here(e) + There(e)
  /\ Spent(e) \in Nat /\ Given(e) \in Nat /\ Window \in Nat

LEMMA CountTypes == TypeOK => \A e \in Ends : Counted(e)
<1> SUFFICES ASSUME TypeOK, NEW e \in Ends PROVE Counted(e)
  OBVIOUS
<1>1. e[1] \in Sides /\ Other(e[1]) \in Sides /\ Far(e) \in Ends
  BY EndFacts
<1>2. queue[e[1]] \in Seq(Notices) /\ queue[Other(e[1])] \in Seq(Notices)
  BY <1>1 DEF TypeOK, Notices
<1>3. Frames(e) \in Nat /\ Returning(e) \in Nat
  BY <1>2, CountsAreMarks, MarksFinite, WorthFinite
<1>4. /\ credit[e] \in Nat /\ inbox[Far(e)] \in Seq(Nat)
      /\ taken[Far(e)] \in Nat /\ crediting[Far(e)] \in Nat
  BY <1>1 DEF TypeOK
<1>5. Emitting(e) \in Nat
  BY DEF Emitting
<1>6. Len(inbox[Far(e)]) \in Nat
  BY <1>4
<1>7. /\ Here(e) = credit[e] + Emitting(e) + Frames(e) /\ Here(e) \in Nat
      /\ There(e) = Len(inbox[Far(e)]) + taken[Far(e)] + crediting[Far(e)] + Returning(e) /\ There(e) \in Nat
  <2>1. /\ Here(e) = credit[e] + Emitting(e) + Frames(e)
        /\ There(e) = Len(inbox[Far(e)]) + taken[Far(e)] + crediting[Far(e)] + Returning(e)
    BY DEF Here, There
  <2>2. credit[e] + Emitting(e) + Frames(e) \in Nat
    BY <1>3, <1>4, <1>5
  <2>3. Len(inbox[Far(e)]) + taken[Far(e)] + crediting[Far(e)] + Returning(e) \in Nat
    BY <1>3, <1>4, <1>6, SMTT(30)
  <2> QED BY <2>1, <2>2, <2>3
<1>8. Given(e) \in Nat /\ Window \in Nat
  BY WindowType DEF Given
<1>9. Spent(e) = Here(e) + There(e)
  <2>1. PICK k \in Nat, l \in Nat, t \in Nat, r \in Nat, w \in Nat, m \in Nat, n \in Nat :
          /\ k = Emitting(e) /\ l = Frames(e) /\ t = Len(inbox[Far(e)]) /\ r = taken[Far(e)]
          /\ w = crediting[Far(e)] /\ m = Returning(e) /\ n = credit[e]
    BY <1>3, <1>4, <1>5, <1>6
  <2>2. Spent(e) = n + (k + l + t + r + w + m) /\ Here(e) = n + k + l /\ There(e) = t + r + w + m
    BY <2>1 DEF Spent, InUse, Emitting, Frames, Here, There
  <2>3. n + (k + l + t + r + w + m) = (n + k + l) + (t + r + w + m)
    OBVIOUS
  <2> QED BY <2>2, <2>3
<1>10. Spent(e) \in Nat
  BY <1>7, <1>9
<1> QED BY <1>3, <1>4, <1>5, <1>6, <1>7, <1>8, <1>9, <1>10, Zenon DEF Counted

LEMMA CountTypesNext == TypeOK' => (\A e \in Ends : Counted(e))'
BY CountTypes, PTL

LEMMA EmitCounts ==
  ASSUME TypeOK, NEW p \in Sides, NEW f \in Notices, Emit(p, f), NEW e \in Ends
  PROVE  /\ p = e[1] /\ f.kind = "frame" /\ f.channel = e[2] => Frames(e)' = Frames(e) + 1
         /\ ~(p = e[1] /\ f.kind = "frame" /\ f.channel = e[2]) => Frames(e)' = Frames(e)
         /\ p = Other(e[1]) /\ f.kind = "credit" /\ f.channel = e[2] => Returning(e)' = Returning(e) + f.n
         /\ ~(p = Other(e[1]) /\ f.kind = "credit" /\ f.channel = e[2]) => Returning(e)' = Returning(e)
<1>1. e[1] \in Sides /\ Other(e[1]) \in Sides
  BY EndFacts
<1>2. queue \in [Sides -> Seq(Notices)]
  BY DEF TypeOK, Notices
<1>3. \A r \in Sides : /\ queue[r] \in Seq(Notices)
                       /\ r = p => queue'[r] = Append(queue[r], f)
                       /\ r # p => queue'[r] = queue[r]
  BY <1>2 DEF Emit
<1>4. /\ Frames(e) = Cardinality(Marks(queue[e[1]], "frame", e[2]))
      /\ Returning(e) = Cardinality(Worth(queue[Other(e[1])], e[2]))
      /\ Frames(e)' = Cardinality(Marks(queue'[e[1]], "frame", e[2]))
      /\ Returning(e)' = Cardinality(Worth(queue'[Other(e[1])], e[2]))
  BY DEF Frames, Events, Marks, Returning, Credits, Worth
<1>5. /\ f.kind = "frame" /\ f.channel = e[2] =>
           Cardinality(Marks(Append(queue[e[1]], f), "frame", e[2])) = Cardinality(Marks(queue[e[1]], "frame", e[2])) + 1
      /\ ~(f.kind = "frame" /\ f.channel = e[2]) =>
           Marks(Append(queue[e[1]], f), "frame", e[2]) = Marks(queue[e[1]], "frame", e[2])
  BY <1>1, <1>3, MarksAppend
<1>6. /\ f.kind = "credit" /\ f.channel = e[2] =>
           Cardinality(Worth(Append(queue[Other(e[1])], f), e[2])) = Cardinality(Worth(queue[Other(e[1])], e[2])) + f.n
      /\ ~(f.kind = "credit" /\ f.channel = e[2]) =>
           Cardinality(Worth(Append(queue[Other(e[1])], f), e[2])) = Cardinality(Worth(queue[Other(e[1])], e[2]))
  BY <1>1, <1>3, WorthAppend
<1>7. CASE p = e[1]
  <2>1. queue'[e[1]] = Append(queue[e[1]], f) /\ (p # Other(e[1]) => queue'[Other(e[1])] = queue[Other(e[1])])
    BY <1>1, <1>3, <1>7
  <2>2. p # Other(e[1])
    BY <1>7, EndFacts
  <2> QED BY <1>4, <1>5, <1>7, <2>1, <2>2
<1>8. CASE p # e[1]
  <2>1. queue'[e[1]] = queue[e[1]] /\ p = Other(e[1]) /\ queue'[Other(e[1])] = Append(queue[Other(e[1])], f)
    BY <1>1, <1>3, <1>8, SideFacts
  <2> QED BY <1>4, <1>6, <1>8, <2>1
<1> QED BY <1>7, <1>8

LEMMA ConsumeCounts ==
  ASSUME TypeOK, NEW p \in Sides, queue[Other(p)] # <<>>, Consume(p), NEW e \in Ends
  PROVE  /\ Other(p) = e[1] /\ Arrived(p).kind = "frame" /\ Arrived(p).channel = e[2] => Frames(e)' = Frames(e) - 1
         /\ ~(Other(p) = e[1] /\ Arrived(p).kind = "frame" /\ Arrived(p).channel = e[2]) => Frames(e)' = Frames(e)
         /\ p = e[1] /\ Arrived(p).kind = "credit" /\ Arrived(p).channel = e[2] =>
              Returning(e)' = Returning(e) - Arrived(p).n
         /\ ~(p = e[1] /\ Arrived(p).kind = "credit" /\ Arrived(p).channel = e[2]) => Returning(e)' = Returning(e)
<1>1. e[1] \in Sides /\ Other(e[1]) \in Sides /\ Other(p) \in Sides /\ Other(e[1]) # e[1]
  BY EndFacts, SideFacts
<1>2. queue \in [Sides -> Seq(Notices)]
  BY DEF TypeOK, Notices
<1>3. \A r \in Sides : /\ queue[r] \in Seq(Notices)
                       /\ r = Other(p) => queue'[r] = Tail(queue[r]) /\ Arrived(p) = queue[r][1] /\ queue[r] # <<>>
                       /\ r # Other(p) => queue'[r] = queue[r]
  BY <1>1, <1>2 DEF Consume, Arrived
<1>4. /\ Frames(e) = Cardinality(Marks(queue[e[1]], "frame", e[2]))
      /\ Returning(e) = Cardinality(Worth(queue[Other(e[1])], e[2]))
      /\ Frames(e)' = Cardinality(Marks(queue'[e[1]], "frame", e[2]))
      /\ Returning(e)' = Cardinality(Worth(queue'[Other(e[1])], e[2]))
  BY DEF Frames, Events, Marks, Returning, Credits, Worth
<1>5. CASE e[1] = Other(p)
  <2>1. /\ queue[e[1]] \in Seq(Notices) /\ queue[e[1]] # <<>>
        /\ queue'[e[1]] = Tail(queue[e[1]]) /\ Arrived(p) = queue[e[1]][1] /\ p # e[1]
        /\ queue'[Other(e[1])] = queue[Other(e[1])]
    BY <1>1, <1>3, <1>5, SideFacts
  <2>2. /\ queue[e[1]][1].kind = "frame" /\ queue[e[1]][1].channel = e[2] =>
             Cardinality(Marks(Tail(queue[e[1]]), "frame", e[2])) = Cardinality(Marks(queue[e[1]], "frame", e[2])) - 1
        /\ ~(queue[e[1]][1].kind = "frame" /\ queue[e[1]][1].channel = e[2]) =>
             Cardinality(Marks(Tail(queue[e[1]]), "frame", e[2])) = Cardinality(Marks(queue[e[1]], "frame", e[2]))
    BY <2>1, MarksTail
  <2> QED BY <1>4, <1>5, <2>1, <2>2
<1>6. CASE e[1] # Other(p)
  <2>1. p = e[1] /\ Other(e[1]) = Other(p)
    BY <1>1, <1>6, SideFacts
  <2>2. PICK q \in Seq(Notices) : q = queue[Other(p)] /\ q # <<>> /\ queue'[Other(p)] = Tail(q) /\ Arrived(p) = q[1]
    BY <1>1, <1>3
  <2>3. queue'[e[1]] = queue[e[1]]
    BY <1>1, <1>3, <1>6
  <2>4. /\ q[1].kind = "credit" /\ q[1].channel = e[2] =>
             Cardinality(Worth(Tail(q), e[2])) = Cardinality(Worth(q, e[2])) - q[1].n
        /\ ~(q[1].kind = "credit" /\ q[1].channel = e[2]) =>
             Cardinality(Worth(Tail(q), e[2])) = Cardinality(Worth(q, e[2]))
    BY <2>2, WorthTail
  <2> QED BY <1>4, <1>6, <2>1, <2>2, <2>3, <2>4
<1> QED BY <1>5, <1>6

LEMMA FlowKept ==
  ASSUME TypeOK, TypeOK', NEW e \in Ends, FlowAt(e), setting' = setting,
         Given(e)' = Given(e), Spent(e)' <= Spent(e),
         Whole(e)' => Whole(e) /\ Spent(e)' = Spent(e)
  PROVE  FlowAt(e)'
<1>1. Spent(e) \in Nat /\ Given(e) \in Nat
  BY CountTypes DEF Counted
<1>2. Spent(e)' \in Nat
  BY CountTypesNext DEF Counted
<1>3. Greedy' = Greedy
  BY DEF Greedy
<1> QED BY <1>1, <1>2, <1>3 DEF FlowAt

LEMMA SpentParts ==
  ASSUME TypeOK, TypeOK', NEW e \in Ends
  PROVE  \E f \in Ends :
    /\ f = Far(e) /\ Far(e)' = f /\ f[1] = Other(e[1]) /\ f[2] = e[2] /\ f # e
    /\ Emitting(e) \in Nat /\ Frames(e) \in Nat /\ Returning(e) \in Nat
    /\ credit[e] \in Nat /\ Len(inbox[f]) \in Nat /\ taken[f] \in Nat /\ crediting[f] \in Nat
    /\ Emitting(e)' \in Nat /\ Frames(e)' \in Nat /\ Returning(e)' \in Nat
    /\ credit'[e] \in Nat /\ Len(inbox'[f]) \in Nat /\ taken'[f] \in Nat /\ crediting'[f] \in Nat
    /\ Here(e) = credit[e] + Emitting(e) + Frames(e)
    /\ There(e) = Len(inbox[f]) + taken[f] + crediting[f] + Returning(e)
    /\ Here(e)' = credit'[e] + Emitting(e)' + Frames(e)'
    /\ There(e)' = Len(inbox'[f]) + taken'[f] + crediting'[f] + Returning(e)'
<1>1. PICK f \in Ends : f = Far(e) /\ f[1] = Other(e[1]) /\ f[2] = e[2] /\ f # e
  BY EndFacts
<1>2. Far(e)' = f
  BY <1>1 DEF Far, Other
<1>3. Counted(e) /\ Counted(e)'
  BY CountTypes, CountTypesNext
<1> QED BY <1>1, <1>2, <1>3 DEF Counted

LEMMA SpentSum ==
  ASSUME TypeOK, TypeOK', NEW e \in Ends
  PROVE  /\ Here(e) \in Nat /\ There(e) \in Nat /\ Here(e)' \in Nat /\ There(e)' \in Nat
         /\ Spent(e) = Here(e) + There(e) /\ Spent(e)' = Here(e)' + There(e)'
         /\ Given(e) \in Nat /\ Given(e)' \in Nat
BY CountTypes, CountTypesNext DEF Counted

LEMMA SameHere ==
  ASSUME NEW e \in Ends, credit'[e] = credit[e],
         (sending'[e] = "emitting" <=> sending[e] = "emitting"), Frames(e)' = Frames(e)
  PROVE  Here(e)' = Here(e)
<1>1. Emitting(e)' = Emitting(e)
  BY DEF Emitting
<1> QED BY <1>1 DEF Here

LEMMA SameThere ==
  ASSUME NEW e \in Ends, inbox'[Far(e)] = inbox[Far(e)], taken'[Far(e)] = taken[Far(e)],
         crediting'[Far(e)] = crediting[Far(e)], Returning(e)' = Returning(e)
  PROVE  There(e)' = There(e)
<1>1. Far(e)' = Far(e)
  BY DEF Far, Other
<1> QED BY <1>1 DEF There

LEMMA FlowUnmoved ==
  ASSUME TypeOK, TypeOK', NEW e \in Ends, FlowAt(e), setting' = setting,
         Here(e)' = Here(e), There(e)' = There(e), Given(e)' = Given(e), Whole(e)' => Whole(e)
  PROVE  FlowAt(e)'
<1>1. Spent(e)' = Spent(e) /\ Spent(e) \in Nat
  BY SpentSum
<1> QED BY <1>1, FlowKept

LEMMA SameQueueCounts ==
  ASSUME queue' = queue, NEW e
  PROVE  Frames(e)' = Frames(e) /\ Returning(e)' = Returning(e)
BY DEF Frames, Events, Returning, Credits

\* A step that opens nothing leaves no more in sound order than there was.
LEMMA WholeBefore ==
  ASSUME TypeOK, NEW e \in Ends, setting' = setting,
         outer' = outer \/ \E p \in Sides : outer' = [outer EXCEPT ![p] = "ended"],
         \A d \in Ends : state'[d] = "open" => state[d] = "open",
         Whole(e)'
  PROVE  Whole(e) /\ outer' = outer
<1>1. Far(e)' = Far(e) /\ Far(e) \in Ends
  BY EndFacts DEF Far, Other
<1>2. /\ Steady /\ e[1] \notin Greedy /\ outer' = PerSide("up")
      /\ state'[e] = "open" /\ state'[Far(e)] = "open"
  BY <1>1 DEF Whole, Steady, Impatient, Stalling, Greedy, PerSide
<1>3. outer' = outer
  <2>1. ASSUME NEW p \in Sides, outer' = [outer EXCEPT ![p] = "ended"] PROVE FALSE
    <3>1. outer'[p] = "ended" /\ outer'[p] = "up"
      BY <1>2, <2>1 DEF TypeOK, PerSide
    <3> QED BY <3>1
  <2> QED BY <2>1
<1> QED BY <1>1, <1>2, <1>3 DEF Whole

LEMMA FlowSending ==
  ASSUME TypeOK, TypeOK', NEW d \in Ends, Sending(d), NEW e \in Ends, FlowAt(e)
  PROVE  FlowAt(e)'
<1>1. d[1] \in Sides /\ d[2] \in Channels /\ d = <<d[1], d[2]>> /\ e = <<e[1], e[2]>> /\ e[1] \in Sides
  BY EndFacts
<1>2. UNCHANGED <<setting, open, request, state, outer, inbox, taken, crediting>>
  BY DEF Sending, SendTakes, SendWaits, SendEmits, SendGivesUp, SendFails, openVars, recvVars, endVars, outerVars
<1>3. /\ Given(e)' = Given(e)
      /\ Whole(e)' => Whole(e)
      /\ Other(e[1])' = Other(e[1])
  BY <1>2 DEF Given, Window, Whole, Steady, Impatient, Stalling, Greedy, PerSide, Far, Other, Opener
<1>4. There(e)' = There(e)
  <2>1. CASE SendEmits(d)
    <3>1. PICK n \in Nat : Emit(d[1], Frame(d[2], n))
      BY <2>1, SMTT(30) DEF SendEmits, TypeOK
    <3>2. PICK g \in Notices : g = Frame(d[2], n) /\ g.kind = "frame" /\ Emit(d[1], g)
      BY <1>1, <3>1, NoticeTypes DEF Frame
    <3>3. Returning(e)' = Returning(e)
      BY <1>1, <3>2, EmitCounts
    <3> QED BY <1>2, <3>3, SameThere
  <2>2. CASE ~SendEmits(d)
    <3>1. queue' = queue
      BY <2>2 DEF Sending, SendTakes, SendWaits, SendGivesUp, SendFails
    <3> QED BY <1>2, <3>1, SameQueueCounts, SameThere
  <2> QED BY <2>1, <2>2
<1>5. CASE d # e
  <2>1. credit'[e] = credit[e]
    <3>1. ASSUME NEW n, credit' = [credit EXCEPT ![d] = n] PROVE credit'[e] = credit[e]
      BY <1>5, <3>1 DEF TypeOK
    <3>2. (\E n : credit' = [credit EXCEPT ![d] = n]) \/ credit' = credit
      BY DEF Sending, SendTakes, SendWaits, SendEmits, SendGivesUp, SendFails
    <3> QED BY <3>1, <3>2
  <2>2. sending'[e] = sending[e]
    <3>1. PICK s : sending' = [sending EXCEPT ![d] = s]
      BY DEF Sending, SendTakes, SendWaits, SendEmits, SendGivesUp, SendFails
    <3> QED BY <1>5, <3>1 DEF TypeOK
  <2>3. Frames(e)' = Frames(e)
    <3>1. CASE SendEmits(d)
      <4>1. PICK n \in Nat : Emit(d[1], Frame(d[2], n))
        BY <3>1, SMTT(30) DEF SendEmits, TypeOK
      <4>2. PICK g \in Notices : g = Frame(d[2], n) /\ g.channel = d[2] /\ Emit(d[1], g)
        BY <1>1, <4>1, NoticeTypes DEF Frame
      <4> QED BY <1>1, <1>5, <4>2, EmitCounts
    <3>2. CASE ~SendEmits(d)
      <4>1. queue' = queue
        BY <3>2 DEF Sending, SendTakes, SendWaits, SendGivesUp, SendFails
      <4> QED BY <4>1, SameQueueCounts
    <3> QED BY <3>1, <3>2
  <2> QED BY <1>2, <1>3, <1>4, <2>1, <2>2, <2>3, SameHere, FlowUnmoved
<1>6. CASE d = e /\ (SendWaits(e) \/ SendGivesUp(e))
  <2>1. /\ sending \in [Ends -> {"idle", "waiting", "emitting"}] /\ credit' = credit /\ queue' = queue
        /\ sending[e] = "idle" \/ sending[e] = "waiting"
        /\ sending' = [sending EXCEPT ![e] = "waiting"] \/ sending' = [sending EXCEPT ![e] = "idle"]
    BY <1>6 DEF SendWaits, SendGivesUp, MaySend, TypeOK
  <2>2. sending'[e] = "waiting" \/ sending'[e] = "idle"
    BY <2>1
  <2>3. Here(e)' = Here(e)
    BY <2>1, <2>2, SameQueueCounts, SameHere
  <2> QED BY <1>2, <1>3, <1>4, <2>3, FlowUnmoved
<1>7. CASE d = e /\ (SendTakes(e) \/ SendEmits(e) \/ SendFails(e))
  <2>1. /\ Emitting(e) \in Nat /\ Frames(e) \in Nat /\ credit[e] \in Nat
        /\ Here(e) = credit[e] + Emitting(e) + Frames(e)
        /\ Here(e)' = credit'[e] + Emitting(e)' + Frames(e)'
    BY SpentParts
  <2>2. /\ Here(e) \in Nat /\ There(e) \in Nat
        /\ Spent(e) = Here(e) + There(e) /\ Spent(e)' = Here(e)' + There(e)'
    BY SpentSum
  <2>3. CASE SendTakes(e)
    <3>1. CASE e[1] \in Greedy
      BY <1>2, <3>1 DEF FlowAt, Whole, Greedy
    <3>2. CASE e[1] \notin Greedy
      <4>1. /\ sending[e] = "idle" \/ sending[e] = "waiting"
            /\ sending' = [sending EXCEPT ![e] = "emitting"] /\ credit[e] > 0 /\ queue' = queue
        BY <2>3, <3>2 DEF SendTakes, MaySend
      <4>2. Emitting(e) = 0 /\ Emitting(e)' = 1
        <5>1. sending'[e] = "emitting"
          BY <4>1 DEF TypeOK
        <5> QED BY <4>1, <5>1 DEF Emitting
      <4>3. credit'[e] = credit[e] - 1
        BY <2>3, <4>1 DEF SendTakes, TypeOK
      <4>4. Frames(e)' = Frames(e)
        BY <4>1, SameQueueCounts
      <4>5. Here(e)' = Here(e)
        BY <2>1, <4>2, <4>3, <4>4
      <4> QED BY <1>2, <1>3, <1>4, <4>5, FlowUnmoved
    <3> QED BY <3>1, <3>2
  <2>4. CASE SendEmits(e)
    <3>1. PICK n \in Nat : Emit(e[1], Frame(e[2], n))
      BY <2>4 DEF SendEmits, TypeOK
    <3>2. PICK g \in Notices : g.kind = "frame" /\ g.channel = e[2] /\ Emit(e[1], g)
      BY <1>1, <1>7, <3>1, NoticeTypes DEF Frame
    <3>3. Frames(e)' = Frames(e) + 1
      BY <1>1, <3>2, EmitCounts
    <3>4. UNCHANGED credit /\ sending[e] = "emitting" /\ sending' = [sending EXCEPT ![e] = "idle"]
      BY <2>4 DEF SendEmits
    <3>5. Emitting(e) = 1 /\ Emitting(e)' = 0
      BY <3>4 DEF Emitting, TypeOK
    <3>6. Here(e)' = Here(e)
      BY <2>1, <3>3, <3>4, <3>5
    <3> QED BY <1>2, <1>3, <1>4, <3>6, FlowUnmoved
  <2>5. CASE SendFails(e)
    <3>1. sending[e] = "emitting" /\ sending'[e] = "idle" /\ credit' = credit /\ queue' = queue
      BY <2>5 DEF SendFails, TypeOK
    <3>2. Emitting(e) = 1 /\ Emitting(e)' = 0
      BY <3>1 DEF Emitting
    <3>3. Here(e)' = Here(e) - 1
      BY <2>1, <3>1, <3>2, SameQueueCounts
    <3>4. Spent(e)' <= Spent(e)
      BY <1>4, <2>2, <3>3
    <3>5. ~Whole(e)'
      <4>1. e[1] \in Impatient \/ outer[e[1]] # "up"
        BY <2>5 DEF SendFails
      <4> QED BY <1>1, <1>2, <4>1 DEF Whole, Steady, PerSide, Impatient, Stalling
    <3> QED BY <1>2, <1>3, <3>4, <3>5, FlowKept
  <2> QED BY <1>7, <2>3, <2>4, <2>5
<1> QED BY <1>5, <1>6, <1>7 DEF Sending

LEMMA FlowReceiving ==
  ASSUME TypeOK, TypeOK', NEW d \in Ends, Receiving(d), NEW e \in Ends, FlowAt(e)
  PROVE  FlowAt(e)'
<1>1. d[1] \in Sides /\ d[2] \in Channels /\ e[1] \in Sides
  BY EndFacts
<1>2. UNCHANGED <<setting, open, request, state, outer, credit, sending>>
  BY DEF Receiving, Receive, ReturnCredit, CreditLost, ReceiveEnd, openVars, sendVars, endVars, outerVars
<1>3. Given(e)' = Given(e) /\ (Whole(e)' => Whole(e))
  BY <1>2 DEF Given, Window, Whole, Steady, Impatient, Stalling, Greedy, PerSide, Far, Other, Opener
<1>4. PICK f \in Ends :
    /\ f = Far(e) /\ f[1] = Other(e[1]) /\ f[2] = e[2]
    /\ Returning(e) \in Nat /\ Len(inbox[f]) \in Nat /\ taken[f] \in Nat /\ crediting[f] \in Nat
    /\ There(e) = Len(inbox[f]) + taken[f] + crediting[f] + Returning(e)
    /\ There(e)' = Len(inbox'[f]) + taken'[f] + crediting'[f] + Returning(e)'
  BY SpentParts
<1>5. ASSUME There(e)' = There(e), Frames(e)' = Frames(e) PROVE FlowAt(e)'
  <2>1. Here(e)' = Here(e)
    BY <1>2, <1>5, SameHere
  <2> QED BY <1>2, <1>3, <1>5, <2>1, FlowUnmoved
<1>6. CASE Receive(d)
  <2>1. Frames(e)' = Frames(e) /\ Returning(e)' = Returning(e)
    BY <1>6, SameQueueCounts DEF Receive
  <2>2. /\ inbox[d] \in Seq(Nat) /\ inbox[d] # <<>> /\ crediting[d] = 0
        /\ inbox' = [inbox EXCEPT ![d] = Tail(inbox[d])]
        /\ \/ crediting' = [crediting EXCEPT ![d] = taken[d] + 1] /\ taken' = [taken EXCEPT ![d] = 0]
           \/ crediting' = crediting /\ taken' = [taken EXCEPT ![d] = taken[d] + 1]
    BY <1>6 DEF Receive, TypeOK
  <2>3. inbox \in [Ends -> Seq(Nat)] /\ taken \in [Ends -> Nat] /\ crediting \in [Ends -> Nat]
    BY DEF TypeOK
  <2>4. CASE d # f
    <3>1. inbox'[f] = inbox[f]
      BY <2>2, <2>3, <2>4
    <3>2. taken'[f] = taken[f] /\ crediting'[f] = crediting[f]
      BY <2>2, <2>3, <2>4
    <3>3. There(e)' = There(e)
      BY <1>4, <2>1, <3>1, <3>2
    <3> QED BY <1>5, <2>1, <3>3
  <2>5. CASE d = f
    <3>1. inbox'[f] = Tail(inbox[f]) /\ Len(Tail(inbox[f])) = Len(inbox[f]) - 1
      BY <2>2, <2>3, <2>5
    <3>2. \/ crediting'[f] = taken[f] + 1 /\ taken'[f] = 0
          \/ crediting'[f] = 0 /\ taken'[f] = taken[f] + 1
      BY <2>2, <2>3, <2>5
    <3>3. There(e)' = (Len(inbox[f]) - 1) + (taken[f] + 1) + Returning(e)
      BY <1>4, <2>1, <3>1, <3>2
    <3>4. There(e) = Len(inbox[f]) + taken[f] + Returning(e)
      BY <1>4, <2>2, <2>5
    <3>5. There(e)' = There(e)
      BY <1>4, <3>3, <3>4, SMTT(30)
    <3> QED BY <1>5, <2>1, <3>5
  <2> QED BY <2>4, <2>5
<1>7. CASE ReturnCredit(d)
  <2>1. /\ crediting[d] \in Nat /\ Emit(d[1], Credit(d[2], crediting[d]))
        /\ crediting' = [crediting EXCEPT ![d] = 0] /\ UNCHANGED <<inbox, taken>>
    BY <1>7 DEF ReturnCredit, TypeOK
  <2>2. PICK g \in Notices : /\ g.kind = "credit" /\ g.channel = d[2] /\ g.n = crediting[d]
                             /\ Emit(d[1], g)
    BY <1>1, <2>1, NoticeTypes DEF Credit
  <2>3. Frames(e)' = Frames(e)
    BY <1>1, <2>2, EmitCounts
  <2>4. CASE d # f
    <3>1. ~(d[1] = Other(e[1]) /\ d[2] = e[2])
      <4>1. d = <<d[1], d[2]>> /\ f = <<f[1], f[2]>>
        BY EndFacts
      <4> QED BY <1>4, <2>4, <4>1
    <3>2. Returning(e)' = Returning(e)
      BY <1>1, <2>2, <3>1, EmitCounts
    <3>3. crediting'[f] = crediting[f]
      BY <2>1, <2>4 DEF TypeOK
    <3>4. There(e)' = There(e)
      BY <1>4, <2>1, <3>2, <3>3
    <3> QED BY <1>5, <2>3, <3>4
  <2>5. CASE d = f
    <3>1. Returning(e)' = Returning(e) + crediting[f]
      BY <1>1, <1>4, <2>2, <2>5, EmitCounts
    <3>2. crediting'[f] = 0
      BY <2>1, <2>5 DEF TypeOK
    <3>3. There(e)' = There(e)
      BY <1>4, <2>1, <3>1, <3>2
    <3> QED BY <1>5, <2>3, <3>3
  <2> QED BY <2>4, <2>5
<1>8. CASE CreditLost(d)
  <2>1. Frames(e)' = Frames(e) /\ Returning(e)' = Returning(e)
    BY <1>8, SameQueueCounts DEF CreditLost
  <2>2. crediting' = [crediting EXCEPT ![d] = 0] /\ UNCHANGED <<inbox, taken>>
    BY <1>8 DEF CreditLost
  <2>3. ~Whole(e)'
    <3>1. outer[d[1]] # "up" \/ d[1] \in Stalling
      BY <1>8 DEF CreditLost, EmitFails
    <3> QED BY <1>1, <1>2, <3>1 DEF Whole, Steady, PerSide, Impatient, Stalling
  <2>4. crediting'[f] <= crediting[f] /\ crediting'[f] \in Nat
    BY <1>4, <2>2 DEF TypeOK
  <2>5. There(e)' <= There(e)
    BY <1>4, <2>1, <2>2, <2>4
  <2>6. Here(e)' = Here(e)
    BY <1>2, <2>1, SameHere
  <2>7. Spent(e)' <= Spent(e)
    BY <2>5, <2>6, SpentSum
  <2> QED BY <1>2, <1>3, <2>3, <2>7, FlowKept
<1>9. CASE ReceiveEnd(d)
  <2>1. UNCHANGED <<queue, inbox, taken, crediting>>
    BY <1>9 DEF ReceiveEnd
  <2>2. Frames(e)' = Frames(e) /\ There(e)' = There(e)
    BY <2>1, SameQueueCounts, SameThere
  <2> QED BY <1>5, <2>2
<1> QED BY <1>6, <1>7, <1>8, <1>9 DEF Receiving

\* Ending an end opens none and ends the one.
LEMMA EndingEnds ==
  ASSUME TypeOK, NEW e \in Ends, NEW how \in {"closed", "remote", "gone", "refused", "overrun"},
         EndAs(e, how)
  PROVE  /\ state'[e] # "open"
         /\ \A d \in Ends : d # e => state'[d] = state[d]
         /\ \A d \in Ends : state'[d] = "open" => state[d] = "open"
         /\ \A d \in Ends : state'[d] = "absent" <=> state[d] = "absent"
         /\ state[e] = "open" => state'[e] = how
         /\ state[e] # "open" => state'[e] = state[e]
<1>1. \A d \in Ends : state'[d] = IF d = e THEN (IF state[e] = "open" THEN how ELSE state[e]) ELSE state[d]
  BY DEF EndAs, TypeOK
<1> QED BY <1>1

LEMMA FlowOnFrame ==
  ASSUME TypeOK, TypeOK', TableInv, NEW p \in Sides, OnFrame(p), NEW e \in Ends, FlowAt(e)
  PROVE  FlowAt(e)'
<1>1. /\ queue[Other(p)] # <<>> /\ Consume(p) /\ Arrived(p).kind = "frame"
      /\ UNCHANGED <<setting, open, request, outer, credit, sending, taken, crediting>>
  BY DEF OnFrame, Arrives, Arrived, sendVars, outerVars
<1>2. PICK d \in Ends : d = <<p, Arrived(p).channel>> /\ d[1] = p /\ d[2] = Arrived(p).channel
  <2>1. Arrived(p).channel \in Channels
    BY <1>1, ConsumeTypes
  <2> QED BY <2>1, EndOf, ZenonT(60)
<1>3. \/ d[2] \notin table[p] /\ UNCHANGED <<inbox, state>>
      \/ inbox' = [inbox EXCEPT ![d] = Append(@, Arrived(p).n)] /\ UNCHANGED state
      \/ inbox' = inbox /\ \E how \in {"refused", "overrun"} : EndAs(d, how)
  BY <1>2 DEF OnFrame
<1>4. \A x \in Ends : state'[x] = "open" => state[x] = "open"
  <2>1. ASSUME NEW how \in {"refused", "overrun"}, EndAs(d, how)
        PROVE  \A x \in Ends : state'[x] = "open" => state[x] = "open"
    <3>1. how \in {"closed", "remote", "gone", "refused", "overrun"}
      OBVIOUS
    <3> QED BY <2>1, <3>1, EndingEnds
  <2> QED BY <1>3, <2>1
<1>5. Given(e)' = Given(e) /\ (Whole(e)' => Whole(e))
  BY <1>1, <1>4, WholeBefore DEF Given, Window, Opener
<1>6. PICK f \in Ends :
    /\ f = Far(e) /\ Far(e)' = f /\ f[1] = Other(e[1]) /\ f[2] = e[2]
    /\ Emitting(e) \in Nat /\ Frames(e) \in Nat /\ credit[e] \in Nat
    /\ Returning(e) \in Nat /\ Len(inbox[f]) \in Nat /\ taken[f] \in Nat /\ crediting[f] \in Nat
    /\ Here(e) = credit[e] + Emitting(e) + Frames(e)
    /\ There(e) = Len(inbox[f]) + taken[f] + crediting[f] + Returning(e)
    /\ Here(e)' = credit'[e] + Emitting(e)' + Frames(e)'
    /\ There(e)' = Len(inbox'[f]) + taken'[f] + crediting'[f] + Returning(e)'
  BY SpentParts
<1>7. /\ Returning(e)' = Returning(e) /\ Emitting(e)' = Emitting(e)
      /\ credit'[e] = credit[e] /\ taken'[f] = taken[f] /\ crediting'[f] = crediting[f]
  BY <1>1, ConsumeCounts DEF Emitting
<1>8. d = f <=> (Other(p) = e[1] /\ Arrived(p).channel = e[2])
  <2>1. d = <<d[1], d[2]>> /\ f = <<f[1], f[2]>> /\ e[1] \in Sides
    BY EndFacts
  <2> QED BY <1>2, <1>6, <2>1, SideFacts
<1>9. inbox \in [Ends -> Seq(Nat)]
  BY DEF TypeOK
<1>10. CASE d # f
  <2>1. inbox'[f] = inbox[f]
    BY <1>3, <1>9, <1>10
  <2>2. Frames(e)' = Frames(e)
    BY <1>1, <1>8, <1>10, ConsumeCounts
  <2>3. Here(e)' = Here(e) /\ There(e)' = There(e)
    BY <1>1, <1>6, <1>7, <2>1, <2>2
  <2> QED BY <1>1, <1>5, <2>3, FlowUnmoved
<1>11. CASE d = f
  <2>1. Frames(e)' = Frames(e) - 1
    BY <1>1, <1>8, <1>11, ConsumeCounts
  <2>2. Here(e)' = Here(e) - 1
    <3>1. PICK a \in Nat, m \in Nat, k \in Nat : a = credit[e] /\ m = Emitting(e) /\ k = Frames(e)
      BY <1>6
    <3>2. Here(e) = a + m + k /\ Here(e)' = a + m + (k - 1)
      BY <1>6, <1>7, <2>1, <3>1
    <3> QED BY <3>2
  <2>3. CASE inbox' = [inbox EXCEPT ![d] = Append(@, Arrived(p).n)]
    <3>1. Len(inbox'[f]) = Len(inbox[f]) + 1
      BY <1>9, <1>11, <2>3
    <3>2. There(e)' = There(e) + 1
      <4>1. PICK a \in Nat, m \in Nat, k \in Nat, l \in Nat :
              a = Len(inbox[f]) /\ m = taken[f] /\ k = crediting[f] /\ l = Returning(e)
        BY <1>6
      <4>2. There(e) = a + m + k + l /\ There(e)' = (a + 1) + m + k + l
        BY <1>6, <1>7, <3>1, <4>1
      <4> QED BY <4>2
    <3>3. Spent(e)' = Spent(e) /\ Spent(e)' <= Spent(e)
      BY <2>2, <3>2, SpentSum
    <3> QED BY <1>1, <1>5, <3>3, FlowKept
  <2>4. CASE inbox' = inbox /\ state'[f] # "open"
    <3>1. There(e)' = There(e)
      BY <1>1, <1>6, <1>7, <2>4
    <3>2. Spent(e)' <= Spent(e)
      BY <2>2, <3>1, SpentSum
    <3>3. ~Whole(e)'
      BY <1>6, <2>4 DEF Whole
    <3> QED BY <1>1, <1>5, <3>2, <3>3, FlowKept
  <2>5. CASE d[2] \notin table[p] /\ UNCHANGED <<inbox, state>>
    <3>1. state'[f] # "open"
      BY <1>2, <1>11, <2>5 DEF TableInv
    <3> QED BY <2>4, <2>5, <3>1
  <2>6. CASE inbox' = inbox /\ \E how \in {"refused", "overrun"} : EndAs(d, how)
    <3>1. PICK how \in {"closed", "remote", "gone", "refused", "overrun"} : EndAs(d, how)
      BY <2>6
    <3>2. state'[f] # "open"
      BY <1>11, <3>1, EndingEnds
    <3> QED BY <2>4, <2>6, <3>2
  <2> QED BY <1>3, <2>3, <2>5, <2>6
<1> QED BY <1>10, <1>11

LEMMA FlowOnCredit ==
  ASSUME TypeOK, TypeOK', TableInv, NEW p \in Sides, OnCredit(p), NEW e \in Ends, FlowAt(e)
  PROVE  FlowAt(e)'
<1>1. /\ queue[Other(p)] # <<>> /\ Consume(p) /\ Arrived(p).kind = "credit"
      /\ UNCHANGED <<setting, open, request, state, outer, sending, inbox, taken, crediting>>
  BY DEF OnCredit, Arrives, Arrived, openVars, recvVars, endVars, outerVars
<1>2. PICK d \in Ends : d = <<p, Arrived(p).channel>> /\ d[1] = p /\ d[2] = Arrived(p).channel
  <2>1. Arrived(p).channel \in Channels
    BY <1>1, ConsumeTypes
  <2> QED BY <2>1, EndOf, ZenonT(60)
<1>3. PICK n \in Nat : n = Arrived(p).n
  BY <1>1, ConsumeTypes
<1>4. credit' = [credit EXCEPT ![d] = IF d[2] \in table[p] THEN credit[d] + n ELSE credit[d]]
  BY <1>2, <1>3 DEF OnCredit
<1>5. Given(e)' = Given(e) /\ (Whole(e)' => Whole(e))
  BY <1>1, WholeBefore DEF Given, Window, Opener
<1>6. PICK f \in Ends :
    /\ f = Far(e) /\ Far(e)' = f
    /\ Emitting(e) \in Nat /\ Frames(e) \in Nat /\ credit[e] \in Nat
    /\ Returning(e) \in Nat /\ Len(inbox[f]) \in Nat /\ taken[f] \in Nat /\ crediting[f] \in Nat
    /\ Here(e) = credit[e] + Emitting(e) + Frames(e)
    /\ There(e) = Len(inbox[f]) + taken[f] + crediting[f] + Returning(e)
    /\ Here(e)' = credit'[e] + Emitting(e)' + Frames(e)'
    /\ There(e)' = Len(inbox'[f]) + taken'[f] + crediting'[f] + Returning(e)'
  BY SpentParts
<1>7. Frames(e)' = Frames(e) /\ Emitting(e)' = Emitting(e)
  BY <1>1, ConsumeCounts DEF Emitting
<1>8. d = e <=> (p = e[1] /\ Arrived(p).channel = e[2])
  <2>1. d = <<d[1], d[2]>> /\ e = <<e[1], e[2]>>
    BY EndFacts
  <2> QED BY <1>2, <2>1
<1>9. CASE d # e
  <2>1. credit'[e] = credit[e]
    BY <1>4, <1>9 DEF TypeOK
  <2>2. Returning(e)' = Returning(e)
    BY <1>1, <1>8, <1>9, ConsumeCounts
  <2>3. Here(e)' = Here(e) /\ There(e)' = There(e)
    BY <1>1, <1>6, <1>7, <2>1, <2>2
  <2> QED BY <1>1, <1>5, <2>3, FlowUnmoved
<1>10. CASE d = e
  <2>1. Returning(e)' = Returning(e) - n
    BY <1>1, <1>3, <1>8, <1>10, ConsumeCounts
  <2>2. There(e)' = There(e) - n
    BY <1>1, <1>6, <1>7, <2>1, SMTT(30)
  <2>3. CASE d[2] \in table[p]
    <3>1. credit'[e] = credit[e] + n
      BY <1>4, <1>10, <2>3 DEF TypeOK
    <3>2. Here(e)' = Here(e) + n
      BY <1>6, <1>7, <3>1
    <3>3. Spent(e)' = Spent(e) /\ Spent(e)' <= Spent(e)
      BY <2>2, <3>2, SpentSum
    <3> QED BY <1>1, <1>5, <3>3, FlowKept
  <2>4. CASE d[2] \notin table[p]
    <3>1. credit'[e] = credit[e]
      BY <1>4, <1>10, <2>4 DEF TypeOK
    <3>2. Here(e)' = Here(e)
      BY <1>6, <1>7, <3>1
    <3>3. Spent(e)' <= Spent(e)
      BY <2>2, <3>2, SpentSum
    <3>4. state'[e] # "open"
      BY <1>1, <1>2, <1>10, <2>4 DEF TableInv
    <3>5. ~Whole(e)'
      BY <3>4 DEF Whole
    <3> QED BY <1>1, <1>5, <3>3, <3>5, FlowKept
  <2> QED BY <2>3, <2>4
<1> QED BY <1>9, <1>10

LEMMA FlowClosing ==
  ASSUME TypeOK, TypeOK', NEW e \in Ends, FlowAt(e),
         \/ \E p \in Sides : OnClose(p) \/ Tell(p) \/ Taking(p) \/ OuterEnd(p) \/ Watch(p)
         \/ \E d \in Ends : Close(d) \/ CloseTold(d)
  PROVE  FlowAt(e)'
<1>1. /\ UNCHANGED <<setting, open, request, credit, sending, inbox, taken, crediting>>
      /\ outer' = outer \/ \E p \in Sides : outer' = [outer EXCEPT ![p] = "ended"]
  BY DEF OnClose, Tell, Taking, Accept, Resolve, OuterEnd, Watch, Close, CloseTold,
     openVars, sendVars, recvVars, outerVars
<1>2. \A x \in Ends : state'[x] = "open" => state[x] = "open"
  <2>1. CASE \E d \in Ends, how \in {"closed", "remote"} : EndAs(d, how)
    <3>1. PICK d \in Ends, how \in {"closed", "remote", "gone", "refused", "overrun"} : EndAs(d, how)
      BY <2>1
    <3> QED BY <3>1, EndingEnds
  <2>2. CASE state' = state
    BY <2>2
  <2>3. CASE \E p \in Sides : Watch(p)
    BY <2>3 DEF Watch
  <2>4. ASSUME NEW p \in Sides, OnClose(p)
        PROVE  state' = state \/ \E d \in Ends : EndAs(d, "remote")
    <3>1. queue[Other(p)] # <<>> /\ Consume(p)
      BY <2>4 DEF OnClose, Arrives
    <3>2. <<p, Arrived(p).channel>> \in Ends
      BY <3>1, ConsumeTypes, EndOf
    <3> QED BY <2>4, <3>2 DEF OnClose
  <2>5. ASSUME NEW d \in Ends, Close(d) PROVE EndAs(d, "closed")
    BY <2>5 DEF Close
  <2>6. \/ state' = state
        \/ \E p \in Sides : Watch(p) \/ OnClose(p)
        \/ \E d \in Ends : Close(d)
    BY DEF Tell, Taking, Accept, Resolve, OuterEnd, CloseTold, endVars
  <2> QED BY <2>1, <2>2, <2>3, <2>4, <2>5, <2>6
<1>3. Given(e)' = Given(e) /\ (Whole(e)' => Whole(e))
  BY <1>1, <1>2, WholeBefore DEF Given, Window, Opener
<1>4. Frames(e)' = Frames(e) /\ Returning(e)' = Returning(e)
  <2>1. CASE queue' = queue
    BY <2>1, SameQueueCounts
  <2>2. ASSUME NEW p \in Sides, NEW c \in Channels, Emit(p, CloseNotice(c))
        PROVE  Frames(e)' = Frames(e) /\ Returning(e)' = Returning(e)
    <3>1. PICK g \in Notices : g.kind = "close" /\ Emit(p, g)
      BY <2>2, NoticeTypes DEF CloseNotice
    <3> QED BY <3>1, EmitCounts
  <2>3. ASSUME NEW p \in Sides, OnClose(p)
        PROVE  Frames(e)' = Frames(e) /\ Returning(e)' = Returning(e)
    BY <2>3, ConsumeCounts DEF OnClose, Arrives, Arrived
  <2>4. ASSUME NEW p \in Sides, Tell(p)
        PROVE  queue' = queue \/ \E c \in Channels : Emit(p, CloseNotice(c))
    BY <2>4 DEF Tell, TypeOK
  <2>5. ASSUME NEW d \in Ends, CloseTold(d)
        PROVE  queue' = queue \/ (d[1] \in Sides /\ d[2] \in Channels /\ Emit(d[1], CloseNotice(d[2])))
    BY <2>5, EndFacts DEF CloseTold
  <2>6. \/ queue' = queue
        \/ \E p \in Sides : OnClose(p) \/ Tell(p)
        \/ \E d \in Ends : CloseTold(d)
    BY DEF Taking, Accept, Resolve, OuterEnd, Watch, Close
  <2> QED BY <2>1, <2>2, <2>3, <2>4, <2>5, <2>6
<1>5. Here(e)' = Here(e) /\ There(e)' = There(e)
  BY <1>1, <1>4, SameHere, SameThere
<1> QED BY <1>1, <1>3, <1>5, FlowUnmoved

LEMMA FlowOpening ==
  ASSUME TypeOK, TypeOK', TableInv, NEW c \in Channels, Opening(c), NEW e \in Ends, FlowAt(e)
  PROVE  FlowAt(e)'
<1>1. Opener(c) \in Sides /\ Acceptor(c) \in Sides /\ Acceptor(c) # Opener(c)
  BY SideFacts
<1>2. UNCHANGED <<setting, sending, inbox, taken, crediting, queue, outer>>
  BY DEF Opening, OpenCall, OpenReceived, Admit, OpenReturns, OpenFails, sendVars, recvVars, endVars, outerVars
<1>3. PICK f \in Ends : f = Far(e) /\ f[1] = Other(e[1]) /\ f[2] = e[2] /\ Far(e)' = f /\ f # e
  BY SpentParts
<1>4. PICK o \in Ends : o = <<Opener(c), c>> /\ o[1] = Opener(c) /\ o[2] = c
  BY <1>1, EndOf
<1>5. PICK a \in Ends : a = <<Acceptor(c), c>> /\ a[1] = Acceptor(c) /\ a[2] = c
  BY <1>1, EndOf
<1>6. \A d \in Ends : d[1] \in Sides /\ d[2] \in Channels /\ d = <<d[1], d[2]>>
  BY EndFacts
<1>7. \A d \in Ends : /\ (d = o) <=> (d[1] = Opener(c) /\ d[2] = c)
                      /\ (d = a) <=> (d[1] # Opener(c) /\ d[2] = c)
  <2>1. \A d \in Ends : d[1] # Opener(c) <=> d[1] = Acceptor(c)
    BY <1>1, <1>6 DEF Sides
  <2> QED BY <1>4, <1>5, <1>6, <2>1
<1>8. Frames(e)' = Frames(e) /\ There(e)' = There(e)
  BY <1>2, SameQueueCounts, SameThere
<1>9. credit'[e] = credit[e] => Here(e)' = Here(e)
  BY <1>2, <1>8, SameHere
<1>10. Window' = Window
  BY <1>2 DEF Window
<1>11. CASE OpenCall(c)
  <2>1. /\ open[c] = "none" /\ request[c] = "none" /\ credit' = credit
        /\ open' = [open EXCEPT ![c] = "calling"] /\ state' = [state EXCEPT ![o] = "open"]
    BY <1>4, <1>11 DEF OpenCall, TableInv, sendVars
  <2>2. request'[c] # "admitted" /\ \A b \in Channels : b # c => request'[b] = request[b]
    BY <1>11 DEF OpenCall, TypeOK
  <2>3. Given(e)' = Given(e)
    <3>1. (open'[e[2]] = "opened" <=> open[e[2]] = "opened") /\ (request'[e[2]] = "admitted" <=> request[e[2]] = "admitted")
      BY <1>6, <2>1, <2>2 DEF TypeOK
    <3>2. Opener(e[2])' = Opener(e[2])
      BY DEF Opener
    <3> QED BY <1>10, <3>1, <3>2 DEF Given
  <2>4. Whole(e)' => Whole(e)
    <3>1. CASE e[2] = c
      <4>1. state[a] = "absent"
        BY <1>1, <1>5, <2>1 DEF TableInv
      <4>2. state'[a] = "absent"
        BY <1>1, <1>4, <1>5, <2>1, <4>1 DEF TypeOK
      <4>3. e = a \/ f = a
        <5>1. e[1] # f[1] /\ e[1] \in Sides /\ f[1] \in Sides
          BY <1>3, <1>6, SideFacts
        <5> QED BY <1>1, <1>3, <1>7, <3>1, <5>1 DEF Sides
      <4> QED BY <1>3, <4>2, <4>3 DEF Whole
    <3>2. CASE e[2] # c
      <4>2. e # o /\ f # o
        BY <1>3, <1>4, <3>2
      <4>1. state'[e] = state[e] /\ state'[f] = state[f]
        BY <2>1, <4>2 DEF TypeOK
      <4> QED BY <1>2, <1>3, <4>1 DEF Whole, Steady, Impatient, Stalling, Greedy, PerSide
    <3> QED BY <3>1, <3>2
  <2> QED BY <1>2, <1>8, <1>9, <2>1, <2>3, <2>4, FlowUnmoved
<1>12. CASE OpenReceived(c)
  <2>1. /\ request[c] = "asked" /\ request' = [request EXCEPT ![c] = "handling"]
        /\ UNCHANGED <<open, state, credit>>
    BY <1>12 DEF OpenReceived, endVars, sendVars
  <2>2. Given(e)' = Given(e)
    <3>1. request'[e[2]] = "admitted" <=> request[e[2]] = "admitted"
      BY <1>6, <2>1 DEF TypeOK
    <3> QED BY <1>10, <2>1, <3>1 DEF Given, Opener
  <2>3. Whole(e)' => Whole(e)
    BY <1>2, <1>3, <2>1, WholeBefore
  <2> QED BY <1>2, <1>8, <1>9, <2>1, <2>2, <2>3, FlowUnmoved
<1>13. CASE Admit(c)
  <2>1. request[c] = "handling" /\ open' = open
    BY <1>13 DEF Admit
  <2>2. CASE Refuses(c)
    <3>1. request' = [request EXCEPT ![c] = "refused"] /\ UNCHANGED <<state, credit>>
      BY <1>13, <2>2 DEF Admit
    <3>2. Given(e)' = Given(e)
      <4>1. request'[e[2]] = "admitted" <=> request[e[2]] = "admitted"
        BY <1>6, <2>1, <3>1 DEF TypeOK
      <4> QED BY <1>10, <2>1, <4>1 DEF Given, Opener
    <3>3. Whole(e)' => Whole(e)
      BY <1>2, <3>1, WholeBefore
    <3> QED BY <1>2, <1>8, <1>9, <3>1, <3>2, <3>3, FlowUnmoved
  <2>3. CASE ~Refuses(c)
    <3>1. /\ request' = [request EXCEPT ![c] = "admitted"]
          /\ state' = [state EXCEPT ![a] = "open"]
          /\ credit' = [credit EXCEPT ![a] = Window]
      BY <1>5, <1>13, <2>3 DEF Admit
    <3>2. CASE e = a
      <4>1. Given(e) = 0 /\ Given(e)' = Window
        <5>1. e[1] # Opener(e[2]) /\ e[2] = c /\ Opener(e[2])' = Opener(e[2])
          BY <1>1, <1>5, <3>2 DEF Opener
        <5>2. request'[c] = "admitted" /\ request[c] # "admitted"
          BY <2>1, <3>1 DEF TypeOK
        <5> QED BY <1>10, <5>1, <5>2 DEF Given
      <4>2. CASE e[1] \in Greedy
        BY <1>2, <4>2 DEF FlowAt, Whole, Greedy
      <4>3. CASE e[1] \notin Greedy
        <5>1. Here(e) = 0 /\ There(e) = 0
          BY <4>1, <4>3, SpentSum DEF FlowAt
        <5>2. /\ Emitting(e) \in Nat /\ Frames(e) \in Nat /\ credit[e] \in Nat
              /\ Here(e) = credit[e] + Emitting(e) + Frames(e)
              /\ Here(e)' = credit'[e] + Emitting(e)' + Frames(e)'
          BY SpentParts
        <5>3. Emitting(e) = 0 /\ Frames(e) = 0 /\ Emitting(e)' = Emitting(e)
          BY <1>2, <5>1, <5>2 DEF Emitting
        <5>4. credit'[e] = Window /\ Window \in Nat
          BY <3>1, <3>2, WindowType DEF TypeOK
        <5>5. Here(e)' = Window
          BY <1>8, <5>2, <5>3, <5>4
        <5>6. Spent(e)' = Given(e)' /\ Given(e)' \in Nat
          BY <1>8, <4>1, <5>1, <5>4, <5>5, SpentSum
        <5> QED BY <5>6 DEF FlowAt
      <4> QED BY <4>2, <4>3
    <3>3. CASE e = o
      <4>1. Given(e) = 0 /\ Given(e)' = Given(e)
        <5>1. open[c] # "opened" /\ e[1] = Opener(e[2]) /\ e[2] = c /\ Opener(e[2])' = Opener(e[2])
          BY <1>4, <2>1, <3>3 DEF TableInv, Opener
        <5> QED BY <2>1, <5>1 DEF Given
      <4>2. credit'[e] = credit[e]
        BY <1>1, <1>4, <1>5, <3>1, <3>3 DEF TypeOK
      <4>3. Spent(e)' = Spent(e) /\ Spent(e) \in Nat
        BY <1>8, <1>9, <4>2, SpentSum
      <4>4. Greedy' = Greedy
        BY <1>2 DEF Greedy
      <4> QED BY <4>1, <4>3, <4>4 DEF FlowAt, Whole
    <3>4. CASE e # a /\ e # o
      <4>1. e[2] # c
        BY <1>7, <3>4
      <4>5. e # a /\ f # a
        BY <1>3, <1>5, <4>1
      <4>6. state'[e] = state[e] /\ state'[f] = state[f]
        BY <3>1, <4>5 DEF TypeOK
      <4>7. credit'[e] = credit[e]
        BY <3>1, <4>5 DEF TypeOK
      <4>2. credit'[e] = credit[e] /\ state'[e] = state[e] /\ state'[f] = state[f]
        BY <4>6, <4>7
      <4>3. Given(e)' = Given(e)
        <5>1. request'[e[2]] = request[e[2]]
          BY <1>6, <3>1, <4>1 DEF TypeOK
        <5> QED BY <1>10, <2>1, <5>1 DEF Given, Opener
      <4>4. Whole(e)' => Whole(e)
        BY <1>2, <1>3, <4>2 DEF Whole, Steady, Impatient, Stalling, Greedy, PerSide
      <4> QED BY <1>2, <1>8, <1>9, <4>2, <4>3, <4>4, FlowUnmoved
    <3> QED BY <3>2, <3>3, <3>4
  <2> QED BY <2>2, <2>3
<1>14. CASE OpenReturns(c)
  <2>1. /\ open[c] = "calling" /\ open' = [open EXCEPT ![c] = "opened"]
        /\ credit' = [credit EXCEPT ![o] = credit[o] + Window]
        /\ UNCHANGED <<request, state>>
    BY <1>4, <1>14 DEF OpenReturns, endVars
  <2>2. Whole(e)' => Whole(e)
    BY <1>2, <2>1, WholeBefore
  <2>3. CASE e = o
    <3>1. Given(e) = 0 /\ Given(e)' = Window
      <4>1. e[1] = Opener(e[2]) /\ e[2] = c /\ Opener(e[2])' = Opener(e[2])
        BY <1>4, <2>3 DEF Opener
      <4>2. open'[c] = "opened" /\ open[c] # "opened"
        BY <2>1 DEF TypeOK
      <4> QED BY <1>10, <4>1, <4>2 DEF Given
    <3>2. CASE e[1] \in Greedy
      BY <1>2, <3>2 DEF FlowAt, Whole, Greedy
    <3>3. CASE e[1] \notin Greedy
      <4>1. /\ Emitting(e) \in Nat /\ Frames(e) \in Nat /\ credit[e] \in Nat
            /\ Here(e) = credit[e] + Emitting(e) + Frames(e)
            /\ Here(e)' = credit'[e] + Emitting(e)' + Frames(e)'
        BY SpentParts
      <4>2. Here(e) = 0 /\ There(e) = 0
        BY <3>1, <3>3, SpentSum DEF FlowAt
      <4>3. credit[e] = 0 /\ Emitting(e) = 0 /\ Frames(e) = 0 /\ Emitting(e)' = Emitting(e)
        BY <1>2, <4>1, <4>2 DEF Emitting
      <4>4. credit'[e] = Window /\ Window \in Nat
        <5>1. credit'[o] = credit[o] + Window
          BY <2>1 DEF TypeOK
        <5> QED BY <2>3, <4>3, <5>1, WindowType
      <4>5. Here(e)' = Window
        BY <1>8, <4>1, <4>3, <4>4
      <4>6. Spent(e)' = Given(e)' /\ Given(e)' \in Nat
        BY <1>8, <3>1, <4>2, <4>4, <4>5, SpentSum
      <4> QED BY <4>6 DEF FlowAt
    <3> QED BY <3>2, <3>3
  <2>4. CASE e # o
    <3>1. credit'[e] = credit[e]
      BY <2>1, <2>4 DEF TypeOK
    <3>2. Given(e)' = Given(e)
      <4>1. e[1] = Opener(e[2]) => e[2] # c
        BY <1>7, <2>4
      <4>2. e[2] # c => open'[e[2]] = open[e[2]]
        BY <1>6, <2>1 DEF TypeOK
      <4> QED BY <1>10, <2>1, <4>1, <4>2 DEF Given, Opener
    <3> QED BY <1>2, <1>8, <1>9, <2>2, <3>1, <3>2, FlowUnmoved
  <2> QED BY <2>3, <2>4
<1>15. CASE OpenFails(c)
  <2>1. /\ open[c] = "calling" /\ open' = [open EXCEPT ![c] = "failed"]
        /\ EndAs(o, "closed") /\ UNCHANGED <<request, credit>>
    BY <1>4, <1>15 DEF OpenFails, sendVars
  <2>2. \A d \in Ends : state'[d] = "open" => state[d] = "open"
    BY <2>1 DEF EndAs, TypeOK
  <2>3. Whole(e)' => Whole(e)
    BY <1>2, <2>2, WholeBefore
  <2>4. Given(e)' = Given(e)
    <3>1. open'[e[2]] = "opened" <=> open[e[2]] = "opened"
      BY <1>6, <2>1 DEF TypeOK
    <3> QED BY <1>10, <2>1, <3>1 DEF Given, Opener
  <2> QED BY <1>2, <1>8, <1>9, <2>1, <2>3, <2>4, FlowUnmoved
<1> QED BY <1>11, <1>12, <1>13, <1>14, <1>15 DEF Opening

LEMMA FlowStep ==
  ASSUME TypeOK, TypeOK', TableInv, FlowInv, [Next]_vars
  PROVE  FlowInv'
<1> SUFFICES ASSUME NEW e \in Ends PROVE FlowAt(e)'
  BY DEF FlowInv
<1>1. FlowAt(e)
  BY DEF FlowInv
<1>2. ASSUME NEW c \in Channels, Opening(c) PROVE FlowAt(e)'
  BY <1>1, <1>2, FlowOpening
<1>3. ASSUME NEW d \in Ends, Sending(d) \/ Receiving(d) \/ Close(d) \/ CloseTold(d) PROVE FlowAt(e)'
  BY <1>1, <1>3, FlowSending, FlowReceiving, FlowClosing
<1>4. ASSUME NEW p \in Sides, Taking(p) \/ Eventing(p) \/ OuterEnd(p) \/ Watch(p) PROVE FlowAt(e)'
  BY <1>1, <1>4, FlowOnFrame, FlowOnCredit, FlowClosing DEF Eventing
<1>5. CASE UNCHANGED vars
  <2>1. UNCHANGED <<setting, open, request, credit, sending, inbox, taken, crediting, queue, outer, state>>
    BY <1>5 DEF vars, openVars, sendVars, recvVars, endVars, outerVars
  <2>2. Frames(e)' = Frames(e) /\ Here(e)' = Here(e) /\ There(e)' = There(e)
    BY <2>1, SameQueueCounts, SameHere, SameThere
  <2>3. Given(e)' = Given(e) /\ (Whole(e)' => Whole(e))
    BY <2>1, WholeBefore DEF Given, Window, Opener
  <2> QED BY <1>1, <2>1, <2>2, <2>3, FlowUnmoved
<1> QED BY <1>2, <1>3, <1>4, <1>5 DEF Next

-----------------------------------------------------------------------------
(* The order of what is queued.  Frames of a channel are numbered without  *)
(* a gap, and its close stands behind those sent before it.                *)

IsFrame(f, c) == f.kind = "frame" /\ f.channel = c /\ f.n # 0
IsClose(f, c) == f.kind = "close" /\ f.channel = c
HasClose(q, c) == \E i \in 1 .. Len(q) : IsClose(q[i], c)

InOrder(q, c, lo, hi) ==
  /\ lo <= hi
  /\ \A i \in 1 .. Len(q) : IsFrame(q[i], c) => lo < q[i].n /\ q[i].n <= hi
  /\ \A k \in lo + 1 .. hi : \E i \in 1 .. Len(q) : IsFrame(q[i], c) /\ q[i].n = k
  /\ \A i, j \in 1 .. Len(q) : i < j /\ IsFrame(q[i], c) /\ IsFrame(q[j], c) => q[i].n < q[j].n

\* No frame is numbered above h, and a close is the only one, behind the frames
\* up to l and ahead of the others.
CloseOrder(q, c, l, h) ==
  /\ \A j \in 1 .. Len(q) : IsFrame(q[j], c) => q[j].n <= h
  /\ \A i, j \in 1 .. Len(q) : IsClose(q[i], c) =>
       /\ IsClose(q[j], c) => j = i
       /\ IsFrame(q[j], c) => IF j < i THEN q[j].n <= l ELSE q[j].n > l

LEMMA NoticesAt ==
  ASSUME NEW q \in Seq(Notices)
  PROVE  \A i \in 1 .. Len(q) : q[i].n \in Nat
<1> SUFFICES ASSUME NEW i \in 1 .. Len(q) PROVE q[i].n \in Nat
  OBVIOUS
<1>1. q[i] \in Notices
  OBVIOUS
<1> QED BY <1>1 DEF Notices

LEMMA OrderBehind ==
  ASSUME NEW q \in Seq(Notices), NEW f \in Notices, NEW c, NEW lo \in Nat, NEW hi \in Nat,
         InOrder(q, c, lo, hi)
  PROVE  /\ IsFrame(f, c) /\ f.n = hi + 1 => InOrder(Append(q, f), c, lo, hi + 1)
         /\ ~IsFrame(f, c) => InOrder(Append(q, f), c, lo, hi)
<1> DEFINE t == Append(q, f)
<1>1. /\ Len(q) \in Nat /\ Len(t) = Len(q) + 1 /\ t[Len(q) + 1] = f
      /\ \A i \in 1 .. Len(q) : t[i] = q[i]
  BY AppendParts
<1> HIDE DEF t
<1>2. \A i : i \in 1 .. Len(t) <=> i \in 1 .. Len(q) \/ i = Len(q) + 1
  BY <1>1
<1>3. \A i \in 1 .. Len(q) : q[i].n \in Nat
  BY NoticesAt
<1>4. ASSUME IsFrame(f, c), f.n = hi + 1 PROVE InOrder(t, c, lo, hi + 1)
  <2>1. \A i \in 1 .. Len(t) : IsFrame(t[i], c) => lo < t[i].n /\ t[i].n <= hi + 1
    BY <1>1, <1>2, <1>3, <1>4 DEF InOrder
  <2>2. ASSUME NEW k \in lo + 1 .. hi + 1
        PROVE  \E i \in 1 .. Len(t) : IsFrame(t[i], c) /\ t[i].n = k
    <3>1. CASE k = hi + 1
      BY <1>1, <1>2, <1>4, <3>1
    <3>2. CASE k # hi + 1
      <4>1. k \in lo + 1 .. hi
        BY <3>2
      <4>2. PICK i \in 1 .. Len(q) : IsFrame(q[i], c) /\ q[i].n = k
        BY <4>1 DEF InOrder
      <4> QED BY <1>1, <1>2, <4>2
    <3> QED BY <3>1, <3>2
  <2>3. \A i, j \in 1 .. Len(t) : i < j /\ IsFrame(t[i], c) /\ IsFrame(t[j], c) => t[i].n < t[j].n
    <3> SUFFICES ASSUME NEW i \in 1 .. Len(t), NEW j \in 1 .. Len(t), i < j,
                        IsFrame(t[i], c), IsFrame(t[j], c)
                 PROVE  t[i].n < t[j].n
      OBVIOUS
    <3>1. i \in 1 .. Len(q) /\ t[i] = q[i]
      BY <1>1
    <3>2. CASE j = Len(q) + 1
      BY <1>1, <1>3, <1>4, <3>1, <3>2 DEF InOrder
    <3>3. CASE j \in 1 .. Len(q)
      BY <1>1, <3>1, <3>3 DEF InOrder
    <3> QED BY <1>2, <3>2, <3>3
  <2> QED BY <2>1, <2>2, <2>3 DEF InOrder
<1>5. ASSUME ~IsFrame(f, c) PROVE InOrder(t, c, lo, hi)
  <2>1. \A i \in 1 .. Len(t) : IsFrame(t[i], c) => i \in 1 .. Len(q) /\ t[i] = q[i]
    BY <1>1, <1>2, <1>5
  <2>2. \A k \in lo + 1 .. hi : \E i \in 1 .. Len(t) : IsFrame(t[i], c) /\ t[i].n = k
    BY <1>1, <1>2 DEF InOrder
  <2> QED BY <2>1, <2>2 DEF InOrder
<1> QED BY <1>4, <1>5 DEF t

LEMMA OrderAhead ==
  ASSUME NEW q \in Seq(Notices), q # <<>>, NEW c, NEW lo \in Nat, NEW hi \in Nat,
         InOrder(q, c, lo, hi)
  PROVE  /\ IsFrame(q[1], c) => q[1].n = lo + 1 /\ InOrder(Tail(q), c, lo + 1, hi)
         /\ ~IsFrame(q[1], c) => InOrder(Tail(q), c, lo, hi)
<1> DEFINE t == Tail(q)
<1>1. /\ Len(q) \in Nat /\ 1 \in 1 .. Len(q) /\ Len(t) = Len(q) - 1
      /\ \A i \in 1 .. Len(t) : t[i] = q[i + 1] /\ i + 1 \in 1 .. Len(q)
      /\ \A i \in 1 .. Len(q) : i = 1 \/ (i - 1 \in 1 .. Len(t) /\ q[i] = t[i - 1])
  BY TailParts
<1> HIDE DEF t
<1>2. \A i \in 1 .. Len(q) : q[i].n \in Nat
  BY NoticesAt
<1>3. \A i, j \in 1 .. Len(t) : i < j /\ IsFrame(t[i], c) /\ IsFrame(t[j], c) => t[i].n < t[j].n
  <2> SUFFICES ASSUME NEW i \in 1 .. Len(t), NEW j \in 1 .. Len(t), i < j,
                      IsFrame(t[i], c), IsFrame(t[j], c)
               PROVE  t[i].n < t[j].n
    OBVIOUS
  <2>1. t[i] = q[i + 1] /\ t[j] = q[j + 1] /\ i + 1 \in 1 .. Len(q) /\ j + 1 \in 1 .. Len(q) /\ i + 1 < j + 1
    BY <1>1
  <2> QED BY <2>1 DEF InOrder
<1>4. ASSUME IsFrame(q[1], c) PROVE q[1].n = lo + 1 /\ InOrder(t, c, lo + 1, hi)
  <2>1. lo < q[1].n /\ q[1].n <= hi /\ q[1].n \in Nat
    BY <1>1, <1>2, <1>4 DEF InOrder
  <2>2. lo + 1 \in lo + 1 .. hi
    BY <2>1
  <2>3. PICK i \in 1 .. Len(q) : IsFrame(q[i], c) /\ q[i].n = lo + 1
    BY <2>2 DEF InOrder
  <2>4. q[1].n = lo + 1
    <3>1. CASE i = 1
      BY <2>3, <3>1
    <3>2. CASE i # 1
      <4>1. q[1].n < q[i].n
        BY <1>1, <1>4, <2>3, <3>2 DEF InOrder
      <4> QED BY <2>1, <2>3, <4>1
    <3> QED BY <3>1, <3>2
  <2>5. \A j \in 1 .. Len(t) : IsFrame(t[j], c) => lo + 1 < t[j].n /\ t[j].n <= hi
    <3> SUFFICES ASSUME NEW j \in 1 .. Len(t), IsFrame(t[j], c) PROVE lo + 1 < t[j].n /\ t[j].n <= hi
      OBVIOUS
    <3>1. t[j] = q[j + 1] /\ j + 1 \in 1 .. Len(q) /\ 1 < j + 1
      BY <1>1
    <3> QED BY <1>1, <1>4, <2>4, <3>1 DEF InOrder
  <2>6. \A k \in (lo + 1) + 1 .. hi : \E j \in 1 .. Len(t) : IsFrame(t[j], c) /\ t[j].n = k
    <3> SUFFICES ASSUME NEW k \in (lo + 1) + 1 .. hi PROVE \E j \in 1 .. Len(t) : IsFrame(t[j], c) /\ t[j].n = k
      OBVIOUS
    <3>1. k \in lo + 1 .. hi /\ k # lo + 1
      OBVIOUS
    <3>2. PICK j \in 1 .. Len(q) : IsFrame(q[j], c) /\ q[j].n = k
      BY <3>1 DEF InOrder
    <3> QED BY <1>1, <2>4, <3>1, <3>2
  <2> QED BY <1>3, <2>1, <2>4, <2>5, <2>6 DEF InOrder
<1>5. ASSUME ~IsFrame(q[1], c) PROVE InOrder(t, c, lo, hi)
  <2>1. \A j \in 1 .. Len(t) : IsFrame(t[j], c) => lo < t[j].n /\ t[j].n <= hi
    BY <1>1 DEF InOrder
  <2>2. \A k \in lo + 1 .. hi : \E j \in 1 .. Len(t) : IsFrame(t[j], c) /\ t[j].n = k
    <3> SUFFICES ASSUME NEW k \in lo + 1 .. hi PROVE \E j \in 1 .. Len(t) : IsFrame(t[j], c) /\ t[j].n = k
      OBVIOUS
    <3>1. PICK j \in 1 .. Len(q) : IsFrame(q[j], c) /\ q[j].n = k
      BY DEF InOrder
    <3> QED BY <1>1, <1>5, <3>1
  <2> QED BY <1>3, <2>1, <2>2 DEF InOrder
<1> QED BY <1>4, <1>5 DEF t

LEMMA CloseBehind ==
  ASSUME NEW q \in Seq(Notices), NEW f \in Notices, NEW c, NEW l \in Nat, NEW h \in Nat,
         CloseOrder(q, c, l, h)
  PROVE  /\ ~IsClose(f, c) => (HasClose(Append(q, f), c) <=> HasClose(q, c))
         /\ ~IsClose(f, c) /\ ~IsFrame(f, c) => CloseOrder(Append(q, f), c, l, h)
         /\ IsFrame(f, c) /\ f.n = h + 1 /\ l <= h => CloseOrder(Append(q, f), c, l, h + 1)
         /\ IsClose(f, c) /\ ~HasClose(q, c) => CloseOrder(Append(q, f), c, h, h)
<1> DEFINE t == Append(q, f)
<1>1. /\ Len(q) \in Nat /\ Len(t) = Len(q) + 1 /\ t[Len(q) + 1] = f
      /\ \A i \in 1 .. Len(q) : t[i] = q[i]
  BY AppendParts
<1> HIDE DEF t
<1>2. \A i : i \in 1 .. Len(t) <=> i \in 1 .. Len(q) \/ i = Len(q) + 1
  BY <1>1
<1>3. \A i \in 1 .. Len(q) : q[i].n \in Nat
  BY NoticesAt
<1>4. ~(IsFrame(f, c) /\ IsClose(f, c))
  BY DEF IsFrame, IsClose
<1>5. ASSUME ~IsClose(f, c) PROVE HasClose(t, c) <=> HasClose(q, c)
  BY <1>1, <1>2, <1>5 DEF HasClose
<1>6. ASSUME ~IsClose(f, c), ~IsFrame(f, c) PROVE CloseOrder(t, c, l, h)
  <2>1. \A i \in 1 .. Len(t) : IsFrame(t[i], c) \/ IsClose(t[i], c) => i \in 1 .. Len(q) /\ t[i] = q[i]
    BY <1>1, <1>2, <1>6
  <2> QED BY <2>1 DEF CloseOrder
<1>7. ASSUME IsFrame(f, c), f.n = h + 1, l <= h PROVE CloseOrder(t, c, l, h + 1)
  <2>1. \A j \in 1 .. Len(t) : IsFrame(t[j], c) => t[j].n <= h + 1
    BY <1>1, <1>2, <1>3, <1>7 DEF CloseOrder
  <2>2. ASSUME NEW i \in 1 .. Len(t), NEW j \in 1 .. Len(t), IsClose(t[i], c)
        PROVE  /\ IsClose(t[j], c) => j = i
               /\ IsFrame(t[j], c) => IF j < i THEN t[j].n <= l ELSE t[j].n > l
    <3>1. i \in 1 .. Len(q) /\ t[i] = q[i]
      BY <1>1, <1>2, <1>4, <1>7, <2>2
    <3>2. CASE j \in 1 .. Len(q)
      BY <1>1, <2>2, <3>1, <3>2 DEF CloseOrder
    <3>3. CASE j = Len(q) + 1
      BY <1>1, <1>4, <1>7, <3>1, <3>3
    <3> QED BY <1>2, <3>2, <3>3
  <2> QED BY <2>1, <2>2 DEF CloseOrder
<1>8. ASSUME IsClose(f, c), ~HasClose(q, c) PROVE CloseOrder(t, c, h, h)
  <2>1. \A j \in 1 .. Len(t) : IsFrame(t[j], c) => j \in 1 .. Len(q) /\ t[j] = q[j] /\ t[j].n <= h
    BY <1>1, <1>2, <1>4, <1>8 DEF CloseOrder
  <2>2. \A i \in 1 .. Len(t) : IsClose(t[i], c) => i = Len(q) + 1
    BY <1>1, <1>2, <1>8 DEF HasClose
  <2> QED BY <1>1, <2>1, <2>2 DEF CloseOrder
<1> QED BY <1>5, <1>6, <1>7, <1>8 DEF t

LEMMA CloseAhead ==
  ASSUME NEW q \in Seq(Notices), q # <<>>, NEW c, NEW l \in Nat, NEW h \in Nat,
         CloseOrder(q, c, l, h)
  PROVE  /\ CloseOrder(Tail(q), c, l, h)
         /\ ~IsClose(q[1], c) => (HasClose(Tail(q), c) <=> HasClose(q, c))
         /\ IsFrame(q[1], c) /\ HasClose(q, c) => q[1].n <= l
         /\ IsClose(q[1], c) => /\ HasClose(q, c) /\ ~HasClose(Tail(q), c)
                                /\ \A i \in 1 .. Len(q) : IsFrame(q[i], c) => q[i].n > l
<1> DEFINE t == Tail(q)
<1>1. /\ Len(q) \in Nat /\ 1 \in 1 .. Len(q) /\ Len(t) = Len(q) - 1
      /\ \A i \in 1 .. Len(t) : t[i] = q[i + 1] /\ i + 1 \in 1 .. Len(q)
      /\ \A i \in 1 .. Len(q) : i = 1 \/ (i - 1 \in 1 .. Len(t) /\ q[i] = t[i - 1])
  BY TailParts
<1> HIDE DEF t
<1>2. CloseOrder(t, c, l, h)
  <2>1. \A j \in 1 .. Len(t) : IsFrame(t[j], c) => t[j].n <= h
    BY <1>1 DEF CloseOrder
  <2>2. ASSUME NEW i \in 1 .. Len(t), NEW j \in 1 .. Len(t), IsClose(t[i], c)
        PROVE  /\ IsClose(t[j], c) => j = i
               /\ IsFrame(t[j], c) => IF j < i THEN t[j].n <= l ELSE t[j].n > l
    <3>1. /\ i + 1 \in 1 .. Len(q) /\ j + 1 \in 1 .. Len(q) /\ t[i] = q[i + 1] /\ t[j] = q[j + 1]
          /\ (j + 1 = i + 1 => j = i) /\ (j < i <=> j + 1 < i + 1)
      BY <1>1
    <3> QED BY <2>2, <3>1 DEF CloseOrder
  <2> QED BY <2>1, <2>2 DEF CloseOrder
<1>3. ASSUME ~IsClose(q[1], c) PROVE HasClose(t, c) <=> HasClose(q, c)
  BY <1>1, <1>3 DEF HasClose
<1>4. ASSUME IsFrame(q[1], c), HasClose(q, c) PROVE q[1].n <= l
  <2>1. PICK i \in 1 .. Len(q) : IsClose(q[i], c)
    BY <1>4 DEF HasClose
  <2>2. i # 1
    BY <1>4, <2>1 DEF IsFrame, IsClose
  <2> QED BY <1>1, <1>4, <2>1, <2>2 DEF CloseOrder
<1>5. ASSUME IsClose(q[1], c)
      PROVE  /\ HasClose(q, c) /\ ~HasClose(t, c)
             /\ \A i \in 1 .. Len(q) : IsFrame(q[i], c) => q[i].n > l
  <2>1. HasClose(q, c)
    BY <1>1, <1>5 DEF HasClose
  <2>2. ASSUME NEW i \in 1 .. Len(t), IsClose(t[i], c) PROVE FALSE
    <3>1. i + 1 \in 1 .. Len(q) /\ IsClose(q[i + 1], c) /\ i + 1 # 1
      BY <1>1, <2>2
    <3> QED BY <1>1, <1>5, <3>1 DEF CloseOrder
  <2>3. \A i \in 1 .. Len(q) : IsFrame(q[i], c) => q[i].n > l
    BY <1>1, <1>5 DEF CloseOrder
  <2> QED BY <2>1, <2>2, <2>3 DEF HasClose
<1> QED BY <1>2, <1>3, <1>4, <1>5 DEF t

-----------------------------------------------------------------------------
(* Frames and closes in order: what an end has got of the far side, and    *)
(* what of its own close is still to be told.                              *)

Reached(e) == got[e] + Len(inbox[e])

OrderAt(e) ==
  /\ \A i \in DOMAIN inbox[e] : inbox[e][i] = got[e] + i
  /\ state[e] = "open" => InOrder(queue[Other(e[1])], e[2], Reached(e), sent[Far(e)])
  /\ state[e] = "remote" => Reached(e) = last[Far(e)]
  /\ saw[e] = "remote" => state[e] = "remote" /\ inbox[e] = <<>>
  /\ saw[e] # "none" => state[e] # "open"

Told(e) == HasClose(queue[e[1]], e[2])
Telling(e) == e \in closing \/ telling[e[1]] = e[2]

CloseAt(e) ==
  /\ Told(e) \/ Telling(e) \/ state[Far(e)] = "remote" => state[e] \notin {"absent", "open"}
  /\ Told(e) \/ state[Far(e)] = "remote" => ~Telling(e)
  /\ ~(e \in closing /\ telling[e[1]] = e[2])
  /\ state[Far(e)] = "remote" => ~Told(e)
  /\ CloseOrder(queue[e[1]], e[2], last[e], sent[e])
  /\ last[e] <= sent[e]
  /\ Told(e) /\ state[Far(e)] = "open" => Reached(Far(e)) <= last[e]

OrderInv == \A e \in Ends : OrderAt(e)
CloseInv == \A e \in Ends : CloseAt(e)

\* What a step does to an end that is not the one it works on: nothing, or it
\* ends otherwise than by the far side's close.
Ended(e) ==
  state'[e] = state[e] \/ (state[e] = "open" /\ state'[e] \notin {"absent", "open", "remote"})

LEMMA ReachedType ==
  ASSUME TypeOK, NEW e \in Ends
  PROVE  Reached(e) \in Nat /\ got[e] \in Nat /\ inbox[e] \in Seq(Nat) /\ sent[e] \in Nat /\ last[e] \in Nat
<1>1. got[e] \in Nat /\ inbox[e] \in Seq(Nat) /\ sent[e] \in Nat /\ last[e] \in Nat
  BY DEF TypeOK
<1>2. Len(inbox[e]) \in Nat
  BY <1>1
<1> QED BY <1>1, <1>2 DEF Reached

LEMMA OrderKept ==
  ASSUME NEW e \in Ends, OrderAt(e), TypeOK, Ended(e),
         inbox'[e] = inbox[e], got'[e] = got[e], saw'[e] = saw[e],
         sent'[Far(e)] = sent[Far(e)],
         state[e] = "remote" => last'[Far(e)] = last[Far(e)],
         \A lo, hi \in Nat : InOrder(queue[Other(e[1])], e[2], lo, hi)
                               => InOrder(queue'[Other(e[1])], e[2], lo, hi)
  PROVE  OrderAt(e)'
<1>1. Far(e)' = Far(e) /\ Other(e[1])' = Other(e[1]) /\ Reached(e)' = Reached(e)
  BY DEF Far, Other, Reached
<1>2. Reached(e) \in Nat /\ sent[Far(e)] \in Nat
  BY EndFacts, ReachedType
<1>3. \A i \in DOMAIN inbox'[e] : inbox'[e][i] = got'[e] + i
  BY DEF OrderAt
<1>4. state'[e] = "open" => InOrder(queue'[Other(e[1])], e[2], Reached(e)', sent'[Far(e)])
  <2> SUFFICES ASSUME state'[e] = "open" PROVE InOrder(queue'[Other(e[1])], e[2], Reached(e), sent[Far(e)])
    BY <1>1
  <2>1. state[e] = "open"
    BY DEF Ended
  <2> QED BY <1>2, <2>1 DEF OrderAt
<1>5. state'[e] = "remote" => Reached(e)' = last'[Far(e)]
  BY <1>1 DEF Ended, OrderAt
<1>6. /\ saw'[e] = "remote" => state'[e] = "remote" /\ inbox'[e] = <<>>
      /\ saw'[e] # "none" => state'[e] # "open"
  BY DEF Ended, OrderAt
<1> QED BY <1>1, <1>3, <1>4, <1>5, <1>6 DEF OrderAt

LEMMA CloseKept ==
  ASSUME NEW e \in Ends, CloseAt(e), TypeOK, Ended(e), Ended(Far(e)),
         last'[e] = last[e], sent'[e] = sent[e], Reached(Far(e))' = Reached(Far(e)),
         e \in closing' => e \in closing,
         telling'[e[1]] = e[2] => telling[e[1]] = e[2],
         HasClose(queue'[e[1]], e[2]) <=> HasClose(queue[e[1]], e[2]),
         \A l, h \in Nat : CloseOrder(queue[e[1]], e[2], l, h) => CloseOrder(queue'[e[1]], e[2], l, h)
  PROVE  CloseAt(e)'
<1>1. /\ Far(e)' = Far(e) /\ (Told(e)' <=> Told(e)) /\ (Telling(e)' => Telling(e))
      /\ last[e] \in Nat /\ sent[e] \in Nat
  BY ReachedType DEF Far, Other, Told, Telling
<1>2. /\ state'[Far(e)] = "remote" <=> state[Far(e)] = "remote"
      /\ state'[Far(e)] = "open" => state[Far(e)] = "open"
      /\ state[e] \notin {"absent", "open"} => state'[e] \notin {"absent", "open"}
  BY DEF Ended
<1>3. CloseOrder(queue'[e[1]], e[2], last'[e], sent'[e])
  BY <1>1 DEF CloseAt
<1>5. /\ Told(e)' \/ Telling(e)' \/ state'[Far(e)] = "remote" => state'[e] \notin {"absent", "open"}
      /\ Told(e)' \/ state'[Far(e)] = "remote" => ~Telling(e)'
      /\ ~(e \in closing' /\ telling'[e[1]] = e[2])
      /\ state'[Far(e)] = "remote" => ~Told(e)'
      /\ last'[e] <= sent'[e]
  BY <1>1, <1>2 DEF CloseAt
<1>6. Told(e)' /\ state'[Far(e)] = "open" => Reached(Far(e))' <= last'[e]
  BY <1>1, <1>2 DEF CloseAt
<1> QED BY <1>1, <1>3, <1>5, <1>6 DEF CloseAt

\* Nothing is queued, or something of no account here.
LEMMA EmitKeepsOrder ==
  ASSUME TypeOK, NEW p \in Sides, NEW f \in Notices, Emit(p, f), NEW r \in Sides, NEW c
  PROVE  /\ r # p \/ ~IsFrame(f, c) =>
              \A lo, hi \in Nat : InOrder(queue[r], c, lo, hi) => InOrder(queue'[r], c, lo, hi)
         /\ r # p \/ (~IsFrame(f, c) /\ ~IsClose(f, c)) =>
              /\ HasClose(queue'[r], c) <=> HasClose(queue[r], c)
              /\ \A l, h \in Nat : CloseOrder(queue[r], c, l, h) => CloseOrder(queue'[r], c, l, h)
<1>1. queue \in [Sides -> Seq(Notices)]
  BY DEF TypeOK, Notices
<1>2. /\ queue[r] \in Seq(Notices)
      /\ r = p => queue'[r] = Append(queue[r], f)
      /\ r # p => queue'[r] = queue[r]
  BY <1>1 DEF Emit
<1>3. CASE r # p
  BY <1>2, <1>3
<1>4. CASE r = p
  <2>1. ~IsFrame(f, c) =>
          \A lo, hi \in Nat : InOrder(queue[r], c, lo, hi) => InOrder(Append(queue[r], f), c, lo, hi)
    BY <1>2, OrderBehind
  <2>2. ASSUME ~IsFrame(f, c), ~IsClose(f, c), NEW l \in Nat, NEW h \in Nat, CloseOrder(queue[r], c, l, h)
        PROVE  CloseOrder(Append(queue[r], f), c, l, h)
    BY <1>2, <2>2, CloseBehind
  <2>3. ~IsClose(f, c) => (HasClose(Append(queue[r], f), c) <=> HasClose(queue[r], c))
    BY <1>2, AppendParts DEF HasClose
  <2> QED BY <1>2, <1>4, <2>1, <2>2, <2>3
<1> QED BY <1>3, <1>4

LEMMA ConsumeKeepsOrder ==
  ASSUME TypeOK, NEW p \in Sides, queue[Other(p)] # <<>>, Consume(p), NEW r \in Sides, NEW c
  PROVE  /\ r = p \/ ~IsFrame(Arrived(p), c) =>
              \A lo, hi \in Nat : InOrder(queue[r], c, lo, hi) => InOrder(queue'[r], c, lo, hi)
         /\ \A l, h \in Nat : CloseOrder(queue[r], c, l, h) => CloseOrder(queue'[r], c, l, h)
         /\ r = p \/ ~IsClose(Arrived(p), c) => (HasClose(queue'[r], c) <=> HasClose(queue[r], c))
<1>1. queue \in [Sides -> Seq(Notices)] /\ Other(p) \in Sides /\ Other(p) # p /\ (r # p => r = Other(p))
  BY SideFacts DEF TypeOK, Notices
<1>2. /\ queue[r] \in Seq(Notices)
      /\ r = p => queue'[r] = queue[r]
      /\ r # p => queue[r] # <<>> /\ queue'[r] = Tail(queue[r]) /\ Arrived(p) = queue[r][1]
  BY <1>1 DEF Consume, Arrived
<1>3. CASE r = p
  BY <1>2, <1>3
<1>4. CASE r # p
  <2>1. queue[r] \in Seq(Notices) /\ queue[r] # <<>>
    BY <1>2, <1>4
  <2>2. ASSUME ~IsFrame(queue[r][1], c), NEW lo \in Nat, NEW hi \in Nat, InOrder(queue[r], c, lo, hi)
        PROVE  InOrder(Tail(queue[r]), c, lo, hi)
    BY <2>1, <2>2, OrderAhead
  <2>3. ASSUME NEW l \in Nat, NEW h \in Nat, CloseOrder(queue[r], c, l, h)
        PROVE  CloseOrder(Tail(queue[r]), c, l, h)
    BY <2>1, <2>3, CloseAhead
  <2>4. ASSUME ~IsClose(queue[r][1], c) PROVE HasClose(Tail(queue[r]), c) <=> HasClose(queue[r], c)
    BY <2>1, <2>4, TailParts DEF HasClose
  <2> QED BY <1>2, <1>4, <2>2, <2>3, <2>4
<1> QED BY <1>3, <1>4

\* A step that queues, takes and tells nothing.
LEMMA PairKept ==
  ASSUME TypeOK, OrderInv, CloseInv, \A d \in Ends : Ended(d),
         UNCHANGED <<sent, inbox, got, saw, closing, telling, last, queue>>,
         NEW e \in Ends
  PROVE  OrderAt(e)' /\ CloseAt(e)'
<1>1. Far(e) \in Ends /\ Far(e)' = Far(e) /\ OrderAt(e) /\ CloseAt(e)
  BY EndFacts DEF Far, Other, OrderInv, CloseInv
<1>2. OrderAt(e)'
  BY <1>1, OrderKept
<1>3. Reached(Far(e))' = Reached(Far(e))
  BY <1>1 DEF Reached
<1>4. CloseAt(e)'
  BY <1>1, <1>3, CloseKept
<1> QED BY <1>2, <1>4

\* An end whose channel nothing has moved on yet.
LEMMA QuietPair ==
  ASSUME TypeOK, NEW e \in Ends, Quiet(e), Quiet(Far(e)),
         UNCHANGED <<sent, inbox, got, saw, closing, telling, last, queue>>,
         state'[e] # "remote", state'[Far(e)] # "remote"
  PROVE  OrderAt(e)' /\ CloseAt(e)'
<1>1. PICK f \in Ends : f = Far(e) /\ f[1] = Other(e[1]) /\ f[2] = e[2] /\ Far(e)' = f
  BY EndFacts DEF Far, Other
<1>2. Other(e[1])' = Other(e[1])
  BY DEF Other
<1>3. /\ inbox'[e] = <<>> /\ got'[e] = 0 /\ saw'[e] = "none" /\ sent'[e] = 0 /\ last'[e] = 0
      /\ e \notin closing' /\ telling'[e[1]] # e[2]
      /\ \A i \in DOMAIN queue'[e[1]] : queue'[e[1]][i].channel # e[2]
  BY DEF Quiet
<1>4. /\ sent'[f] = 0
      /\ \A i \in DOMAIN queue'[f[1]] : queue'[f[1]][i].channel # f[2]
  BY <1>1 DEF Quiet
<1>5. \A r \in Sides : queue'[r] \in Seq(Notices) /\ DOMAIN queue'[r] = 1 .. Len(queue'[r])
  <2>1. queue \in [Sides -> Seq(Notices)] /\ queue' = queue
    BY DEF TypeOK, Notices
  <2>2. \A r \in Sides : queue[r] \in Seq(Notices)
    BY <2>1
  <2>3. \A r \in Sides : DOMAIN queue[r] = 1 .. Len(queue[r])
    BY <2>2
  <2> QED BY <2>1, <2>2, <2>3
<1>6. e[1] \in Sides /\ f[1] \in Sides
  BY EndFacts
<1>7. OrderAt(e)'
  <2>1. Reached(e)' = 0
    BY <1>3 DEF Reached
  <2>2. InOrder(queue'[f[1]], e[2], 0, 0)
    BY <1>1, <1>4, <1>5, <1>6 DEF InOrder, IsFrame
  <2>3. InOrder(queue'[Other(e[1])], e[2], Reached(e)', sent'[Far(e)])
    BY <1>1, <1>4, <2>1, <2>2
  <2>4. \A i \in DOMAIN inbox'[e] : inbox'[e][i] = got'[e] + i
    BY <1>3
  <2> QED BY <1>1, <1>2, <1>3, <2>3, <2>4 DEF OrderAt
<1>8. CloseAt(e)'
  <2>1. ~Told(e)' /\ ~Telling(e)'
    BY <1>3, <1>5, <1>6 DEF Told, Telling, HasClose, IsClose
  <2>2. CloseOrder(queue'[e[1]], e[2], last'[e], sent'[e])
    BY <1>3, <1>5, <1>6 DEF CloseOrder, IsFrame, IsClose
  <2> QED BY <1>1, <1>3, <2>1, <2>2 DEF CloseAt
<1> QED BY <1>7, <1>8

LEMMA PairOpening ==
  ASSUME TypeOK, TableInv, QuietInv, OrderInv, CloseInv, NEW c \in Channels, Opening(c), NEW e \in Ends
  PROVE  OrderAt(e)' /\ CloseAt(e)'
<1>1. Opener(c) \in Sides /\ Acceptor(c) \in Sides /\ Acceptor(c) # Opener(c)
  BY SideFacts
<1>2. UNCHANGED <<sent, inbox, got, saw, closing, telling, last, queue>>
  BY DEF Opening, OpenCall, OpenReceived, Admit, OpenReturns, OpenFails, sendVars, recvVars, endVars
<1>3. PICK f \in Ends : f = Far(e) /\ f[1] = Other(e[1]) /\ f[2] = e[2] /\ f # e
  BY EndFacts
<1>4. PICK o \in Ends : o = <<Opener(c), c>> /\ o[1] = Opener(c) /\ o[2] = c
  BY <1>1, EndOf
<1>5. PICK a \in Ends : a = <<Acceptor(c), c>> /\ a[1] = Acceptor(c) /\ a[2] = c
  BY <1>1, EndOf
<1>6. \A d \in Ends : d[1] \in Sides /\ d[2] \in Channels /\ d = <<d[1], d[2]>>
  BY EndFacts
<1>7. CASE UNCHANGED state \/ EndAs(o, "closed")
  <2>1. \A d \in Ends : Ended(d)
    BY <1>7, ZenonT(60) DEF Ended, EndAs, TypeOK
  <2> QED BY <1>2, <2>1, PairKept
<1>8. CASE /\ request[c] # "admitted"
           /\ \/ state[o] = "absent" /\ state' = [state EXCEPT ![o] = "open"]
              \/ state[a] = "absent" /\ state' = [state EXCEPT ![a] = "open"]
  <2>1. \A d \in Ends : d # o /\ d # a => state'[d] = state[d]
    BY <1>8 DEF TypeOK
  <2>2. CASE e[2] # c
    <3>1. e # o /\ e # a /\ f # o /\ f # a
      BY <1>3, <1>4, <1>5, <2>2
    <3>2. Ended(e) /\ Ended(Far(e))
      BY <1>3, <2>1, <3>1 DEF Ended
    <3>3. OrderAt(e) /\ CloseAt(e) /\ Far(e)' = Far(e)
      BY DEF OrderInv, CloseInv, Far, Other
    <3>4. OrderAt(e)'
      BY <1>2, <3>2, <3>3, OrderKept
    <3>5. Reached(Far(e))' = Reached(Far(e))
      BY <1>2, <3>3 DEF Reached
    <3>6. CloseAt(e)'
      BY <1>2, <3>2, <3>3, <3>5, CloseKept
    <3> QED BY <3>4, <3>6
  <2>3. CASE e[2] = c
    <3>1. Quiet(e) /\ Quiet(f)
      BY <1>3, <1>8, <2>3 DEF QuietInv
    <3>2. state[a] = "absent"
      BY <1>1, <1>5, <1>8 DEF TableInv
    <3>3. state[o] # "remote" /\ state[a] # "remote"
      <4>1. Far(a) = o
        BY <1>1, <1>4, <1>5, SideFacts DEF Far
      <4>2. CloseAt(a)
        BY DEF CloseInv
      <4> QED BY <3>2, <4>1, <4>2 DEF CloseAt
    <3>4. (e = o \/ e = a) /\ (f = o \/ f = a)
      <4>1. e[1] \in Sides /\ f[1] \in Sides /\ f[2] = c
        BY <1>3, <1>6, <2>3
      <4>2. \A d \in Ends : d[2] = c => d = o \/ d = a
        BY <1>1, <1>4, <1>5, <1>6 DEF Sides
      <4> QED BY <2>3, <4>1, <4>2
    <3>5. state'[o] # "remote" /\ state'[a] # "remote"
      BY <1>8, <3>3, ZenonT(60) DEF TypeOK
    <3> QED BY <1>2, <1>3, <3>1, <3>4, <3>5, QuietPair
  <2> QED BY <2>2, <2>3
<1>9. CASE OpenCall(c)
  <2>1. /\ open[c] = "none" /\ request[c] # "admitted"
        /\ state' = [state EXCEPT ![o] = "open"]
    BY <1>4, <1>9 DEF OpenCall, TableInv
  <2>2. state[o] = "absent"
    BY <1>4, <2>1 DEF TableInv
  <2> QED BY <1>8, <2>1, <2>2
<1>10. CASE Admit(c)
  <2>1. CASE Refuses(c)
    BY <1>7, <1>10, <2>1 DEF Admit
  <2>2. CASE ~Refuses(c)
    <3>1. request[c] # "admitted" /\ state' = [state EXCEPT ![a] = "open"]
      BY <1>5, <1>10, <2>2 DEF Admit
    <3>2. state[a] = "absent"
      BY <1>1, <1>5, <3>1 DEF TableInv
    <3> QED BY <1>8, <3>1, <3>2
  <2> QED BY <2>1, <2>2
<1>11. CASE OpenReceived(c) \/ OpenReturns(c)
  BY <1>7, <1>11 DEF OpenReceived, OpenReturns, endVars
<1>12. CASE OpenFails(c)
  BY <1>4, <1>7, <1>12 DEF OpenFails
<1> QED BY <1>9, <1>10, <1>11, <1>12 DEF Opening

LEMMA PairSending ==
  ASSUME TypeOK, OrderInv, CloseInv, NEW d \in Ends, Sending(d), NEW e \in Ends
  PROVE  OrderAt(e)' /\ CloseAt(e)'
<1>1. \A x \in Ends : x[1] \in Sides /\ x[2] \in Channels /\ x = <<x[1], x[2]>> /\ Far(x) \in Ends
  BY EndFacts
<1>2. UNCHANGED <<state, inbox, got, saw, closing, telling, last>>
  BY DEF Sending, SendTakes, SendWaits, SendEmits, SendGivesUp, SendFails, recvVars, endVars
<1>3. \A x \in Ends : Ended(x)
  BY <1>2 DEF Ended
<1>4. CASE ~SendEmits(d)
  <2>1. UNCHANGED <<sent, queue>>
    BY <1>4 DEF Sending, SendTakes, SendWaits, SendGivesUp, SendFails
  <2> QED BY <1>2, <1>3, <2>1, PairKept
<1>5. CASE SendEmits(d)
  <2> DEFINE n == sent[d] + 1
  <2>1. OrderAt(e) /\ CloseAt(e) /\ Far(e)' = Far(e) /\ Other(e[1])' = Other(e[1])
    BY DEF OrderInv, CloseInv, Far, Other
  <2>2. Reached(e)' = Reached(e) /\ Reached(Far(e))' = Reached(Far(e))
    BY <1>2, <2>1 DEF Reached
  <2>3. \A x \in Ends : sent[x] \in Nat /\ last[x] \in Nat /\ Reached(x) \in Nat
    BY ReachedType
  <2>4. queue \in [Sides -> Seq(Notices)]
    BY DEF TypeOK, Notices
  <2>5. CASE sent' = [sent EXCEPT ![d] = n] /\ Emit(d[1], Frame(d[2], n))
    <3>1. PICK g \in Notices : /\ g.kind = "frame" /\ g.channel = d[2] /\ g.n = sent[d] + 1 /\ Emit(d[1], g)
      BY <1>1, <2>3, <2>5, NoticeTypes DEF Frame
    <3>2. \A x \in Ends : x # d => sent'[x] = sent[x]
      BY <2>5 DEF TypeOK
    <3>3. sent'[d] = sent[d] + 1
      BY <2>5 DEF TypeOK
    <3>4. \A c : IsFrame(g, c) <=> c = d[2]
      BY <2>3, <3>1 DEF IsFrame
    <3>5. \A c : ~IsClose(g, c)
      BY <3>1 DEF IsClose
    <3>6. CASE e = d
      <4>1. OrderAt(e)'
        <5>1. Other(e[1]) # d[1] /\ Far(e) # d /\ Other(e[1]) \in Sides
          BY <3>6, EndFacts
        <5>2. sent'[Far(e)] = sent[Far(e)]
          BY <1>1, <3>2, <5>1
        <5>3. \A lo, hi \in Nat : InOrder(queue[Other(e[1])], e[2], lo, hi)
                                   => InOrder(queue'[Other(e[1])], e[2], lo, hi)
          BY <1>1, <3>1, <5>1, EmitKeepsOrder
        <5> QED BY <1>2, <1>3, <2>1, <5>2, <5>3, OrderKept
      <4>2. CloseAt(e)'
        <5>1. queue[e[1]] \in Seq(Notices) /\ queue'[e[1]] = Append(queue[e[1]], g)
          BY <1>1, <2>4, <3>1, <3>6 DEF Emit
        <5>2. CloseOrder(queue[e[1]], e[2], last[e], sent[e]) /\ last[e] <= sent[e]
          BY <2>1 DEF CloseAt
        <5>6. IsFrame(g, e[2]) /\ g.n = sent[e] + 1 /\ ~IsClose(g, e[2])
          BY <3>1, <3>4, <3>5, <3>6
        <5>7. CloseOrder(Append(queue[e[1]], g), e[2], last[e], sent[e] + 1)
          BY <2>3, <5>1, <5>2, <5>6, CloseBehind
        <5>8. HasClose(Append(queue[e[1]], g), e[2]) <=> HasClose(queue[e[1]], e[2])
          BY <2>3, <5>1, <5>2, <5>6, CloseBehind
        <5>3. /\ CloseOrder(queue'[e[1]], e[2], last[e], sent[e] + 1)
              /\ (Told(e)' <=> Told(e))
          BY <5>1, <5>7, <5>8 DEF Told
        <5>4. Telling(e)' <=> Telling(e)
          BY <1>2 DEF Telling
        <5>5. CloseOrder(queue'[e[1]], e[2], last'[e], sent'[e]) /\ last'[e] <= sent'[e]
          BY <1>2, <2>3, <3>3, <3>6, <5>2, <5>3
        <5> QED BY <1>2, <2>1, <2>2, <5>3, <5>4, <5>5 DEF CloseAt
      <4> QED BY <4>1, <4>2
    <3>7. CASE e # d
      <4>1. CloseAt(e)'
        <5>1. e[1] # d[1] \/ ~IsFrame(g, e[2])
          BY <1>1, <3>4, <3>7
        <5>2. /\ HasClose(queue'[e[1]], e[2]) <=> HasClose(queue[e[1]], e[2])
              /\ \A l, h \in Nat : CloseOrder(queue[e[1]], e[2], l, h) => CloseOrder(queue'[e[1]], e[2], l, h)
          BY <1>1, <3>1, <3>5, <5>1, EmitKeepsOrder
        <5>3. last'[e] = last[e] /\ sent'[e] = sent[e]
          BY <1>2, <3>2, <3>7
        <5> QED BY <1>1, <1>2, <1>3, <2>1, <2>2, <5>2, <5>3, CloseKept
      <4>2. OrderAt(e)'
        <5>1. CASE Far(e) # d
          <6>1. Other(e[1]) # d[1] \/ ~IsFrame(g, e[2])
            <7>1. Far(e) = <<Other(e[1]), e[2]>>
              BY DEF Far
            <7> QED BY <1>1, <3>4, <5>1, <7>1
          <6>2. Other(e[1]) \in Sides
            BY EndFacts
          <6>3. \A lo, hi \in Nat : InOrder(queue[Other(e[1])], e[2], lo, hi)
                                     => InOrder(queue'[Other(e[1])], e[2], lo, hi)
            BY <1>1, <3>1, <6>1, <6>2, EmitKeepsOrder
          <6>4. sent'[Far(e)] = sent[Far(e)]
            BY <1>1, <3>2, <5>1
          <6> QED BY <1>2, <1>3, <2>1, <6>3, <6>4, OrderKept
        <5>2. CASE Far(e) = d
          <6>1. Other(e[1]) = d[1] /\ e[2] = d[2]
            BY <5>2, EndFacts
          <6>2. queue[d[1]] \in Seq(Notices) /\ queue'[d[1]] = Append(queue[d[1]], g)
            BY <1>1, <2>4, <3>1 DEF Emit
          <6>3. state'[e] = "open" => InOrder(queue'[Other(e[1])], e[2], Reached(e)', sent'[Far(e)])
            <7> SUFFICES ASSUME state[e] = "open"
                         PROVE  InOrder(Append(queue[d[1]], g), d[2], Reached(e), sent[d] + 1)
              BY <1>2, <2>2, <3>3, <5>2, <6>1, <6>2
            <7>1. InOrder(queue[d[1]], d[2], Reached(e), sent[d])
              BY <2>1, <5>2, <6>1 DEF OrderAt
            <7> QED BY <2>3, <3>1, <3>4, <6>2, <7>1, OrderBehind
          <6> QED BY <1>2, <2>1, <2>2, <6>3 DEF OrderAt
        <5> QED BY <5>1, <5>2
      <4> QED BY <4>1, <4>2
    <3> QED BY <3>6, <3>7
  <2>6. CASE sent' = sent /\ Emit(d[1], Frame(d[2], 0))
    <3>1. PICK g \in Notices : /\ g.kind = "frame" /\ g.n = 0 /\ Emit(d[1], g)
      BY <1>1, <2>6, NoticeTypes DEF Frame
    <3>2. \A c : ~IsFrame(g, c) /\ ~IsClose(g, c)
      BY <3>1 DEF IsFrame, IsClose
    <3>3. Other(e[1]) \in Sides
      BY EndFacts
    <3>4. OrderAt(e)'
      <4>1. \A lo, hi \in Nat : InOrder(queue[Other(e[1])], e[2], lo, hi)
                                 => InOrder(queue'[Other(e[1])], e[2], lo, hi)
        BY <1>1, <3>1, <3>2, <3>3, EmitKeepsOrder
      <4> QED BY <1>2, <1>3, <2>1, <2>6, <4>1, OrderKept
    <3>5. CloseAt(e)'
      <4>1. /\ HasClose(queue'[e[1]], e[2]) <=> HasClose(queue[e[1]], e[2])
            /\ \A l, h \in Nat : CloseOrder(queue[e[1]], e[2], l, h) => CloseOrder(queue'[e[1]], e[2], l, h)
        BY <1>1, <3>1, <3>2, EmitKeepsOrder
      <4> QED BY <1>1, <1>2, <1>3, <2>1, <2>2, <2>6, <4>1, CloseKept
    <3> QED BY <3>4, <3>5
  <2> QED BY <1>5, <2>5, <2>6 DEF SendEmits
<1> QED BY <1>4, <1>5

LEMMA PairReceiving ==
  ASSUME TypeOK, OrderInv, CloseInv, NEW d \in Ends, Receiving(d), NEW e \in Ends
  PROVE  OrderAt(e)' /\ CloseAt(e)'
<1>1. e[1] \in Sides /\ e[2] \in Channels /\ d[1] \in Sides /\ d[2] \in Channels /\ Far(e) \in Ends /\ Other(e[1]) \in Sides
  BY EndFacts
<1>2. UNCHANGED <<state, sent, closing, telling, last>>
  BY DEF Receiving, Receive, ReturnCredit, CreditLost, ReceiveEnd, sendVars, endVars
<1>3. /\ \A x \in Ends : Ended(x)
      /\ OrderAt(e) /\ CloseAt(e) /\ Far(e)' = Far(e) /\ Other(e[1])' = Other(e[1])
  BY <1>2 DEF Ended, OrderInv, CloseInv, Far, Other
<1>4. ASSUME queue' = queue, Reached(Far(e))' = Reached(Far(e))
      PROVE  CloseAt(e)'
  BY <1>1, <1>2, <1>3, <1>4, CloseKept
<1>5. CASE Receive(d)
  <2>1. /\ queue' = queue /\ saw' = saw /\ state[d] # "closed" /\ inbox[d] # <<>>
        /\ inbox' = [inbox EXCEPT ![d] = Tail(@)]
        /\ got' = [got EXCEPT ![d] = Head(inbox[d])]
    BY <1>5 DEF Receive
  <2>2. \A x \in Ends : x # d => inbox'[x] = inbox[x] /\ got'[x] = got[x]
    BY <2>1 DEF TypeOK
  <2>3. inbox'[d] = Tail(inbox[d]) /\ got'[d] = Head(inbox[d])
    BY <2>1 DEF TypeOK
  <2>4. PICK q \in Seq(Nat) : q = inbox[d] /\ q # <<>>
    BY <2>1 DEF TypeOK
  <2>5. /\ Head(q) = q[1] /\ Len(Tail(q)) = Len(q) - 1 /\ DOMAIN q = 1 .. Len(q)
        /\ 1 \in 1 .. Len(q) /\ DOMAIN Tail(q) = 1 .. Len(q) - 1 /\ Len(q) \in Nat
        /\ \A i \in 1 .. Len(q) - 1 : Tail(q)[i] = q[i + 1] /\ i + 1 \in 1 .. Len(q)
    <3>1. Head(q) = q[1] /\ DOMAIN q = 1 .. Len(q) /\ Len(q) \in Nat /\ Tail(q) \in Seq(Nat)
      BY <2>4
    <3>2. /\ Len(Tail(q)) = Len(q) - 1 /\ 1 \in 1 .. Len(q)
          /\ \A i \in 1 .. Len(Tail(q)) : Tail(q)[i] = q[i + 1] /\ i + 1 \in 1 .. Len(q)
      BY <2>4, TailParts
    <3>3. DOMAIN Tail(q) = 1 .. Len(Tail(q))
      BY <3>1
    <3> QED BY <3>1, <3>2, <3>3
  <2>6. OrderAt(d) /\ got[d] \in Nat
    BY ReachedType DEF OrderInv
  <2>7. Head(q) = got[d] + 1
    BY <2>4, <2>5, <2>6 DEF OrderAt
  <2>8. Reached(d)' = Reached(d)
    <3>1. Reached(d)' = (got[d] + 1) + (Len(q) - 1) /\ Reached(d) = got[d] + Len(q)
      BY <2>3, <2>4, <2>5, <2>7 DEF Reached
    <3> QED BY <2>5, <2>6, <3>1
  <2>9. \A x \in Ends : Reached(x)' = Reached(x)
    BY <2>2, <2>8 DEF Reached
  <2>10. CloseAt(e)'
    BY <1>1, <1>3, <1>4, <2>1, <2>9
  <2>11. CASE e # d
    <3>1. OrderAt(e)'
      BY <1>2, <1>3, <2>1, <2>2, <2>11, OrderKept
    <3> QED BY <2>10, <3>1
  <2>12. CASE e = d
    <3>1. \A i \in DOMAIN inbox'[e] : inbox'[e][i] = got'[e] + i
      <4>1. \A i \in 1 .. Len(q) : q[i] = got[d] + i
        BY <2>4, <2>5, <2>6 DEF OrderAt
      <4>2. ASSUME NEW i \in 1 .. Len(q) - 1 PROVE Tail(q)[i] = (got[d] + 1) + i
        <5>1. Tail(q)[i] = q[i + 1] /\ i + 1 \in 1 .. Len(q)
          BY <2>5
        <5>2. q[i + 1] = got[d] + (i + 1)
          BY <4>1, <5>1
        <5>3. i \in Int
          BY <2>5
        <5>4. got[d] + (i + 1) = (got[d] + 1) + i
          BY <2>6, <5>3
        <5> QED BY <5>1, <5>2, <5>4
      <4> QED BY <2>3, <2>4, <2>5, <2>7, <2>12, <4>2
    <3>2. saw'[e] # "remote"
      BY <2>1, <2>6, <2>12 DEF OrderAt
    <3> QED BY <1>2, <1>3, <2>1, <2>9, <2>10, <3>1, <3>2 DEF OrderAt
  <2> QED BY <2>11, <2>12
<1>6. CASE ReturnCredit(d)
  <2>1. /\ Emit(d[1], Credit(d[2], crediting[d])) /\ crediting[d] \in Nat
        /\ UNCHANGED <<inbox, got, saw>>
    BY <1>6 DEF ReturnCredit, TypeOK
  <2>2. PICK g \in Notices : g.kind = "credit" /\ Emit(d[1], g)
    BY <1>1, <2>1, NoticeTypes DEF Credit
  <2>3. \A c : ~IsFrame(g, c) /\ ~IsClose(g, c)
    BY <2>2 DEF IsFrame, IsClose
  <2>4. \A lo, hi \in Nat : InOrder(queue[Other(e[1])], e[2], lo, hi)
                             => InOrder(queue'[Other(e[1])], e[2], lo, hi)
    BY <1>1, <2>2, <2>3, EmitKeepsOrder
  <2>5. /\ HasClose(queue'[e[1]], e[2]) <=> HasClose(queue[e[1]], e[2])
        /\ \A l, h \in Nat : CloseOrder(queue[e[1]], e[2], l, h) => CloseOrder(queue'[e[1]], e[2], l, h)
    BY <1>1, <2>2, <2>3, EmitKeepsOrder
  <2>6. Reached(Far(e))' = Reached(Far(e))
    BY <1>3, <2>1 DEF Reached
  <2>7. OrderAt(e)'
    BY <1>2, <1>3, <2>1, <2>4, OrderKept
  <2>8. CloseAt(e)'
    BY <1>1, <1>2, <1>3, <2>5, <2>6, CloseKept
  <2> QED BY <2>7, <2>8
<1>7. CASE CreditLost(d)
  <2>1. UNCHANGED <<inbox, got, saw, queue>>
    BY <1>7 DEF CreditLost
  <2> QED BY <1>2, <1>3, <2>1, PairKept
<1>8. CASE ReceiveEnd(d)
  <2>1. /\ UNCHANGED <<inbox, got, queue>> /\ state[d] # "open"
        /\ state[d] = "remote" => inbox[d] = <<>>
        /\ saw' = [saw EXCEPT ![d] = state[d]]
    BY <1>8 DEF ReceiveEnd
  <2>2. Reached(Far(e))' = Reached(Far(e)) /\ Reached(e)' = Reached(e)
    BY <1>3, <2>1 DEF Reached
  <2>3. CloseAt(e)'
    BY <1>4, <2>1, <2>2
  <2>4. CASE e # d
    <3>1. saw'[e] = saw[e]
      BY <2>1, <2>4 DEF TypeOK
    <3>2. OrderAt(e)'
      BY <1>2, <1>3, <2>1, <3>1, OrderKept
    <3> QED BY <2>3, <3>2
  <2>5. CASE e = d
    <3>1. saw'[e] = state[e]
      BY <2>1, <2>5 DEF TypeOK
    <3> QED BY <1>2, <1>3, <2>1, <2>2, <2>3, <2>5, <3>1 DEF OrderAt
  <2> QED BY <2>4, <2>5
<1> QED BY <1>5, <1>6, <1>7, <1>8 DEF Receiving

LEMMA PairOnFrame ==
  ASSUME TypeOK, TableInv, OrderInv, CloseInv, NEW p \in Sides, OnFrame(p), NEW e \in Ends
  PROVE  OrderAt(e)' /\ CloseAt(e)'
<1>1. /\ queue[Other(p)] # <<>> /\ Consume(p) /\ Arrived(p).kind = "frame"
      /\ UNCHANGED <<sent, got, saw, closing, last>>
  BY DEF OnFrame, Arrives, Arrived, sendVars
<1>2. PICK d \in Ends : d = <<p, Arrived(p).channel>> /\ d[1] = p /\ d[2] = Arrived(p).channel
  <2>1. Arrived(p).channel \in Channels
    BY <1>1, ConsumeTypes
  <2> QED BY <2>1, EndOf, ZenonT(60)
<1>3. /\ Other(p) \in Sides /\ Other(p) # p
      /\ e[1] \in Sides /\ e[2] \in Channels /\ e = <<e[1], e[2]>> /\ Other(e[1]) \in Sides
      /\ Other(Other(e[1])) = e[1] /\ Far(e) \in Ends /\ Far(e) # e
  BY EndFacts, SideFacts
<1>4. PICK f \in Ends : f = Far(d) /\ f[1] = Other(p) /\ f[2] = d[2] /\ f # d /\ Far(f) = d
  BY <1>2, EndFacts
<1>5. PICK q \in Seq(Notices) :
    /\ q = queue[Other(p)] /\ q # <<>> /\ q[1] = Arrived(p)
    /\ queue'[Other(p)] = Tail(q) /\ queue'[p] = queue[p]
  <2>1. queue \in [Sides -> Seq(Notices)]
    BY DEF TypeOK, Notices
  <2>2. queue[Other(p)] \in Seq(Notices) /\ Head(queue[Other(p)]) = queue[Other(p)][1]
    BY <1>1, <1>3, <2>1
  <2> QED BY <1>1, <1>3, <2>1, <2>2 DEF Consume, Arrived
<1>6. /\ OrderAt(e) /\ CloseAt(e) /\ OrderAt(d) /\ CloseAt(d) /\ CloseAt(f)
      /\ Far(e)' = Far(e) /\ Other(e[1])' = Other(e[1]) /\ Far(d)' = f /\ Far(f)' = d
  BY <1>2, <1>4, <1>3 DEF OrderInv, CloseInv, Far, Other
<1>7. \A x \in Ends : Reached(x) \in Nat /\ got[x] \in Nat /\ inbox[x] \in Seq(Nat) /\ sent[x] \in Nat /\ last[x] \in Nat
  BY ReachedType
<1>8. d[2] \in table[p] <=> state[d] = "open"
  BY <1>2 DEF TableInv
<1>9. IsFrame(Arrived(p), d[2]) \/ Arrived(p).n = 0
  BY <1>1, <1>2, <1>5, NoticesAt DEF IsFrame
<1>10. \A c : ~IsClose(Arrived(p), c)
  BY <1>1 DEF IsClose
<1>11. ASSUME e # d
       PROVE  \A lo, hi \in Nat : InOrder(queue[Other(e[1])], e[2], lo, hi)
                                   => InOrder(queue'[Other(e[1])], e[2], lo, hi)
  <2>1. Other(e[1]) = p \/ ~IsFrame(Arrived(p), e[2])
    <3>1. CASE e[1] = p
      <4>1. e[2] # d[2]
        BY <1>2, <1>3, <1>11, <3>1
      <4> QED BY <1>2, <4>1 DEF IsFrame
    <3>2. CASE e[1] # p
      <4>1. Other(e[1]) = p
        BY <1>3, <3>2, SideFacts
      <4> QED BY <4>1
    <3> QED BY <3>1, <3>2
  <2> QED BY <1>1, <1>3, <2>1, ConsumeKeepsOrder
<1>12. /\ HasClose(queue'[e[1]], e[2]) <=> HasClose(queue[e[1]], e[2])
       /\ \A l, h \in Nat : CloseOrder(queue[e[1]], e[2], l, h) => CloseOrder(queue'[e[1]], e[2], l, h)
  BY <1>1, <1>3, <1>10, ConsumeKeepsOrder
<1>13. CASE d[2] \notin table[p] /\ UNCHANGED <<inbox, state, telling>>
  <2>1. Ended(e) /\ Ended(Far(e)) /\ Reached(Far(e))' = Reached(Far(e)) /\ Reached(e)' = Reached(e)
    BY <1>1, <1>6, <1>13 DEF Ended, Reached
  <2>2. CloseAt(e)'
    BY <1>1, <1>3, <1>6, <1>12, <1>13, <2>1, CloseKept
  <2>3. CASE e # d
    <3>1. OrderAt(e)'
      BY <1>1, <1>6, <1>11, <1>13, <2>1, <2>3, OrderKept
    <3> QED BY <2>2, <3>1
  <2>4. CASE e = d
    <3>1. state'[e] # "open"
      BY <1>8, <1>13, <2>4
    <3>2. OrderAt(e)'
      BY <1>1, <1>6, <1>13, <2>1, <3>1 DEF OrderAt
    <3> QED BY <2>2, <3>2
  <2> QED BY <2>3, <2>4
<1>14. CASE /\ d[2] \in table[p] /\ Arrived(p).n # 0
            /\ inbox' = [inbox EXCEPT ![d] = Append(@, Arrived(p).n)]
            /\ UNCHANGED <<state, telling>>
  <2>1. state[d] = "open" /\ IsFrame(q[1], d[2])
    BY <1>5, <1>8, <1>9, <1>14
  <2>2. InOrder(q, d[2], Reached(d), sent[f])
    BY <1>2, <1>4, <1>5, <1>6, <2>1 DEF OrderAt
  <2>3. q[1].n = Reached(d) + 1 /\ InOrder(Tail(q), d[2], Reached(d) + 1, sent[f])
    BY <1>5, <1>7, <2>1, <2>2, OrderAhead
  <2>4. inbox'[d] = Append(inbox[d], Reached(d) + 1) /\ got'[d] = got[d]
    BY <1>1, <1>5, <1>14, <2>3 DEF TypeOK
  <2>5. \A x \in Ends : x # d => inbox'[x] = inbox[x]
    BY <1>14 DEF TypeOK
  <2>6. \A x \in Ends : x # d => Reached(x)' = Reached(x)
    BY <1>1, <2>5 DEF Reached
  <2>7. PICK b \in Seq(Nat) : b = inbox[d] /\ Len(b) \in Nat
    BY <1>7
  <2>8. PICK n \in Nat : n = Reached(d) /\ n = got[d] + Len(b)
    BY <1>7, <2>7 DEF Reached
  <2>9. /\ Len(Append(b, n + 1)) = Len(b) + 1 /\ DOMAIN Append(b, n + 1) = 1 .. Len(b) + 1
        /\ DOMAIN b = 1 .. Len(b)
        /\ Append(b, n + 1)[Len(b) + 1] = n + 1
        /\ \A i \in 1 .. Len(b) : Append(b, n + 1)[i] = b[i]
    BY <2>7, <2>8
  <2>10. Reached(d)' = n + 1
    <3>1. Reached(d)' = got[d] + (Len(b) + 1)
      BY <2>4, <2>7, <2>8, <2>9 DEF Reached
    <3>2. got[d] + (Len(b) + 1) = (got[d] + Len(b)) + 1
      BY <1>7, <2>7
    <3> QED BY <2>8, <3>1, <3>2
  <2>11. Ended(e) /\ Ended(Far(e))
    BY <1>14 DEF Ended
  <2>12. CloseAt(e)'
    <3>1. CASE e # f
      <4>1. Far(e) # d
        BY <1>4, <3>1, EndFacts
      <4>2. Reached(Far(e))' = Reached(Far(e))
        BY <1>3, <1>6, <2>6, <4>1
      <4> QED BY <1>1, <1>3, <1>6, <1>12, <1>14, <2>11, <4>2, CloseKept
    <3>2. CASE e = f
      <4>1. (Told(e)' <=> Told(e)) /\ (Telling(e)' <=> Telling(e))
        BY <1>1, <1>12, <1>14 DEF Told, Telling
      <4>2. CloseOrder(queue'[e[1]], e[2], last'[e], sent'[e])
        BY <1>1, <1>6, <1>7, <1>12 DEF CloseAt
      <4>3. Told(e) => n + 1 <= last[e]
        <5>1. CloseOrder(q, d[2], last[f], sent[f])
          BY <1>4, <1>5, <1>6 DEF CloseAt
        <5>2. HasClose(q, d[2]) => q[1].n <= last[f]
          BY <1>5, <1>7, <2>1, <5>1, CloseAhead
        <5> QED BY <1>4, <1>5, <2>3, <2>8, <3>2, <5>2 DEF Told
      <4>4. Reached(Far(e))' = n + 1
        BY <1>4, <1>6, <2>10, <3>2
      <4> QED BY <1>1, <1>6, <1>14, <4>1, <4>2, <4>3, <4>4 DEF CloseAt
    <3> QED BY <3>1, <3>2
  <2>13. OrderAt(e)'
    <3>1. CASE e # d
      BY <1>1, <1>6, <1>11, <1>14, <2>5, <2>11, <3>1, OrderKept
    <3>2. CASE e = d
      <4>1. \A i \in DOMAIN inbox'[d] : inbox'[d][i] = got'[d] + i
        <5> SUFFICES ASSUME NEW i \in 1 .. Len(b) + 1 PROVE Append(b, n + 1)[i] = got[d] + i
          BY <2>4, <2>7, <2>8, <2>9
        <5>1. CASE i \in 1 .. Len(b)
          <6>1. b[i] = got[d] + i
            BY <1>6, <2>7, <2>9, <5>1 DEF OrderAt
          <6> QED BY <2>9, <5>1, <6>1
        <5>2. CASE i \notin 1 .. Len(b)
          <6>1. i = Len(b) + 1
            BY <2>7, <5>2
          <6> QED BY <1>7, <2>7, <2>8, <2>9, <6>1
        <5> QED BY <5>1, <5>2
      <4>2. InOrder(queue'[Other(e[1])], e[2], Reached(e)', sent'[Far(e)])
        BY <1>1, <1>2, <1>4, <1>5, <1>6, <2>3, <2>8, <2>10, <3>2
      <4>3. saw'[e] = "none" /\ state'[e] = "open"
        BY <1>1, <1>6, <1>14, <2>1, <3>2 DEF OrderAt
      <4> QED BY <1>6, <3>2, <4>1, <4>2, <4>3 DEF OrderAt
    <3> QED BY <3>1, <3>2
  <2> QED BY <2>12, <2>13
<1>15. CASE /\ d[2] \in table[p] /\ UNCHANGED inbox
            /\ \E how \in {"refused", "overrun"} : EndAs(d, how)
            /\ telling' = [telling EXCEPT ![p] = d[2]]
  <2>1. /\ state[d] = "open" /\ state'[d] \in {"refused", "overrun"}
        /\ \A x \in Ends : x # d => state'[x] = state[x]
    <3>1. state[d] = "open"
      BY <1>8, <1>15
    <3> QED BY <1>15, <3>1 DEF EndAs, TypeOK
  <2>2. \A x \in Ends : Ended(x)
    BY <2>1 DEF Ended
  <2>3. \A x \in Ends : Reached(x)' = Reached(x)
    BY <1>1, <1>15 DEF Reached
  <2>4. telling'[p] = d[2] /\ (e[1] # p => telling'[e[1]] = telling[e[1]])
    BY <1>3, <1>15 DEF TypeOK
  <2>5. CASE e # d
    <3>1. telling'[e[1]] = e[2] => telling[e[1]] = e[2]
      BY <1>2, <1>3, <2>4, <2>5
    <3>2. CloseAt(e)'
      BY <1>1, <1>3, <1>6, <1>12, <2>2, <2>3, <3>1, CloseKept
    <3>3. OrderAt(e)'
      BY <1>1, <1>6, <1>11, <1>15, <2>2, <2>5, OrderKept
    <3> QED BY <3>2, <3>3
  <2>6. CASE e = d
    <3>1. saw'[e] = "none" /\ state'[e] \notin {"absent", "open", "remote"}
      BY <1>1, <1>6, <2>1, <2>6 DEF OrderAt
    <3>2. OrderAt(e)'
      BY <1>1, <1>6, <1>15, <2>3, <3>1 DEF OrderAt
    <3>3. ~Told(e) /\ e \notin closing /\ state[Far(e)] # "remote"
      BY <1>6, <2>1, <2>6 DEF CloseAt, Telling
    <3>4. ~Told(e)' /\ state'[Far(e)] # "remote"
      BY <1>3, <1>12, <2>1, <2>6, <3>3 DEF Told
    <3>5. CloseOrder(queue'[e[1]], e[2], last'[e], sent'[e]) /\ last'[e] <= sent'[e]
      BY <1>1, <1>6, <1>7, <1>12 DEF CloseAt
    <3>6. CloseAt(e)'
      BY <1>1, <1>6, <3>1, <3>3, <3>4, <3>5 DEF CloseAt
    <3> QED BY <3>2, <3>6
  <2> QED BY <2>5, <2>6
<1>16. \/ d[2] \notin table[p] /\ UNCHANGED <<inbox, state, telling>>
       \/ /\ d[2] \in table[p] /\ Arrived(p).n # 0
          /\ inbox' = [inbox EXCEPT ![d] = Append(@, Arrived(p).n)]
          /\ UNCHANGED <<state, telling>>
       \/ /\ d[2] \in table[p] /\ UNCHANGED inbox
          /\ \E how \in {"refused", "overrun"} : EndAs(d, how)
          /\ telling' = [telling EXCEPT ![p] = d[2]]
  BY <1>2 DEF OnFrame
<1> QED BY <1>13, <1>14, <1>15, <1>16

LEMMA PairOnCredit ==
  ASSUME TypeOK, OrderInv, CloseInv, NEW p \in Sides, OnCredit(p), NEW e \in Ends
  PROVE  OrderAt(e)' /\ CloseAt(e)'
<1>1. /\ queue[Other(p)] # <<>> /\ Consume(p) /\ Arrived(p).kind = "credit"
      /\ UNCHANGED <<sent, inbox, got, saw, state, closing, telling, last>>
  BY DEF OnCredit, Arrives, Arrived, recvVars, endVars
<1>2. e[1] \in Sides /\ Other(e[1]) \in Sides /\ Far(e) \in Ends
  BY EndFacts
<1>3. /\ OrderAt(e) /\ CloseAt(e) /\ Far(e)' = Far(e)
      /\ Ended(e) /\ Ended(Far(e)) /\ Reached(Far(e))' = Reached(Far(e))
  BY <1>1, <1>2 DEF OrderInv, CloseInv, Far, Other, Ended, Reached
<1>4. \A c : ~IsFrame(Arrived(p), c) /\ ~IsClose(Arrived(p), c)
  BY <1>1 DEF IsFrame, IsClose
<1>5. /\ \A lo, hi \in Nat : InOrder(queue[Other(e[1])], e[2], lo, hi)
                              => InOrder(queue'[Other(e[1])], e[2], lo, hi)
      /\ HasClose(queue'[e[1]], e[2]) <=> HasClose(queue[e[1]], e[2])
      /\ \A l, h \in Nat : CloseOrder(queue[e[1]], e[2], l, h) => CloseOrder(queue'[e[1]], e[2], l, h)
  BY <1>1, <1>2, <1>4, ConsumeKeepsOrder
<1>6. OrderAt(e)'
  BY <1>1, <1>3, <1>5, OrderKept
<1>7. CloseAt(e)'
  BY <1>1, <1>2, <1>3, <1>5, CloseKept
<1> QED BY <1>6, <1>7

LEMMA PairOnClose ==
  ASSUME TypeOK, TableInv, OrderInv, CloseInv, NEW p \in Sides, OnClose(p), NEW e \in Ends
  PROVE  OrderAt(e)' /\ CloseAt(e)'
<1>1. /\ queue[Other(p)] # <<>> /\ Consume(p) /\ Arrived(p).kind = "close"
      /\ UNCHANGED <<sent, inbox, got, saw, closing, telling, last>>
  BY DEF OnClose, Arrives, Arrived, sendVars, recvVars
<1>2. PICK d \in Ends : d = <<p, Arrived(p).channel>> /\ d[1] = p /\ d[2] = Arrived(p).channel
  <2>1. Arrived(p).channel \in Channels
    BY <1>1, ConsumeTypes
  <2> QED BY <2>1, EndOf, ZenonT(60)
<1>3. /\ Other(p) \in Sides /\ Other(p) # p
      /\ e[1] \in Sides /\ e[2] \in Channels /\ e = <<e[1], e[2]>> /\ Other(e[1]) \in Sides
      /\ Other(Other(e[1])) = e[1] /\ Far(e) \in Ends /\ Far(e) # e /\ Far(Far(e)) = e
  BY EndFacts, SideFacts
<1>4. PICK f \in Ends : /\ f = Far(d) /\ f[1] = Other(p) /\ f[2] = d[2] /\ f # d /\ Far(f) = d
                        /\ f = <<Other(p), d[2]>>
  BY <1>2, EndFacts
<1>5. PICK q \in Seq(Notices) :
    /\ q = queue[Other(p)] /\ q # <<>> /\ q[1] = Arrived(p)
    /\ queue'[Other(p)] = Tail(q) /\ queue'[p] = queue[p]
  <2>1. queue \in [Sides -> Seq(Notices)]
    BY DEF TypeOK, Notices
  <2>2. queue[Other(p)] \in Seq(Notices) /\ Head(queue[Other(p)]) = queue[Other(p)][1]
    BY <1>1, <1>3, <2>1
  <2> QED BY <1>1, <1>3, <2>1, <2>2 DEF Consume, Arrived
<1>6. /\ OrderAt(e) /\ CloseAt(e) /\ OrderAt(d) /\ CloseAt(d) /\ CloseAt(f)
      /\ Far(e)' = Far(e) /\ Other(e[1])' = Other(e[1]) /\ Far(d)' = f /\ Far(f)' = d
  BY <1>2, <1>4, <1>3 DEF OrderInv, CloseInv, Far, Other
<1>7. \A x \in Ends : Reached(x) \in Nat /\ sent[x] \in Nat /\ last[x] \in Nat
  BY ReachedType
<1>8. d[2] \in table[p] <=> state[d] = "open"
  BY <1>2 DEF TableInv
<1>9. \A lo, hi \in Nat : InOrder(queue[Other(e[1])], e[2], lo, hi)
                           => InOrder(queue'[Other(e[1])], e[2], lo, hi)
  <2>1. ~IsFrame(Arrived(p), e[2])
    BY <1>1 DEF IsFrame
  <2> QED BY <1>1, <1>3, <2>1, ConsumeKeepsOrder
<1>10. \A l, h \in Nat : CloseOrder(queue[e[1]], e[2], l, h) => CloseOrder(queue'[e[1]], e[2], l, h)
  BY <1>1, <1>3, ConsumeKeepsOrder
<1>11. ASSUME e # f PROVE HasClose(queue'[e[1]], e[2]) <=> HasClose(queue[e[1]], e[2])
  <2>1. e[1] = p \/ ~IsClose(Arrived(p), e[2])
    <3>1. CASE e[2] = d[2]
      <4>1. e[1] # Other(p)
        BY <1>3, <1>4, <1>11, <3>1
      <4> QED BY <1>3, <4>1, SideFacts
    <3>2. CASE e[2] # d[2]
      BY <1>2, <3>2 DEF IsClose
    <3> QED BY <3>1, <3>2
  <2> QED BY <1>1, <1>3, <2>1, ConsumeKeepsOrder
<1>12. IsClose(q[1], d[2])
  BY <1>1, <1>2, <1>5 DEF IsClose
<1>13. CloseOrder(q, d[2], last[f], sent[f])
  BY <1>4, <1>5, <1>6 DEF CloseAt
<1>14. /\ HasClose(q, d[2]) /\ ~HasClose(Tail(q), d[2])
       /\ \A i \in 1 .. Len(q) : IsFrame(q[i], d[2]) => q[i].n > last[f]
  BY <1>5, <1>7, <1>12, <1>13, CloseAhead
<1>15. Told(f) /\ ~Told(f)'
  BY <1>4, <1>5, <1>14 DEF Told
<1>16. Reached(e)' = Reached(e) /\ Reached(Far(e))' = Reached(Far(e))
  BY <1>1, <1>6 DEF Reached
<1>17. CloseOrder(queue'[e[1]], e[2], last'[e], sent'[e]) /\ last'[e] <= sent'[e]
  BY <1>1, <1>6, <1>7, <1>10 DEF CloseAt
<1>18. Telling(e)' <=> Telling(e)
  BY <1>1 DEF Telling
<1>19. CASE d[2] \notin table[p] /\ UNCHANGED state
  <2>1. Ended(e) /\ Ended(Far(e))
    BY <1>19 DEF Ended
  <2>2. OrderAt(e)'
    BY <1>1, <1>6, <1>9, <2>1, OrderKept
  <2>3. CASE e # f
    <3>1. CloseAt(e)'
      BY <1>1, <1>3, <1>6, <1>10, <1>11, <1>16, <2>1, <2>3, CloseKept
    <3> QED BY <2>2, <3>1
  <2>4. CASE e = f
    <3>1. CloseAt(e)'
      BY <1>1, <1>6, <1>15, <1>17, <1>18, <1>19, <2>4 DEF CloseAt
    <3> QED BY <2>2, <3>1
  <2> QED BY <2>3, <2>4
<1>20. CASE d[2] \in table[p] /\ EndAs(d, "remote")
  <2>1. /\ state[d] = "open" /\ state'[d] = "remote"
        /\ \A x \in Ends : x # d => state'[x] = state[x]
    <3>1. state[d] = "open"
      BY <1>8, <1>20
    <3> QED BY <1>20, <3>1 DEF EndAs, TypeOK
  <2>2. OrderAt(e)'
    <3>1. CASE e # d
      <4>1. Ended(e)
        BY <2>1, <3>1 DEF Ended
      <4> QED BY <1>1, <1>6, <1>9, <4>1, OrderKept
    <3>2. CASE e = d
      <4>1. InOrder(q, d[2], Reached(d), sent[f])
        BY <1>2, <1>4, <1>5, <1>6, <2>1 DEF OrderAt
      <4>2. Reached(d) <= last[f] /\ last[f] <= sent[f]
        BY <1>4, <1>6, <1>15, <2>1 DEF CloseAt
      <4>3. Reached(d) = last[f]
        <5> SUFFICES ASSUME Reached(d) # last[f] PROVE FALSE
          OBVIOUS
        <5>1. Reached(d) + 1 \in Reached(d) + 1 .. sent[f] /\ Reached(d) + 1 <= last[f]
          BY <1>7, <4>2
        <5>2. PICK i \in 1 .. Len(q) : IsFrame(q[i], d[2]) /\ q[i].n = Reached(d) + 1
          BY <4>1, <5>1 DEF InOrder
        <5> QED BY <1>7, <1>14, <5>1, <5>2
      <4>4. saw'[e] = "none"
        BY <1>1, <1>6, <2>1, <3>2 DEF OrderAt
      <4>5. Reached(e)' = last'[Far(e)]
        BY <1>1, <1>4, <1>16, <3>2, <4>3
      <4> QED BY <1>1, <1>6, <2>1, <3>2, <4>4, <4>5 DEF OrderAt
    <3> QED BY <3>1, <3>2
  <2>3. CASE e # f /\ e # d
    <3>1. Far(e) # d
      BY <1>3, <1>4, <2>3
    <3>2. Ended(e) /\ Ended(Far(e))
      BY <1>3, <2>1, <2>3, <3>1 DEF Ended
    <3>3. CloseAt(e)'
      BY <1>1, <1>3, <1>6, <1>10, <1>11, <1>16, <2>3, <3>2, CloseKept
    <3> QED BY <2>2, <3>3
  <2>4. CASE e = d
    <3>1. ~Told(e) /\ ~Telling(e) /\ state[Far(e)] # "remote"
      BY <1>6, <2>1, <2>4 DEF CloseAt
    <3>2. ~Told(e)' /\ ~Telling(e)' /\ state'[Far(e)] # "remote"
      BY <1>3, <1>4, <1>11, <1>18, <2>1, <2>4, <3>1 DEF Told
    <3>3. CloseAt(e)'
      BY <1>6, <1>17, <2>1, <2>4, <3>2 DEF CloseAt, Telling
    <3> QED BY <2>2, <3>3
  <2>5. CASE e = f
    <3>1. ~Telling(e) /\ state[e] \notin {"absent", "open"}
      BY <1>6, <1>15, <2>5 DEF CloseAt
    <3>2. ~Telling(e)' /\ ~Told(e)' /\ state'[e] \notin {"absent", "open"}
      BY <1>4, <1>15, <1>18, <2>1, <2>5, <3>1
    <3>3. CloseAt(e)'
      BY <1>17, <3>2 DEF CloseAt, Telling
    <3> QED BY <2>2, <3>3
  <2> QED BY <2>3, <2>4, <2>5
<1>21. \/ d[2] \notin table[p] /\ UNCHANGED state
       \/ d[2] \in table[p] /\ EndAs(d, "remote")
  BY <1>2 DEF OnClose
<1> QED BY <1>19, <1>20, <1>21

\* The close of an end is told, or lost with its outer peer.
LEMMA PairTelling ==
  ASSUME TypeOK, OrderInv, CloseInv, NEW d \in Ends, Telling(d), ~Telling(d)',
         Emit(d[1], CloseNotice(d[2])) \/ UNCHANGED queue,
         last' = [last EXCEPT ![d] = sent[d]],
         UNCHANGED <<sent, inbox, got, saw, state>>,
         \A x \in Ends : x # d => /\ x \in closing' => x \in closing
                                  /\ telling'[x[1]] = x[2] => telling[x[1]] = x[2],
         NEW e \in Ends
  PROVE  OrderAt(e)' /\ CloseAt(e)'
<1>1. /\ e[1] \in Sides /\ e[2] \in Channels /\ e = <<e[1], e[2]>> /\ Other(e[1]) \in Sides
      /\ Far(e) \in Ends /\ Far(Far(e)) = e
      /\ d[1] \in Sides /\ d[2] \in Channels /\ d = <<d[1], d[2]>>
  BY EndFacts
<1>2. PICK f \in Ends : f = Far(d) /\ f[1] = Other(d[1]) /\ f[2] = d[2] /\ Far(f) = d /\ Other(f[1]) = d[1]
  BY EndFacts
<1>3. /\ OrderAt(e) /\ CloseAt(e) /\ CloseAt(d) /\ OrderAt(f)
      /\ Far(e)' = Far(e) /\ Ended(e) /\ Ended(Far(e)) /\ Reached(Far(e))' = Reached(Far(e))
  BY <1>1 DEF OrderInv, CloseInv, Far, Other, Ended, Reached
<1>4. \A x \in Ends : Reached(x) \in Nat /\ sent[x] \in Nat /\ last[x] \in Nat
  BY ReachedType
<1>5. /\ state[d] \notin {"absent", "open"} /\ ~Told(d) /\ state[f] # "remote"
      /\ CloseOrder(queue[d[1]], d[2], last[d], sent[d])
  BY <1>2, <1>3 DEF CloseAt
<1>6. PICK g \in Notices : g.kind = "close" /\ g.channel = d[2] /\ (Emit(d[1], g) \/ UNCHANGED queue)
  BY <1>1, NoticeTypes DEF CloseNotice
<1>7. \A c : ~IsFrame(g, c) /\ (IsClose(g, c) <=> c = d[2])
  BY <1>6 DEF IsFrame, IsClose
<1>8. last'[d] = sent[d] /\ \A x \in Ends : x # d => last'[x] = last[x]
  BY DEF TypeOK
<1>9. OrderAt(e)'
  <2>1. \A lo, hi \in Nat : InOrder(queue[Other(e[1])], e[2], lo, hi)
                             => InOrder(queue'[Other(e[1])], e[2], lo, hi)
    <3>1. CASE UNCHANGED queue
      BY <3>1
    <3>2. CASE Emit(d[1], g)
      BY <1>1, <1>7, <3>2, EmitKeepsOrder
    <3> QED BY <1>6, <3>1, <3>2
  <2>2. state[e] = "remote" => last'[Far(e)] = last[Far(e)]
    <3>1. CASE Far(e) = d
      <4>1. e = f
        BY <1>1, <1>2, <3>1
      <4> QED BY <1>5, <4>1
    <3>2. CASE Far(e) # d
      BY <1>1, <1>8, <3>2
    <3> QED BY <3>1, <3>2
  <2> QED BY <1>3, <2>1, <2>2, OrderKept
<1>10. CASE e # d
  <2>1. e[1] # d[1] \/ (~IsFrame(g, e[2]) /\ ~IsClose(g, e[2]))
    BY <1>1, <1>7, <1>10
  <2>2. /\ HasClose(queue'[e[1]], e[2]) <=> HasClose(queue[e[1]], e[2])
        /\ \A l, h \in Nat : CloseOrder(queue[e[1]], e[2], l, h) => CloseOrder(queue'[e[1]], e[2], l, h)
    BY <1>1, <1>6, <2>1, EmitKeepsOrder
  <2>3. CloseAt(e)'
    BY <1>1, <1>3, <1>8, <1>10, <2>2, CloseKept
  <2> QED BY <1>9, <2>3
<1>11. CASE e = d
  <2>1. CloseOrder(queue'[d[1]], d[2], sent[d], sent[d])
    <3>1. CASE UNCHANGED queue
      <4>1. ~HasClose(queue[d[1]], d[2])
        BY <1>5 DEF Told
      <4> QED BY <1>5, <3>1, <4>1 DEF CloseOrder, HasClose
    <3>2. CASE Emit(d[1], g)
      <4>1. queue \in [Sides -> Seq(Notices)]
        BY DEF TypeOK, Notices
      <4>2. queue[d[1]] \in Seq(Notices) /\ queue'[d[1]] = Append(queue[d[1]], g)
        BY <1>1, <3>2, <4>1 DEF Emit
      <4>3. IsClose(g, d[2]) /\ ~HasClose(queue[d[1]], d[2])
        BY <1>5, <1>7 DEF Told
      <4>4. sent[d] \in Nat /\ last[d] \in Nat
        BY <1>4
      <4>5. CloseOrder(Append(queue[d[1]], g), d[2], sent[d], sent[d])
        BY <1>5, <4>2, <4>3, <4>4, CloseBehind
      <4> QED BY <4>2, <4>5
    <3> QED BY <1>6, <3>1, <3>2
  <2>2. state[f] = "open" => Reached(f) <= sent[d]
    BY <1>2, <1>3 DEF OrderAt, InOrder
  <2>3. Far(e)' = f /\ Reached(f)' = Reached(f) /\ state'[f] = state[f] /\ state'[e] \notin {"absent", "open"}
    BY <1>2, <1>3, <1>5, <1>11 DEF Reached
  <2>4. ~Telling(e)' /\ ~(e \in closing' /\ telling'[e[1]] = e[2])
    BY <1>11 DEF Telling
  <2>5. CloseOrder(queue'[e[1]], e[2], last'[e], sent'[e]) /\ last'[e] <= sent'[e]
    BY <1>4, <1>8, <1>11, <2>1
  <2>6. state'[f] = "open" => Reached(f)' <= last'[e]
    BY <1>8, <1>11, <2>2, <2>3
  <2>7. CloseAt(e)'
    BY <1>5, <2>3, <2>4, <2>5, <2>6 DEF CloseAt
  <2> QED BY <1>9, <2>7
<1> QED BY <1>10, <1>11

LEMMA PairTell ==
  ASSUME TypeOK, OrderInv, CloseInv, NEW p \in Sides, Tell(p), NEW e \in Ends
  PROVE  OrderAt(e)' /\ CloseAt(e)'
<1>1. telling[p] \in Channels /\ telling[p] # 0
  BY DEF Tell, TypeOK
<1>2. PICK d \in Ends : d = <<p, telling[p]>> /\ d[1] = p /\ d[2] = telling[p]
  BY <1>1, EndOf
<1>3. /\ Emit(d[1], CloseNotice(d[2])) \/ UNCHANGED queue
      /\ last' = [last EXCEPT ![d] = sent[d]] /\ telling' = [telling EXCEPT ![p] = 0]
      /\ UNCHANGED <<sent, inbox, got, saw, state, closing>>
  BY <1>2 DEF Tell, sendVars, recvVars
<1>4. Telling(d) /\ d \notin closing
  <2>1. CloseAt(d)
    BY DEF CloseInv
  <2> QED BY <1>2, <2>1 DEF CloseAt, Telling
<1>5. telling'[p] = 0 /\ \A r \in Sides : r # p => telling'[r] = telling[r]
  BY <1>3 DEF TypeOK
<1>6. \A x \in Ends : x[1] \in Sides /\ x[2] # 0
  BY EndFacts, TunnelAssumption
<1>7. ~Telling(d)'
  BY <1>1, <1>2, <1>3, <1>4, <1>5 DEF Telling
<1>8. \A x \in Ends : telling'[x[1]] = x[2] => telling[x[1]] = x[2]
  BY <1>5, <1>6
<1> QED BY <1>3, <1>4, <1>7, <1>8, PairTelling

LEMMA PairCloseTold ==
  ASSUME TypeOK, OrderInv, CloseInv, NEW d \in Ends, CloseTold(d), NEW e \in Ends
  PROVE  OrderAt(e)' /\ CloseAt(e)'
<1>1. /\ Emit(d[1], CloseNotice(d[2])) \/ UNCHANGED queue
      /\ last' = [last EXCEPT ![d] = sent[d]] /\ d \in closing /\ closing' = closing \ {d}
      /\ UNCHANGED <<sent, inbox, got, saw, state, telling>>
  BY DEF CloseTold, sendVars, recvVars
<1>2. Telling(d) /\ telling[d[1]] # d[2]
  <2>1. CloseAt(d)
    BY DEF CloseInv
  <2> QED BY <1>1, <2>1 DEF CloseAt, Telling
<1>3. ~Telling(d)'
  BY <1>1, <1>2 DEF Telling
<1> QED BY <1>1, <1>2, <1>3, PairTelling

LEMMA PairClose ==
  ASSUME TypeOK, OrderInv, CloseInv, NEW d \in Ends, Close(d), NEW e \in Ends
  PROVE  OrderAt(e)' /\ CloseAt(e)'
<1>1. /\ EndAs(d, "closed")
      /\ closing' = IF state[d] = "open" THEN closing \cup {d} ELSE closing
      /\ UNCHANGED <<sent, inbox, got, saw, queue, telling, last>>
  BY DEF Close, sendVars, recvVars
<1>2. \A x \in Ends : state'[x] = IF x = d /\ state[d] = "open" THEN "closed" ELSE state[x]
  BY <1>1 DEF EndAs, TypeOK
<1>3. \A x \in Ends : Ended(x)
  BY <1>2 DEF Ended
<1>4. Far(e) \in Ends /\ Far(e) # e
  BY EndFacts
<1>5. /\ OrderAt(e) /\ CloseAt(e) /\ Far(e)' = Far(e) /\ Reached(Far(e))' = Reached(Far(e))
  BY <1>1 DEF OrderInv, CloseInv, Far, Other, Reached
<1>6. OrderAt(e)'
  BY <1>1, <1>3, <1>5, OrderKept
<1>7. CASE e # d \/ state[d] # "open"
  <2>1. e \in closing' => e \in closing
    BY <1>1, <1>7
  <2>2. CloseAt(e)'
    BY <1>1, <1>3, <1>4, <1>5, <2>1, CloseKept
  <2> QED BY <1>6, <2>2
<1>8. CASE e = d /\ state[d] = "open"
  <2>1. ~Told(e) /\ ~Telling(e) /\ state[Far(e)] # "remote"
    BY <1>5, <1>8 DEF CloseAt
  <2>2. ~Told(e)' /\ state'[e] = "closed" /\ state'[Far(e)] = state[Far(e)] /\ telling'[e[1]] # e[2]
    BY <1>1, <1>2, <1>4, <1>8, <2>1 DEF Told, Telling
  <2>3. CloseAt(e)'
    BY <1>1, <1>5, <2>1, <2>2 DEF CloseAt
  <2> QED BY <1>6, <2>3
<1> QED BY <1>7, <1>8

LEMMA PairStep ==
  ASSUME TypeOK, TableInv, QuietInv, OrderInv, CloseInv, [Next]_vars
  PROVE  OrderInv' /\ CloseInv'
<1> SUFFICES ASSUME NEW e \in Ends PROVE OrderAt(e)' /\ CloseAt(e)'
  BY DEF OrderInv, CloseInv
<1>1. ASSUME NEW c \in Channels, Opening(c) PROVE OrderAt(e)' /\ CloseAt(e)'
  BY <1>1, PairOpening
<1>2. ASSUME NEW d \in Ends, Sending(d) \/ Receiving(d) \/ Close(d) \/ CloseTold(d)
      PROVE  OrderAt(e)' /\ CloseAt(e)'
  BY <1>2, PairSending, PairReceiving, PairClose, PairCloseTold
<1>3. ASSUME NEW p \in Sides, Eventing(p) PROVE OrderAt(e)' /\ CloseAt(e)'
  BY <1>3, PairOnFrame, PairOnCredit, PairOnClose, PairTell DEF Eventing
<1>4. ASSUME UNCHANGED <<sent, inbox, got, saw, closing, telling, last, queue>>, \A x \in Ends : Ended(x)
      PROVE  OrderAt(e)' /\ CloseAt(e)'
  BY <1>4, PairKept
<1>5. ASSUME NEW p \in Sides, Taking(p) \/ OuterEnd(p) PROVE OrderAt(e)' /\ CloseAt(e)'
  <2>1. UNCHANGED <<sent, inbox, got, saw, state, closing, telling, last, queue>>
    BY <1>5 DEF Taking, Accept, Resolve, OuterEnd, sendVars, recvVars, endVars
  <2> QED BY <1>4, <2>1 DEF Ended
<1>6. ASSUME NEW p \in Sides, Watch(p) PROVE OrderAt(e)' /\ CloseAt(e)'
  <2>1. UNCHANGED <<sent, inbox, got, saw, closing, telling, last, queue>>
    BY <1>6 DEF Watch, sendVars, recvVars
  <2>2. \A x \in Ends : state'[x] = state[x] \/ (state[x] = "open" /\ state'[x] = "gone")
    BY <1>6 DEF Watch
  <2> QED BY <1>4, <2>1, <2>2 DEF Ended
<1>7. CASE UNCHANGED vars
  <2>1. UNCHANGED <<sent, inbox, got, saw, state, closing, telling, last, queue>>
    BY <1>7 DEF vars, sendVars, recvVars, endVars
  <2> QED BY <1>4, <2>1 DEF Ended
<1> QED BY <1>1, <1>2, <1>3, <1>5, <1>6, <1>7 DEF Next

-----------------------------------------------------------------------------
(* The invariant, and what follows from it.                                *)

\* A frame that finds no room makes one more than the window was given for.
LEMMA OverrunStep ==
  ASSUME TypeOK, TypeOK', TableInv, FlowInv, NeverOverrun, [Next]_vars
  PROVE  NeverOverrun'
<1> SUFFICES ASSUME NEW e \in Ends, state'[e] = "overrun" PROVE Other(e[1]) \in Greedy'
  BY DEF NeverOverrun, Other
<1>1. Greedy' = Greedy
  BY DEF Next, vars, Greedy, Opening, OpenCall, OpenReceived, Admit, OpenReturns, OpenFails, Taking, Accept,
     Resolve, Sending, SendTakes, SendWaits, SendEmits, SendGivesUp, SendFails, Receiving, Receive,
     ReturnCredit, CreditLost, ReceiveEnd, Eventing, OnFrame, OnCredit, OnClose, Tell, Close, CloseTold,
     OuterEnd, Watch
<1>2. CASE state[e] = "overrun"
  BY <1>1, <1>2 DEF NeverOverrun
<1>3. CASE state[e] # "overrun"
  <2>10. \A x : state' # [state EXCEPT ![x] = "open"]
    BY <1>3 DEF TypeOK
  <2>11. \A x, how : EndAs(x, how) => e = x /\ how = "overrun"
    BY <1>3 DEF EndAs, TypeOK
  <2>12. state' # state
    BY <1>3
  <2>1. PICK p \in Sides : OnFrame(p)
    <3>1. ASSUME NEW c \in Channels, Opening(c) PROVE FALSE
      <4>1. CASE OpenCall(c)
        BY <2>10, <4>1 DEF OpenCall
      <4>2. CASE Admit(c)
        <5>1. UNCHANGED state \/ state' = [state EXCEPT ![<<Acceptor(c), c>>] = "open"]
          BY <4>2 DEF Admit
        <5> QED BY <2>10, <2>12, <5>1
      <4>3. CASE OpenReceived(c) \/ OpenReturns(c)
        BY <2>12, <4>3 DEF OpenReceived, OpenReturns, endVars
      <4>4. CASE OpenFails(c)
        BY <2>11, <4>4 DEF OpenFails
      <4> QED BY <3>1, <4>1, <4>2, <4>3, <4>4 DEF Opening
    <3>2. ASSUME NEW d \in Ends, Sending(d) \/ Receiving(d) \/ CloseTold(d) PROVE FALSE
      BY <1>3, <3>2 DEF Sending, SendTakes, SendWaits, SendEmits, SendGivesUp, SendFails,
         Receiving, Receive, ReturnCredit, CreditLost, ReceiveEnd, CloseTold, endVars
    <3>3. ASSUME NEW d \in Ends, Close(d) PROVE FALSE
      BY <2>11, <3>3 DEF Close
    <3>4. ASSUME NEW p \in Sides, Taking(p) \/ OnCredit(p) \/ OnClose(p) \/ Tell(p) \/ OuterEnd(p) PROVE FALSE
      <4>1. CASE OnClose(p)
        <5>1. UNCHANGED state \/ EndAs(<<p, Arrived(p).channel>>, "remote")
          BY <4>1 DEF OnClose
        <5> QED BY <2>11, <2>12, <5>1
      <4>2. CASE Taking(p) \/ OnCredit(p) \/ Tell(p) \/ OuterEnd(p)
        BY <2>12, <4>2 DEF Taking, Accept, Resolve, OnCredit, Tell, OuterEnd, endVars
      <4> QED BY <3>4, <4>1, <4>2
    <3>5. ASSUME NEW p \in Sides, Watch(p) PROVE FALSE
      BY <1>3, <3>5 DEF Watch
    <3>6. ~UNCHANGED vars
      BY <1>3 DEF vars, endVars
    <3> QED BY <3>1, <3>2, <3>3, <3>4, <3>5, <3>6 DEF Next, Eventing
  <2>2. queue[Other(p)] # <<>> /\ Consume(p) /\ Arrived(p).kind = "frame"
    BY <2>1 DEF OnFrame, Arrives, Arrived
  <2>3. PICK d \in Ends : d = <<p, Arrived(p).channel>> /\ d[1] = p /\ d[2] = Arrived(p).channel
    <3>1. Arrived(p).channel \in Channels
      BY <2>1, <2>2, ConsumeTypes
    <3>2. p \in Sides
      BY <2>1
    <3>3. <<p, Arrived(p).channel>> \in Ends
      BY <3>1, <3>2 DEF Ends
    <3> QED BY <3>3
  <2>4. e = d /\ Len(inbox[d]) >= Window
    <3>1. \/ UNCHANGED state
          \/ EndAs(d, "refused")
          \/ EndAs(d, "overrun") /\ Len(inbox[d]) >= Window
      BY <2>1, <2>3 DEF OnFrame
    <3> QED BY <2>11, <2>12, <3>1
  <2>5. PICK f \in Ends : f = Far(d) /\ f[1] = Other(p) /\ f[2] = d[2] /\ Far(f) = d
    BY <2>3, EndFacts
  <2>6. Frames(f) >= 1
    <3>1. Frames(f)' = Frames(f) - 1
      BY <2>2, <2>3, <2>5, ConsumeCounts
    <3>2. Frames(f)' \in Nat /\ Frames(f) \in Nat
      BY CountTypes, CountTypesNext DEF Counted
    <3> QED BY <3>1, <3>2
  <2>7. Spent(f) > Window
    <3>1. Counted(f)
      BY CountTypes
    <3>2. Here(f) >= 1
      BY <2>6, <3>1 DEF Counted
    <3>3. There(f) >= Window
      <4>1. /\ There(f) = Len(inbox[d]) + taken[d] + crediting[d] + Returning(f)
            /\ Len(inbox[d]) \in Nat /\ taken[d] \in Nat /\ crediting[d] \in Nat
        BY <2>5, <3>1 DEF Counted
      <4>2. Returning(f) \in Nat /\ Window \in Nat
        BY <3>1 DEF Counted
      <4>3. PICK k \in Nat, t \in Nat, r \in Nat, m \in Nat, w \in Nat :
              k = Len(inbox[d]) /\ t = taken[d] /\ r = crediting[d] /\ m = Returning(f) /\ w = Window
        BY <4>1, <4>2
      <4>4. k + t + r + m >= w
        BY <2>4, <4>3, SMTT(30)
      <4> QED BY <4>1, <4>3, <4>4
    <3> QED BY <3>1, <3>2, <3>3 DEF Counted
  <2>8. Given(f) <= Window
    BY WindowType DEF Given
  <2>9. f[1] \in Greedy
    <3>1. Spent(f) \in Nat /\ Given(f) \in Nat /\ Window \in Nat
      BY CountTypes DEF Counted
    <3>2. f[1] \notin Greedy => Spent(f) <= Given(f)
      BY DEF FlowInv, FlowAt
    <3> QED BY <2>7, <2>8, <3>1, <3>2
  <2> QED BY <1>1, <2>3, <2>4, <2>5, <2>9
<1> QED BY <1>2, <1>3

TunnelInv ==
  /\ TypeOK /\ TableInv /\ QuietInv
  /\ FlowInv /\ NeverOverrun
  /\ OrderInv /\ CloseInv

LEMMA TunnelInit == Init => TunnelInv
<1> SUFFICES ASSUME Init PROVE TunnelInv
  OBVIOUS
<1>1. TypeOK
  BY TypeInit
<1>2. \A e \in Ends : e[1] \in Sides /\ e[2] \in Channels /\ e[2] # 0 /\ Other(e[1]) \in Sides /\ Far(e) \in Ends
  BY EndFacts, TunnelAssumption
<1>3. TableInv
  BY <1>2 DEF Init, TableInv, PerEnd, PerSide
<1>4. \A e \in Ends : Quiet(e)
  BY <1>2 DEF Init, Quiet, PerEnd, PerSide
<1>5. \A p \in Sides : queue[p] = <<>> /\ Len(queue[p]) = 0
  BY DEF Init, PerSide
<1>6. FlowInv
  <2> SUFFICES ASSUME NEW e \in Ends PROVE FlowAt(e)
    BY DEF FlowInv
  <2>1. Frames(e) = 0 /\ Returning(e) = 0
    <3>1. Marks(queue[e[1]], "frame", e[2]) = {} /\ Worth(queue[Other(e[1])], e[2]) = {}
      BY <1>2, <1>5 DEF Marks, Worth
    <3> QED BY <3>1, CountsAreMarks, FS_EmptySet
  <2>2. PICK f \in Ends : f = Far(e)
    BY <1>2
  <2>3. /\ credit[e] = 0 /\ Emitting(e) = 0 /\ state[e] # "open"
        /\ Len(inbox[f]) = 0 /\ taken[f] = 0 /\ crediting[f] = 0
    BY DEF Init, PerEnd, Emitting
  <2>4. Spent(e) = 0 /\ Given(e) \in Nat
    BY <1>1, <2>1, <2>2, <2>3, CountTypes DEF Counted
  <2> QED BY <2>3, <2>4 DEF FlowAt, Whole
<1>7. NeverOverrun
  BY DEF Init, NeverOverrun, PerEnd
<1>8. OrderInv
  <2> SUFFICES ASSUME NEW e \in Ends PROVE OrderAt(e)
    BY DEF OrderInv
  <2>1. inbox[e] = <<>> /\ saw[e] = "none" /\ state[e] = "absent"
    BY DEF Init, PerEnd
  <2> QED BY <2>1 DEF OrderAt
<1>9. CloseInv
  <2> SUFFICES ASSUME NEW e \in Ends PROVE CloseAt(e)
    BY DEF CloseInv
  <2>1. state[Far(e)] = "absent" /\ last[e] = 0 /\ sent[e] = 0 /\ e \notin closing /\ telling[e[1]] # e[2]
    BY <1>2 DEF Init, PerEnd, PerSide
  <2>2. ~Told(e) /\ CloseOrder(queue[e[1]], e[2], last[e], sent[e])
    BY <1>2, <1>5 DEF Told, HasClose, CloseOrder
  <2> QED BY <2>1, <2>2 DEF CloseAt, Telling
<1> QED BY <1>1, <1>3, <1>4, <1>6, <1>7, <1>8, <1>9 DEF TunnelInv, QuietInv

LEMMA TunnelStep == TunnelInv /\ [Next]_vars => TunnelInv'
<1> SUFFICES ASSUME TunnelInv, [Next]_vars PROVE TunnelInv'
  OBVIOUS
<1>1. TypeOK /\ TableInv /\ QuietInv /\ FlowInv /\ NeverOverrun /\ OrderInv /\ CloseInv
  BY DEF TunnelInv
<1>2. \A e \in held : state[e] # "absent"
  BY <1>1, HeldStates
<1>3. TypeOK'
  BY <1>1, <1>2, TypeStep
<1>4. TableInv' /\ QuietInv'
  BY <1>1, <1>3, TableStep, QuietStep
<1>5. FlowInv' /\ NeverOverrun'
  BY <1>1, <1>3, FlowStep, OverrunStep
<1>6. OrderInv' /\ CloseInv'
  BY <1>1, PairStep
<1> QED BY <1>3, <1>4, <1>5, <1>6 DEF TunnelInv

LEMMA TunnelInvariant == Spec => []TunnelInv
BY TunnelInit, TunnelStep, PTL DEF Spec

\* The tunnel's tables, queues and inboxes keep their types: what a side has
\* pending are channels, and credit never goes below zero.
THEOREM TunnelTypes == Spec => []TypeOK
BY TunnelInvariant, PTL DEF TunnelInv

\* Whatever the window, the channels and the order of events, a sender of this
\* implementation never has more on the way than the window it was given: a
\* channel is refused as overrun only when the far side ignores credit.
THEOREM SendersKeepTheWindow == Spec => []NeverOverrun
BY TunnelInvariant, PTL DEF TunnelInv

\* Credit that is spent is on the way, with the far side or on its way back:
\* with both outer peers up and room for what they queue, a sender waits only
\* when all of its window is there.
THEOREM NoCreditIsLost == Spec => []WindowAccounted
<1>1. TunnelInv => WindowAccounted
  <2> SUFFICES ASSUME TunnelInv, Steady, outer = PerSide("up"), NEW e \in Ends,
                      e[1] \notin Greedy, credit[e] = 0, state[e] = "open", state[Far(e)] = "open",
                      e[1] = Opener(e[2]) => open[e[2]] = "opened"
               PROVE  InUse(e) = Window
    BY DEF WindowAccounted, WaitsOnlyPastWindow
  <2>1. TypeOK /\ TableInv /\ FlowAt(e)
    BY DEF TunnelInv, FlowInv
  <2>2. Spent(e) = Given(e)
    BY <2>1 DEF FlowAt, Whole
  <2>3. Given(e) = Window
    BY <2>1 DEF Given, TableInv
  <2>4. Spent(e) = 0 + InUse(e) /\ Spent(e) \in Nat
    BY <2>1, CountTypes DEF Spent, Counted
  <2>5. InUse(e) \in Nat
    <3>1. Emitting(e) \in Nat /\ Frames(e) \in Nat /\ Returning(e) \in Nat
          /\ Len(inbox[Far(e)]) \in Nat /\ taken[Far(e)] \in Nat /\ crediting[Far(e)] \in Nat
      BY <2>1, CountTypes DEF Counted
    <3>2. InUse(e) = Emitting(e) + Frames(e) + Len(inbox[Far(e)]) + taken[Far(e)] + crediting[Far(e)] + Returning(e)
      BY DEF InUse, Emitting, Frames
    <3> QED BY <3>1, <3>2, SMTT(30)
  <2> QED BY <2>2, <2>3, <2>4, <2>5
<1> QED BY <1>1, TunnelInvariant, PTL

\* The consumer is given the close of the far side behind every frame that was
\* queued before it, also when frames follow it.
THEOREM ClosesComeLast == Spec => []CloseComesLast
<1>1. TunnelInv => CloseComesLast
  <2> SUFFICES ASSUME TunnelInv, NEW e \in Ends, saw[e] = "remote" PROVE got[e] = last[Far(e)]
    BY DEF CloseComesLast
  <2>1. OrderAt(e) /\ got[e] \in Nat
    BY ReachedType DEF TunnelInv, OrderInv
  <2>2. inbox[e] = <<>> /\ Reached(e) = last[Far(e)]
    BY <2>1 DEF OrderAt
  <2> QED BY <2>1, <2>2 DEF Reached
<1> QED BY <1>1, TunnelInvariant, PTL

\* What a consumer takes is the next frame in the order they were sent.
THEOREM FramesComeInOrder == Spec => FramesInOrder
<1>1. TunnelInv /\ [Next]_vars => [\A e \in Ends : got'[e] \in {got[e], got[e] + 1}]_vars
  <2> SUFFICES ASSUME TunnelInv, Next, NEW e \in Ends PROVE got'[e] \in {got[e], got[e] + 1}
    BY DEF vars, recvVars
  <2>1. CASE UNCHANGED got
    BY <2>1
  <2>2. ASSUME NEW d \in Ends, Receive(d) PROVE got'[e] \in {got[e], got[e] + 1}
    <3>1. got' = [got EXCEPT ![d] = Head(inbox[d])] /\ inbox[d] # <<>>
      BY <2>2 DEF Receive
    <3>2. TypeOK /\ OrderAt(d)
      BY DEF TunnelInv, OrderInv
    <3>3. inbox[d] \in Seq(Nat)
      BY <3>2 DEF TypeOK
    <3>4. Head(inbox[d]) = inbox[d][1] /\ 1 \in DOMAIN inbox[d]
      BY <3>1, <3>3
    <3>5. Head(inbox[d]) = got[d] + 1
      BY <3>2, <3>4 DEF OrderAt
    <3> QED BY <3>1, <3>2, <3>5 DEF TypeOK
  <2>3. ASSUME NEW c \in Channels, Opening(c) PROVE UNCHANGED got
    BY <2>3 DEF Opening, OpenCall, OpenReceived, Admit, OpenReturns, OpenFails, recvVars
  <2>4. ASSUME NEW d \in Ends, Sending(d) \/ ReturnCredit(d) \/ CreditLost(d) \/ ReceiveEnd(d) \/ Close(d) \/ CloseTold(d)
        PROVE  UNCHANGED got
    BY <2>4 DEF Sending, SendTakes, SendWaits, SendEmits, SendGivesUp, SendFails, ReturnCredit, CreditLost,
       ReceiveEnd, Close, CloseTold, recvVars
  <2>5. ASSUME NEW p \in Sides, Taking(p) \/ Eventing(p) \/ OuterEnd(p) \/ Watch(p) PROVE UNCHANGED got
    BY <2>5 DEF Taking, Accept, Resolve, Eventing, OnFrame, OnCredit, OnClose, Tell, OuterEnd, Watch, recvVars
  <2> QED BY <2>1, <2>2, <2>3, <2>4, <2>5 DEF Next, Receiving
<1> QED BY <1>1, TunnelInvariant, PTL DEF Spec, FramesInOrder
=============================================================================
