------------------------------- MODULE Routing -------------------------------
(***************************************************************************)
(* The endpoints composed above a carrier, each owning one attachment to   *)
(* what is below it and lending one to what is above: Through over an      *)
(* origin, Mount over its children, a Dispatcher over one endpoint, the    *)
(* views selected of it, and any of these over the views again; and one    *)
(* request that comes up through them, whose lifecycle is module           *)
(* Invocation.  There is one dispatcher.  A route of it, exact or of a     *)
(* prefix, is an endpoint too: its place is the dispatcher's entry for it, *)
(* and a view is over the route of its prefix.                             *)
(*                                                                         *)
(* No lock is held across two of them: Receive, detach, Closed and Close   *)
(* are calls into the next one, and those of several goroutines interleave.*)
(* A goroutine is the stack of the calls it is in, topmost first, and each *)
(* section under a lock is one step of it.                                 *)
(***************************************************************************)
EXTENDS Invocation, Sequences

CONSTANTS
  Kind,         \* each endpoint's: "root", "through", "mount", "dispatcher", "view",
                \* or "exact" and "prefix" for the dispatcher's routes
  Path,         \* the path of each route
  Apps,         \* the attachments of applications
  Surroundings  \* who is composed with whom and does what, one choice per behaviour

Endpoints == DOMAIN Kind
Dispatcher == CHOOSE e \in Endpoints : Kind[e] = "dispatcher"
Own == 0        \* the dispatcher's own attachment
Nobody == -1

Exact == {e \in Endpoints : Kind[e] = "exact"}
Routes == Exact \cup {e \in Endpoints : Kind[e] = "prefix"}

\* One dispatcher, finitely many routes, and as many layers as one likes; what
\* is no endpoint has another name.
ASSUME RoutingAssumption ==
  /\ Apps \subseteq Nat \ {Own} /\ Endpoints \cap (Apps \cup {Own, Nobody}) = {}
  /\ \A e \in Endpoints :
       Kind[e] \in {"root", "through", "mount", "dispatcher", "view", "exact", "prefix"}
  /\ \E d \in Endpoints : \A e \in Endpoints : Kind[e] = "dispatcher" <=> e = d
  /\ DOMAIN Path = Routes /\ IsFiniteSet(Routes) /\ "nowhere" \notin Endpoints

\* A route is known by its kind and its path, as the key of the map.
ASSUME PathsAssumption ==
  \A r, q \in Routes : (r \in Exact <=> q \in Exact) /\ Path[r] = Path[q] => r = q

\* An endpoint is built over others that exist already and serve nobody else's
\* attachment; "selected" are those built over a route of the dispatcher, which
\* exist only once it does.
ASSUME CompositionAssumption == \A s \in Surroundings :
  /\ s.below \in [Endpoints -> Seq(Endpoints)]
  /\ s.at \in [Apps -> (Endpoints \ {Dispatcher}) \cup {"nowhere"}]
  /\ s.request \in {"none", "sent", "refused"}
  /\ s.from \in Endpoints /\ Kind[s.from] = "root"
  /\ s.closers \subseteq Endpoints \ Routes
  /\ s.selected = Routes \cup {e \in Endpoints : \E i \in DOMAIN s.below[e] : s.below[e][i] \in s.selected}
  /\ Dispatcher \notin s.selected
  /\ \A e \in Endpoints :
       /\ Kind[e] \in {"root", "exact", "prefix"} => s.below[e] = <<>>
       /\ Kind[e] # "mount" => Len(s.below[e]) <= 1
       /\ s.below[e] = <<>> /\ Kind[e] \in {"through", "mount", "view"} =>
            /\ \A n \in Apps : s.at[n] # e
            /\ \A p \in Endpoints : \A i \in DOMAIN s.below[p] : s.below[p][i] # e
  /\ \A p, q \in Endpoints : \A i \in DOMAIN s.below[p], j \in DOMAIN s.below[q] :
       /\ s.below[p][i] # Dispatcher /\ s.below[p][i] \notin Exact
       /\ Kind[p] = "view" <=> Kind[s.below[p][i]] = "prefix"
       /\ s.below[p][i] = s.below[q][j] => p = q /\ i = j
  /\ \A S \in SUBSET Endpoints : S # {} =>
       \E e \in S : \A p \in S : \A i \in DOMAIN s.below[p] : s.below[p][i] # e

VARIABLES
  setting,    \* one of Surroundings
  current,    \* per endpoint: the attachment it has
  shut,       \* the endpoints that closed
  disposers,  \* the detach functions layers keep: <<layer, attachment, child>>
  over,       \* the children of a mount's attachment that ended, likewise
  stack,      \* per goroutine: its calls
  result,     \* per goroutine: what the last Receive returned
  told,       \* per application: calls of its Closed
  request,    \* where the request is, and whose it is
  owner,      \* per capture: the registration it was matched with
  controlled  \* per application: cancellations it was given

layerVars == <<current, shut, disposers, over, stack, result, told>>
requestVars == <<request, owner, controlled>>
allVars == <<vars, setting, layerVars, requestVars>>

Below(e) == setting.below[e]

Entry(n) == IF n = Own THEN Below(Dispatcher)[1] ELSE setting.at[n]

Call(op, e, n) == [op |-> op, e |-> e, n |-> n, i |-> 1, returns |-> ""]
Doing(g, op) == stack[g] # <<>> /\ Head(stack[g]).op = op
Go(g, calls) == stack' = [stack EXCEPT ![g] = calls \o Tail(@)]
Back(g, r) == Go(g, <<>>) /\ result' = [result EXCEPT ![g] = r]

\* The Closed that attachment n gave to endpoint e.
ClosedOf(e, n) ==
  IF n = Own /\ e = Entry(n) THEN Call("close", Dispatcher, n)
  ELSE IF e = Entry(n) THEN Call("tell", e, n)
  ELSE LET p == CHOOSE p \in Endpoints : \E i \in DOMAIN Below(p) : Below(p)[i] = e
       IN [Call("closed", p, n) EXCEPT !.i = CHOOSE i \in DOMAIN Below(p) : Below(p)[i] = e]

\* The detach functions e keeps for n, those of its children in their order.
Detaches(e, n) ==
  LET upTo[i \in 0 .. Len(Below(e))] ==
        IF i = 0 THEN <<>>
        ELSE IF <<e, n, i>> \in disposers
          THEN Append(upTo[i - 1], Call("detach", Below(e)[i], n))
        ELSE upTo[i - 1]
  IN upTo[Len(Below(e))]
Forgotten(e, n) == disposers \ ({e} \X {n} \X DOMAIN Below(e))

-----------------------------------------------------------------------------
(* Receive.                                                                *)

\* Who is refused for being closed: a route, when its dispatcher is.
Closed(e) == IF e \in Routes THEN Dispatcher \in shut ELSE e \in shut

\* A root and a route are taken at once.  A layer claims its receiver, leaves
\* the lock and attaches below: a mount to each child in turn.
Receive(g) ==
  LET f == Head(stack[g]) IN
  /\ Doing(g, "receive")
  /\ IF Closed(f.e) \/ current[f.e] # Nobody
       THEN /\ Back(g, IF Closed(f.e) THEN "closed" ELSE "exists")
            /\ UNCHANGED current
       ELSE /\ current' = [current EXCEPT ![f.e] = f.n]
            /\ CASE Kind[f.e] \in {"root", "exact", "prefix"} -> Back(g, "ok")
                 [] Kind[f.e] \in {"through", "view"} ->
                      /\ Go(g, <<Call("receive", Below(f.e)[1], f.n), [f EXCEPT !.op = "await"]>>)
                      /\ UNCHANGED result
                 [] Kind[f.e] = "mount" -> Go(g, <<[f EXCEPT !.op = "next"]>>) /\ UNCHANGED result
  /\ UNCHANGED <<shut, disposers, over, told>>

NextChild(g) ==
  LET f == Head(stack[g]) IN
  /\ Doing(g, "next")
  /\ IF current[f.e] # f.n THEN Back(g, "closed")
     ELSE IF f.i > Len(Below(f.e)) THEN Back(g, "ok")
     ELSE /\ Go(g, <<Call("receive", Below(f.e)[f.i], f.n), [f EXCEPT !.op = "await"]>>)
          /\ UNCHANGED result
  /\ UNCHANGED <<current, shut, disposers, over, told>>

\* Whether the claim still stands when the Receive below has returned.
Stands(f) ==
  IF f.e = Dispatcher THEN f.e \notin shut
  ELSE current[f.e] = f.n /\ <<f.e, f.n, f.i>> \notin over

\* Mutant: a disposer that comes late is nobody's.
ReceivedLeaks(g) ==
  LET f == Head(stack[g])
      stands == Stands(f)
      undo == IF Kind[f.e] = "mount" THEN <<Call("detach", f.e, f.n)>> ELSE <<>>
  IN
  /\ Doing(g, "await")
  /\ IF result[g] = "ok" /\ stands
       THEN /\ disposers' = disposers \cup {<<f.e, f.n, f.i>>}
            /\ Go(g, IF Kind[f.e] = "mount" THEN <<[f EXCEPT !.op = "next", !.i = @ + 1]>> ELSE <<>>)
            /\ UNCHANGED current
       ELSE /\ Go(g, undo \o <<[f EXCEPT !.op = "return",
                                        !.returns = IF result[g] = "ok" THEN "closed" ELSE result[g]]>>)
            /\ current' = IF stands /\ Kind[f.e] \in {"through", "view"}
                            THEN [current EXCEPT ![f.e] = Nobody] ELSE current
            /\ UNCHANGED disposers
  /\ UNCHANGED <<shut, over, result, told>>

Received(g) ==
  LET f == Head(stack[g])
      stands == Stands(f)
      late == IF result[g] = "ok" THEN <<Call("detach", Below(f.e)[f.i], f.n)>> ELSE <<>>
      undo == IF Kind[f.e] = "mount" THEN <<Call("detach", f.e, f.n)>> ELSE <<>>
  IN
  /\ Doing(g, "await")
  /\ IF result[g] = "ok" /\ stands
       THEN /\ disposers' = disposers \cup {<<f.e, f.n, f.i>>}
            /\ Go(g, IF Kind[f.e] = "mount" THEN <<[f EXCEPT !.op = "next", !.i = @ + 1]>> ELSE <<>>)
            /\ UNCHANGED current
       ELSE /\ Go(g, late \o undo \o
                 <<[f EXCEPT !.op = "return", !.returns = IF result[g] = "ok" THEN "closed" ELSE result[g]]>>)
            /\ current' = IF stands /\ Kind[f.e] \in {"through", "view"}
                            THEN [current EXCEPT ![f.e] = Nobody] ELSE current
            /\ UNCHANGED disposers
  /\ UNCHANGED <<shut, over, result, told>>

Return(g) ==
  /\ Doing(g, "return") /\ Back(g, Head(stack[g]).returns)
  /\ UNCHANGED <<current, shut, disposers, over, told>>

-----------------------------------------------------------------------------
(* detach, Closed and Close.                                               *)

\* The attachment leaves e and takes what e keeps for it along.
Leaves(e, n) ==
  /\ current' = [current EXCEPT ![e] = Nobody]
  /\ disposers' = Forgotten(e, n)

Detach(g) ==
  LET f == Head(stack[g]) IN
  /\ Doing(g, "detach")
  /\ IF current[f.e] = f.n
       THEN Leaves(f.e, f.n) /\ Go(g, Detaches(f.e, f.n))
       ELSE Go(g, <<>>) /\ UNCHANGED <<current, disposers>>
  /\ UNCHANGED <<shut, over, result, told>>

\* Through.end: the origin's end is its own.
OriginEnds(g) ==
  LET f == Head(stack[g])
      m == current[f.e]
  IN
  /\ Doing(g, "closed") /\ Kind[f.e] = "through"
  /\ IF f.e \in shut THEN Go(g, <<>>) /\ UNCHANGED <<current, shut, disposers>>
     ELSE /\ shut' = shut \cup {f.e} /\ Leaves(f.e, m)
          /\ Go(g, Detaches(f.e, m) \o IF m = f.n THEN <<ClosedOf(f.e, m)>> ELSE <<>>)
  /\ UNCHANGED <<over, result, told>>

\* remove: a view ends with its route.
RouteEnds(g) ==
  LET f == Head(stack[g]) IN
  /\ Doing(g, "closed") /\ Kind[f.e] = "view"
  /\ IF current[f.e] = f.n
       THEN Leaves(f.e, f.n) /\ Go(g, Detaches(f.e, f.n) \o <<ClosedOf(f.e, f.n)>>)
       ELSE Go(g, <<>>) /\ UNCHANGED <<current, disposers>>
  /\ UNCHANGED <<shut, over, result, told>>

\* Mutant: the last child is looked for before this one is counted.
ChildEndsUnnoticed(g) ==
  LET f == Head(stack[g])
      mine == {f.e} \X {f.n} \X DOMAIN Below(f.e)
  IN
  /\ Doing(g, "closed") /\ Kind[f.e] = "mount"
  /\ IF current[f.e] # f.n \/ <<f.e, f.n, f.i>> \in over
       THEN Go(g, <<>>) /\ UNCHANGED <<current, disposers, over>>
       ELSE /\ over' = over \cup {<<f.e, f.n, f.i>>}
            /\ IF mine \subseteq over
                 THEN Leaves(f.e, f.n) /\ Go(g, Detaches(f.e, f.n) \o <<ClosedOf(f.e, f.n)>>)
                 ELSE /\ disposers' = disposers \ {<<f.e, f.n, f.i>>}
                      /\ Go(g, IF <<f.e, f.n, f.i>> \in disposers
                                 THEN <<Call("detach", Below(f.e)[f.i], f.n)>> ELSE <<>>)
                      /\ UNCHANGED current
  /\ UNCHANGED <<shut, result, told>>

\* childEnded: a mount ends with the last of its children.
ChildEnds(g) ==
  LET f == Head(stack[g])
      mine == {f.e} \X {f.n} \X DOMAIN Below(f.e)
  IN
  /\ Doing(g, "closed") /\ Kind[f.e] = "mount"
  /\ IF current[f.e] # f.n \/ <<f.e, f.n, f.i>> \in over
       THEN Go(g, <<>>) /\ UNCHANGED <<current, disposers, over>>
       ELSE /\ over' = over \cup {<<f.e, f.n, f.i>>}
            /\ IF mine \subseteq over'
                 THEN Leaves(f.e, f.n) /\ Go(g, Detaches(f.e, f.n) \o <<ClosedOf(f.e, f.n)>>)
                 ELSE /\ disposers' = disposers \ {<<f.e, f.n, f.i>>}
                      /\ Go(g, IF <<f.e, f.n, f.i>> \in disposers
                                 THEN <<Call("detach", Below(f.e)[f.i], f.n)>> ELSE <<>>)
                      /\ UNCHANGED current
  /\ UNCHANGED <<shut, result, told>>

\* Through and Mount release what they have and tell their receiver.
CloseLayer(g) ==
  LET f == Head(stack[g])
      m == current[f.e]
  IN
  /\ Doing(g, "close") /\ Kind[f.e] \in {"through", "mount"}
  /\ shut' = shut \cup {f.e}
  /\ IF f.e \in shut \/ m = Nobody THEN Go(g, <<>>) /\ UNCHANGED <<current, disposers>>
     ELSE Leaves(f.e, m) /\ Go(g, Detaches(f.e, m) \o <<ClosedOf(f.e, m)>>)
  /\ UNCHANGED <<over, result, told>>

\* A view looks who is attached, and removes it in a second section.
CloseView(g) ==
  LET f == Head(stack[g])
      m == current[f.e]
  IN
  /\ Doing(g, "close") /\ Kind[f.e] = "view"
  /\ shut' = shut \cup {f.e}
  /\ Go(g, IF m = Nobody THEN <<>> ELSE <<Call("closed", f.e, m)>>)
  /\ UNCHANGED <<current, disposers, over, result, told>>

\* The dispatcher drops its routes, detaches and tells each registration, in
\* the order of a map; it ends the endpoint below only if it owns it.
Orders(S) == {s \in [1 .. Cardinality(S) -> S] : \A i, j \in DOMAIN s : s[i] = s[j] => i = j}
CloseDispatcher(g) ==
  LET d == Dispatcher
      routes == {r \in Routes : current[r] # Nobody}
  IN
  /\ Doing(g, "close") /\ Head(stack[g]).e = d
  /\ shut' = shut \cup {d} /\ disposers' = Forgotten(d, Own)
  /\ IF d \in shut THEN Go(g, <<>>) /\ UNCHANGED current
     ELSE /\ current' = [e \in Endpoints |-> IF e \in Routes THEN Nobody ELSE current[e]]
          /\ \E s \in Orders(routes) :
               Go(g, Detaches(d, Own) \o [k \in DOMAIN s |-> ClosedOf(s[k], current[s[k]])]
                       \o IF setting.owns THEN <<Call("close", Below(d)[1], Own)>> ELSE <<>>)
  /\ UNCHANGED <<over, result, told>>

\* A carrier ends under its lock; a goroutine of its own tells the receiver.
CloseRoot(g) ==
  LET f == Head(stack[g])
      m == current[f.e]
      rest == [stack EXCEPT ![g] = Tail(@)]
  IN
  /\ Doing(g, "close") /\ Kind[f.e] = "root"
  /\ shut' = shut \cup {f.e}
  /\ IF f.e \in shut \/ m = Nobody THEN stack' = rest /\ UNCHANGED current
     ELSE /\ current' = [current EXCEPT ![f.e] = Nobody]
          /\ stack' = [rest EXCEPT ![f.e] = Append(@, ClosedOf(f.e, m))]
  /\ UNCHANGED <<disposers, over, result, told>>

Tell(g) ==
  LET f == Head(stack[g]) IN
  /\ Doing(g, "tell") /\ Go(g, <<>>)
  /\ told' = [told EXCEPT ![f.n] = @ + 1]
  /\ UNCHANGED <<current, shut, disposers, over, result>>

-----------------------------------------------------------------------------
(* What applications call: Receive and its detach, NewDispatcher, Close.   *)

Attached(n) == stack[n] = <<>> /\ result[n] = "ok"
\* Nobody is in a call that concerns the attachment.
Quiet(n) == \A g \in DOMAIN stack : \A i \in DOMAIN stack[g] : stack[g][i].n # n
Detached(n) == stack[n] = <<>> /\ result[n] = "detached"

Attach(n) ==
  /\ setting.at[n] # "nowhere" /\ stack[n] = <<>> /\ result[n] = "none"
  /\ setting.at[n] \in setting.selected => Attached(Own)
  /\ stack' = [stack EXCEPT ![n] = <<Call("receive", Entry(n), n)>>]
  /\ UNCHANGED <<current, shut, disposers, over, result, told>>

NewDispatcher ==
  /\ Below(Dispatcher) # <<>> /\ stack[Own] = <<>> /\ result[Own] = "none"
  /\ stack' = [stack EXCEPT ![Own] =
       <<Call("receive", Entry(Own), Own), Call("await", Dispatcher, Own)>>]
  /\ UNCHANGED <<current, shut, disposers, over, result, told>>

DetachApp(n) ==
  /\ Attached(n)
  /\ stack' = [stack EXCEPT ![n] = <<Call("detach", Entry(n), n)>>]
  /\ result' = [result EXCEPT ![n] = "detached"]
  /\ UNCHANGED <<current, shut, disposers, over, told>>

Close(e) ==
  /\ e \in setting.closers \ shut /\ stack[e] = <<>>
  /\ e = Dispatcher \/ e \in setting.selected => Attached(Own)
  /\ stack' = [stack EXCEPT ![e] = <<Call("close", e, Nobody)>>]
  /\ UNCHANGED <<current, shut, disposers, over, result, told>>

Step(g) ==
  \/ Receive(g) \/ NextChild(g) \/ Received(g) \/ Return(g) \/ Detach(g)
  \/ OriginEnds(g) \/ RouteEnds(g) \/ ChildEnds(g)
  \/ CloseLayer(g) \/ CloseView(g) \/ CloseDispatcher(g) \/ CloseRoot(g) \/ Tell(g)

Layering ==
  /\ NewDispatcher \/ (\E n \in Apps : Attach(n) \/ DetachApp(n)) \/ (\E e \in Endpoints : Close(e))
       \/ \E g \in DOMAIN stack : Step(g)
  /\ UNCHANGED <<vars, setting, requestVars>>

-----------------------------------------------------------------------------
(* One request, taken by the run loop of a root, and its cancellation.     *)

At(step) == request.step = step
Moves(step, to) == request' = [request EXCEPT !.step = step, !.to = to]

\* The loop hands it to the registration of the moment.
Start ==
  LET n == current[setting.from] IN
  /\ At("sent")
  /\ request' = [step |-> IF n = Nobody THEN "refused" ELSE "started", by |-> n,
                 to |-> n, late |-> {m \in Apps : Detached(m) /\ Quiet(m) /\ Quiet(Own)}]
  /\ UNCHANGED <<vars, setting, layerVars, owner, controlled>>

\* The path is the one the dispatcher sees, mounts' segments prepended.
Matches(r) ==
  IF r \in Exact THEN Path[r] = setting.path
  ELSE Len(Path[r]) <= Len(setting.path) /\ SubSeq(setting.path, 1, Len(Path[r])) = Path[r]

\* The exact route, or else the longest prefix.
Match ==
  LET routes == {r \in Routes : current[r] # Nobody /\ Matches(r)}
      best == {r \in routes : r \in Exact \/ \A w \in routes : w \notin Exact /\ Len(Path[w]) <= Len(Path[r])}
  IN IF best = {} THEN Nobody ELSE current[CHOOSE r \in best : TRUE]

Dispatch ==
  /\ At("started") /\ request.by = Own
  /\ Moves(IF Match = Nobody THEN "refused" ELSE "matched", Match)
  /\ UNCHANGED <<vars, setting, layerVars, owner, controlled>>

CaptureRoute ==
  /\ At("matched") /\ UNCHANGED <<setting, layerVars, controlled>>
  /\ \/ /\ \E i \in Names : Capture(i)
        /\ owner' = [owner EXCEPT ![taken + 1] = request.to] /\ Moves("captured", request.to)
     \/ /\ retired \/ taken = Captures
        /\ Moves("refused", Nobody) /\ UNCHANGED <<vars, owner>>

\* The receiver's Message, on the loop's stack.
Give ==
  /\ At("captured") \/ (At("started") /\ request.by # Own)
  /\ Moves("given", request.to)
  /\ UNCHANGED <<vars, setting, layerVars, owner, controlled>>

ReadyRoute ==
  /\ At("given") /\ Moves("done", request.to)
  /\ \/ \E i \in Names : Ready(i)
     \/ (\A i \in Names : Captured(i) => Slot(i) \in ready) /\ UNCHANGED vars
  /\ UNCHANGED <<setting, layerVars, owner, controlled>>

\* The loop takes the cancellation after the request, for the registration that
\* has the request: a dispatcher relays it to the invocation.
Cancel ==
  /\ At("done") /\ setting.from \notin shut /\ UNCHANGED <<setting, layerVars, request, owner>>
  /\ IF request.by = Own THEN LatchControl /\ UNCHANGED controlled
     ELSE /\ controlled[request.by] = 0 /\ UNCHANGED vars
          /\ controlled' = [controlled EXCEPT ![request.by] = 1]

\* Mutant: the control goes where the request would go now.
SinkNow(k) == Match

\* A push of the invocation ends at the registration the capture was made for.
Sink(k) == owner[k]

PushControl(i, k) ==
  /\ Push(i, k)
  /\ controlled' = [n \in Apps |-> IF n = Sink(k) THEN controlled[n] + 1 ELSE controlled[n]]
  /\ UNCHANGED <<setting, layerVars, request, owner>>

Requesting == Start \/ Dispatch \/ CaptureRoute \/ Give \/ ReadyRoute

-----------------------------------------------------------------------------
(* The invocation: of the request, or with any participants and no layers. *)

Alone == At("none")
Lifecycle(A) == A /\ UNCHANGED <<setting, layerVars, requestVars>>

\* Whoever was given the request may answer it, one who refuses it does, and the
\* end of the carrier answers for both; the delivery is done when the answer was
\* passed on, whether or not the receivers' Message has returned.
Answerable == At("given") \/ At("done") \/ At("refused") \/ (~At("sent") /\ setting.from \in shut)
Settles == (Alone \/ Answerable) /\ Settle
DeliveryEnds == (Alone \/ (Answerable /\ settled)) /\ DispatchDone

Idle(i) == Pushed(i) \/ (Alone /\ \E k \in Slots : Push(i, k))

RouteInit ==
  /\ Init /\ setting \in Surroundings
  /\ current = [e \in Endpoints |-> Nobody] /\ shut = {} /\ disposers = {} /\ over = {}
  /\ stack = [g \in Apps \cup {Own} \cup Endpoints |-> <<>>]
  /\ result = [g \in Apps \cup {Own} \cup Endpoints |-> "none"]
  /\ told = [n \in Apps |-> 0] /\ controlled = told
  /\ request = [step |-> setting.request,
                by |-> Nobody, to |-> Nobody, late |-> {}]
  /\ owner = [k \in Slots |-> Nobody]

RouteNext ==
  \/ Layering \/ Requesting \/ Cancel
  \/ Lifecycle(Settles \/ DeliveryEnds \/ (Alone /\ Participating))
  \/ \E i \in 0 .. Captures : Lifecycle(Idle(i)) \/ \E k \in Slots : ~Alone /\ PushControl(i, k)

RouteSpec == RouteInit /\ [][RouteNext]_allVars

\* As in Invocation, each of whose steps here is taken finitely often, and the
\* loop and the receivers' Message return.
Progress ==
  \/ Lifecycle(Settles \/ DeliveryEnds) \/ Requesting
  \/ Lifecycle(Alone /\ ((\E n \in Names : Ready(n) \/ Release(n)) \/ \E b \in Bodies : Done(b)))
  \/ \E i \in 0 .. Captures : Lifecycle(Idle(i)) \/ \E k \in Slots : ~Alone /\ PushControl(i, k)

FairRouteSpec == RouteSpec /\ WF_allVars(Progress)

-----------------------------------------------------------------------------
(* Properties.                                                             *)

Layers == {e \in Endpoints : Kind[e] \in {"through", "mount", "view"}}

\* Whatever races a Receive that is still attaching below, no endpoint keeps an
\* attachment that nobody above will detach: each is the application's, or is
\* kept, with its disposer, by the layer that made it.
NothingHeldInVain == \A b \in Endpoints : LET n == current[b] IN n # Nobody /\ Quiet(n) =>
  IF b = Entry(n)
    THEN result[n] = "ok" /\ (n = Own => Dispatcher \notin shut /\ <<Dispatcher, n, 1>> \in disposers)
    ELSE \E e \in Layers : \E i \in DOMAIN Below(e) :
           Below(e)[i] = b /\ current[e] = n /\ <<e, n, i>> \in disposers

\* No application waits on an attachment that is dead: one whose Receive
\* succeeded, that was not detached and was not told Closed still has its
\* place, and each layer below it has one with everything beneath that did not
\* end; and Closed is called once.
EndsAreTold ==
  /\ \A n \in Apps :
       /\ told[n] <= 1
       /\ Attached(n) /\ told[n] = 0 /\ Quiet(n) /\ Quiet(Own) => current[Entry(n)] = n
  /\ \A e \in Layers : LET n == current[e] IN n # Nobody /\ Quiet(n) /\ Quiet(Own) =>
       LET live == {i \in DOMAIN Below(e) : <<e, n, i>> \notin over}
       IN live # {} /\ e \notin shut /\ \A i \in live : current[Below(e)[i]] = n

\* Attaching and detaching never retarget a request: its cancellation reaches
\* the registration it was given to, after it and once, and no other; and an
\* application that detached before the request was taken is not given it.
RequestKeepsItsRoute ==
  /\ \A n \in Apps : controlled[n] <= IF At("done") /\ request.to = n THEN 1 ELSE 0
  /\ At("given") \/ At("done") => request.to \notin request.late
=============================================================================
