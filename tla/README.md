# A TLA+ verification of nightseam

This directory models the concurrent core of nightseam's Go implementation in
TLA+. TLC checks the models on small instances, and TLAPS proves the most
important properties for every value of the constants. Source paths below are
relative to the repository; line numbers are in `PROJECT.json`, whose `map` ties
every definition to the lines it models.

## 1. Inventory

nightseam lets two programs call each other over one connection. A *family* of
messages is declared once, code is generated from it, and everything that runs
underneath is a small stack of runtimes written by hand, in Go first and in
other languages after it.

| part | state it keeps | operations | talks to |
| --- | --- | --- | --- |
| Peer (`runtime/go/peer.go`) | last serial, pending table, incoming table, handler slots, output queue, event queue, high-water mark, end reason | Call, cancel, Emit, handle, Close; reader, writer and event loops | a Conn below; wires, tunnel and live above |
| Conn seam and Pipe (`duplex/go/duplex.go`, `pipe.go`) | at most 8 frames per direction, closed and remote-closed | Send, Receive, Close, Abort | a peer at each end |
| Peer wire (`runtime/go/wire.go`) | one record per retained call, queued cancellations, queued data | routed Send, settle, cancel, retire; ForwardWire | one peer |
| Local wire pair (`runtime/go/wire_pair.go`) | per direction queue, active handlers, answered calls | Send, handler, timeout, end | two endpoints of one process |
| Dispatcher (`runtime/go/dispatcher.go`) | route table, children, closed | Register, select, dispatch, Close | any wire |
| Invocation (`runtime/go/invocation.go`) | captured controls, running bodies, pending readiness, settled and retired | capture, ready, run, control, settle, retire | wires, live |
| Mount, Through (`duplex/go/wire.go`, `through.go`) | the current attachment and the detach functions of what it attached below | Send, Receive, detach, a child's or the origin's end, Close | endpoints below, one receiver above |
| Record (`duplex/go/record.go`) | an append-only log, a command queue, followers with a bounded queue | Send, Head, Follow, Close; append worker, follower workers | one target wire |
| Tunnel (`tunnel/go/tunnel.go`, `wire.go`) | channel table, pending accepts; per channel credit, inbox, taken, end state | open, accept, resolve, send, receive, close, abort | one outer peer, one inner peer per wire channel |
| Live (`live/go/*.go`) | exports, imports, tombstones, calls in flight, owners | export, attach, invoke, release, end, discard a batch | one peer |
| Identity and declaration digests (`runtime/go/*identity*.go`) | none | digest, compare, refuse | generated code |
| Validation (`runtime/go/validate.go`) | none | validate a JSON value against a schema | every decoder |
| Auth (`auth/go`) | grants, keys, login codes | grant, attenuate, verify, expose | HTTP and peers |
| Generator (`internal`, `cmd/nightseam`) | none | parse, resolve, emit | files |
| Ports (`*/ts`, `*/py`, `*/rs`, `*/cpp`, ...) and the conformance suite | the same state in other languages | the same operations | each other |
| Observers (`runtime/go/observer.go`, `otel/go`, ...) | none that anything reads back | callbacks | logs |

The behaviours that are hard to get right, and hard to reach with a test:

* serials are reserved by many goroutines and must be read in that order;
* a call can end for five reasons that race: its reply, its own deadline, its
  caller's cancellation, the receiver's deadline, and the end of either peer;
* every queue is bounded, and what happens at the bound differs by queue: the
  output queue paces and then fails the peer, the event queue stops the reader,
  a refusal never waits, a cancellation is dropped, a tunnel channel waits for
  credit;
* an error marked *unpublished* is a proof, and callers act on it: it licenses
  a retry and the discarding of exported references;
* a handler may ignore its deadline and keeps counting after it was answered;
* handles to live values are released by either side at any time, while calls
  through them are under way.

What makes each part correct, in one line each; the properties below are the
checked form of these lines for the parts that are modelled.

* **Peer**: serials are read in the order they were reserved, a handler runs at
  most once per serial and is answered at most once, bounds count what really
  runs or waits, an unpublished error is a proof, every call returns.
* **Invocation**: every capture that is ready gets a latched control exactly
  once, and the lifecycle retires exactly when nothing of it is left.
* **Tunnel**: a sender that honours credit never overruns the window, no credit
  is created or lost, a close comes behind the frames sent before it, one slow
  channel never holds another, the end of one end is the end of the other.
* **Live**: what was published is not discarded while the far side may hold it,
  nothing is invoked after its release, an owner's end leaves nothing behind, a
  scope's end settles every call.
* **Record**: a follower sees every entry after its position once, in order.
* **Peer wire and local pair**: a cancellation always finds room, a call is
  retired once and only when nothing queued names it, a caller is answered once,
  and every slot comes back.
* **Dispatcher, Mount and Through**: an attachment is somebody's to detach, its
  end is told once, and what was admitted stays with the receiver it was given.
* **Auth**: a grant never permits what the grant it was derived from does not.

## 2. Modules

| module | what it is |
| --- | --- |
| `RequestReply` | what a peer promises to a caller, without queues, loops or timers |
| `Peer` | two peers and the connection between them, as the code runs them |
| `PeerProofs` | theorems about `Peer`: types, and the order of serials on the wire |
| `PeerCallProofs` | theorems about one call: budgets, the one answer, the cancellation behind it |
| `PromiseProofs` | that `Peer` implements `RequestReply`, and the order of events |
| `Tunnel` | channels over two outer peers |
| `TunnelProofs` | theorems about `Tunnel` |
| `Invocation` | the lifecycle of one admitted request |
| `Routing` | endpoints composed above carriers, and a request that comes up through them; extends `Invocation` |
| `RoutingProofs` | theorems about `Invocation`, that `Routing` implements it, and about `Routing`'s endpoints |
| `WirePair` | one end of a local wire pair |
| `PeerWire` | the wire of a peer |
| `Forward` | `WirePair` and `PeerWire`, their callers and receivers, joined by `ForwardWire` |
| `ForwardProofs` | theorems about `Forward` |
| `Live` | the scopes of live references on two peers |
| `LiveProofs` | theorems about `Live` |
| `Record` | a recorder, its worker and the followers of its log |
| `RecordProofs` | theorems about `Record` |
| `MCPeer`, `MCTunnel`, `MCRouting`, `MCForward`, `MCLive`, `MCRecord` | instances for TLC |

Where one run covers several surroundings, the module has a variable `setting`
that `Init` chooses from a set of records and nothing changes: who sends, closes,
stalls or ends. The MC module names those records, and a comment there says what each is for.

### Peer

Each goroutine that can be interrupted between two effects is a set of actions
with a state of its own: `call[p][s]` is the goroutine that makes call `s` (and
its outcome once it returned), `body[p][s]` the goroutine that serves the far
side's request `s`, `hand[p]` the frame the writer has taken, `held[p]` the
event the reader holds while the event queue is full, `handling[p]` the event
the event loop is handling. `outputs[p]`, `events[p]` and `net[p]` are the two
bounded channels of the code and the frames the connection holds.

`call` reserves a serial and queues the frame behind one gate: it is one action
when the queue has room and otherwise a reservation (`"publishing"`) that ends in
`PublishRoom`, `PublishTimeout` or `PublishWithdrawn`. `await` chooses among the
reply, the call's own deadline or cancellation and the end of the peer, in any
order when several are ready, as Go's select does. A body that returns and the
deadline callback race for `answer[p][s]`. Timers are actions that may fire at
any moment of the wait they belong to, so every relative speed is covered.
`Stray` is a peer of another implementation: it may send any frame at all.

Ending a peer is one action: `end` closes one channel under one lock, and what
each goroutine sees of it is that goroutine's own later step. Event payloads,
trace contexts, observers and the JSON of frames are left out; a frame is its
kind, its id with the sender's prefix, and one value.

### RequestReply

The abstract specification. `Peer` implements it under the mapping `Abstract` at
the end of `Peer`: the outcome of a call is `"open"` until it returned, and the run
of a call is the far body. `NeverPublished` requires that the handler has not
run, and `Start` that the call did not return unpublished, so the refinement says
that an error marked unpublished is a proof for good, in spite of frames that are
still queued when it is returned.

### Tunnel

Each end of a channel is a pair of a side and an id. Opening is a request whose
handler (`Admit`) is a goroutine, while frames, credit and closes are events handled in
order by one loop (`OnFrame`, `OnCredit`, `OnClose`); the model keeps that
asymmetry because it lets a response overtake an event. `take` and the `Emit` after
it are two steps, as are taking a frame and returning credit for it. `EndAs` is
the compare-and-set by which the first reason to end a channel wins. `queue[p]` is
the outer peer's output queue seen from above: in order, bounded, and lost when
that peer ends. The wake token of `take` is left out: `duplex.Conn` allows one
sender at a time, and with one sender a token always follows the credit it
announces. The frame numbered 0 is one the receiver cannot take.

`Steady` says that no context ends in a call and no outer queue stalls: the
conditions under which no credit and no close can be lost. `WindowAccounted`,
`SendsProceed` and `EndsBoth` hold under them, and the first finding shows what
happens without them. `WindowAccounted` is claimed for senders that honour credit:
one side of `Lossy` does not (`Greedy`), and all that is said about it is that the
other side finds it out (`NeverOverrun`). The settings are `Lossy` (sends are abandoned, credit and
closes are lost, one side ignores credit), `Isolated` (two channels, one consumer that
never receives) and `Ending` (every way a channel or its outer peer ends).

### Invocation

One action per exported operation, each of which runs under one lock. The pushes
that `latch` and `ready` start outside that lock are actions of their own, one sink
at a time, in any order, since the code ranges over a map. A capture is known by
the number it was taken as, because its name can be used again once released.

### Routing

The endpoints that own one attachment below and lend one above: `Through`, `Mount`,
the `Dispatcher` and the views that `Select` returns. No lock is held across two of
them, so a goroutine is modelled as the stack of the calls it is in
(`stack[g]`, topmost first), and each section under a lock is one step. A route of the dispatcher, exact
or of a prefix, is an endpoint like the others: its `Receive` is `register`, a view is over the route of its
prefix, and an application may register at a route itself. Any layer may be over a view, as it may be
over a carrier. `current[e]` is the attachment that endpoint has (of a route: its entry in the map),
`disposers` the detach functions that layers
keep, `over` the children of a mount that ended. `Received` is the heart: the code returns from
the `Receive` below, takes the lock again, and finds out whether what it began
still stands; a disposer that comes late is still its own to call.
`ClosedOf` is the `Closed` a layer gave to the endpoint below it. A carrier
(`CloseRoot`, from `localWirePair.end`) tells its receiver from a goroutine of its
own, the others on the stack of whoever closes them. An application attaches once, detaches once, and calls of
`Closed` on it are counted in `told`.

One request comes up from the carrier `setting.from`: its run loop picks the registration of the
moment (`Start`), the dispatcher matches it (`Match`) and captures it on the
invocation (`CaptureRoute`), and a cancellation ends where the capture points
(`Sink`). Every step of the invocation in these behaviours is a step of module `Invocation`; the
setting `Participants` has no endpoints, and there the participants call in every order.
Paths are sequences of segments, as `Match` needs them; what a mount prepends
is left out, and so are sending downwards, which only changes the path, and `At`.
There is one dispatcher, and one view of a prefix: a second dispatcher, over a view of the first, and a
second view that would find the route of its prefix taken are left out.
An invocation's delivery is done once the admitting pair retires the call (`retireLocked`, or its end), which takes
the answer (`Answerable`) and not the return of the receiver's `Message`.

### WirePair, PeerWire and Forward

`WirePair` is one end of a local pair: both ends run the same code and share the
lock and the pair's end, so one is enough. `hand` is the delivery its run loop
holds, with the section of the loop it is in. A call's record has the flags of
`localWireCall`; its return address is `key`, which a later request may reuse.
`localReturn.Send` is two sections under the lock, and so it is two actions,
`Answer` and `Complete`, between which the deadline or the end may come.

`PeerWire` is a peer's wire seen from local senders. The peer is reduced to
what its wire sees of it: a call begins or is refused, a begun one returns, and
the peer may end (`Peer` has the rest). `Sweep` is the deferred function of the run loop.

`Forward` joins them. `ForwardRequest`, `ForwardCancel` and `ForwardEvent` are the receiver of
`ForwardWire` from the pair to the peer. The other direction is `PeerPasses`,
`PeerWithdraws` and `PeerResumes`: the wire's `requestReceiver` runs in a handler
of the peer, sends the request on the pair and waits in `callWire`; once its
caller has given up it tells the pair and goes on waiting for the answer. What the peer emits is one `Send`
on the pair, as `EmitToPair` is. A forwarded request has a return address of its own on the
wire (`Forwarded`), and the answer on it is the pair's to deliver. The sweep drops what
the wire still had queued without answering it (`wire.go:209`), so such a
request keeps its slot and its handler's place in the pair, though its caller is answered by the
deadline; `CallsSettle` states exactly that exception.

There is a second one. The end of a pair answers the requests in its table and drops its
queue (`wire_pair.go:377`), where a refusal may still be waiting: it holds no table entry, so nobody answers it.
A local caller then waits for its own deadline; but a handler of the peer that
passed the request waits a second time without one (`wire.go:590`), and never returns its
place. Without the last disjunct of `CallsSettle` TLC shows it in six steps.

### Live

Each side has a scope: `exports`, `importer` and `owned` are its tables, `gone` its
tombstones in order, `linked` the owners in their parents' children, `released`
the owners that ended. A batch is the value being built, with nested builds
inside; `publishing` is a complete build while its message is sent, and
`unwinding` what a failed build allocated while nobody holds the lock, between `finish` and `discard`.
`TakeCurrent` is the loop of `discard`, which compares each allocation before it releases it.

A release is told by an event that whichever goroutine released sends after the lock
is left, and an invocation is a request with a goroutine of its own, so neither is
ordered with the other: `notices` is a set, and a call that was sent has not
been looked up yet. `dead` (all that was released) and a call's `late` (it was
begun after a release took effect) are history for the properties. Contracts and
digests, which only refuse more, are left out; a forwarded reference is an
ordinary export whose function belongs to another scope.

The settings are `Families` (nested builds under owners that end meanwhile), `Roots`
(the scope's root is released and replaced), `Forgetting` (tombstones are dropped),
`Publishing` (builds that are sent or provably not) and `Calling` (a remote and a local call
while scopes and peers end).

Two observations from modelling it. The `released` answer of the exporter
(`live.go:532`) has no state that reaches it: a release removes the binding in the section that leaves the
tombstone, so the lookup before it answers `reference_unknown`. And a tombstone
refuses an alias only until it is dropped: an importer that attaches the binding
again afterwards holds an alias that nothing tells of the old release, so
`AliasesLearn` exempts what was released at the importer too.

### Record

`worker` is the recorder's one goroutine: `"append"`, `"offer"` and `"endFull"` are the points
of an append at which others may step in, `"attach"` the point between taking a
`Follow` command and entering the table of followers, where the code looks again
whether the recorder ended. Each follower's goroutine is `Following(f)`; `hand[f]` is an
entry it passed the check of its context with and is about to send. `End` is `end` up to its
unlock, and the goroutine it starts is `EndNext`, one follower at a time. A message is the
number of its admission, so that order and gaps can be read off `log`, `sent` and
`got`. The log is `MemoryWireLog`; `"log" \in Faulty` adds storage that fails, and an
append under way when the recorder ends may succeed or fail.
`docs/runtime/record.md:33` says that the recorder's closure ends its target; the code
(`record.go:108`, `:176`) treats the target as borrowed and never closes it, and so
does the model.

## 3. Runs

Each run asks one question of one module.

| run | what it shows |
| --- | --- |
| `peer_calls` | two calls of one peer, an event, cancellations, both deadlines and stalls over a queue of one frame: `NeverRefuses`, `CancelFollowsRequest`, `OneAnswer`, `BudgetsKept` |
| `peer_stray` | a peer that does not conform: a serial still runs a handler at most once (`RunsOnce`) |
| `peer_reverse` | a handler calls back before it answers: every call returns without the caller's help (`CallsReturn`), and the peers implement `RequestReply` (`KeepsPromise`) |
| `peer_events` | the reader is stopped by a burst of events while the event handler waits for a response behind that burst; a peer is closed: `EventsInOrder`, `PeersUnwind` |
| `tunnel` | the three settings: a sender that honours credit never overruns (`NeverOverrun`), no frame is missed (`FramesInOrder`) or overtaken by a close (`CloseComesLast`), and no credit vanishes in steady surroundings (`WindowAccounted`) |
| `tunnel_live` | `Isolated` with a smaller window and `Ending`: one slow consumer never holds another channel's sender (`SendsProceed`), and the end of one end ends the other (`EndsBoth`) |
| `tunnel_lost_credit` | violation, see findings |
| `tunnel_late_open` | violation, see findings |
| `invocation` | participants in every order: `ControlOnceEach`, `RetiresOnTime`, `CountersExact`, `RetiresEventually`; endpoints that attach, detach, end and close while a request arrives: no attachment is kept for nobody (`NothingHeldInVain`) or lost unsaid (`EndsAreTold`), and a cancellation ends where its request went (`RequestKeepsItsRoute`) |
| `record` | messages, a `Head` and a `Follow` meet a queue of one while the store, the target, the follower and either lifetime may fail: `KeepsOrder`, `HeadFences`; a follower that takes nothing stops nobody (`Proceeds`), and the recorder's end reaches a follower that is attached just then (`EndsFollowers`) |
| `live` | the five settings: tables and owners agree (`HeldByALivingOwner`), a dangling alias is always told (`AliasesLearn`), release is a barrier (`BarrierHolds`), a failed build revokes its own allocations only (`UnwindsItsOwn`), and a scope's end settles every call (`CloseSettles`) |
| `forward` | eight settings of callers, receivers, events and ends: cancellations, deadlines and reused identities never enlarge a bound (`BoundsHold`), a caller is answered at most once (`AnsweredOnce`), and every slot comes back (`CallsSettle`) |

Every property of a passing run has a mutant beside the definition it changes
(comments that begin with "Mutant"): the same action with a plausible bug, under
which that run finds the property violated.

**Bounds.** `MaxSerial` is the code's own constant (2^63-1) made small, and the call
after the last serial is an action (`CallExhausted`). Two serials are enough for
the races the peer properties are about: a second call overtakes the first, or a
cancellation of the first meets the second. The queues hold one frame and the
connection one, so every queue is empty, partly drained and full within a few
steps; more room only adds states between those. `MaxEvents` is the bound of the
model itself: four events fill the connection, the writer's hand, the queue and
the reader, so the next response is stuck behind them. In the tunnel, a window of 1
makes every frame the last of its window and the third frame is the one behind a
gap; the window of 4 in `Isolated` is the smallest of which half is
more than one frame (`tunnel_live` has 2 and three frames, enough for a
sender to wait). `frames` bounds the frames an end sends. `Captures = 3` and
`Leases = 2` let a latch find one capture ready, one not and one released.

In `invocation`, two applications after one another at one endpoint are what a stale detach or
`Closed` needs to hit the wrong one, two children let a mount lose one and then the last, and two views,
one prefix below the other, with an exact route let the best match change.
`Mounted`, `Ending` and `Above` start with the request refused, so that they explore the
endpoints alone. `Above` has a mount over two views, over one of them through a `Through`, which is enough for every layer to
meet an end that comes up from a dispatcher: of a view, of its route, and of the dispatcher.

In `forward`, four calls of which two share a return identity, `QueueCapacity` and
`MaxPending` of 2 and `MaxHandlers` of 1 on the pair, and one frame and one call on
the peer's wire: every bound is met, and a third request is refused for want of
a slot and another for want of a handler; a request passed by the peer meets two of
the pair's own, so that it may be the one refused. In `live`, a side mints at most three
bindings (`MaxMinted = 3`) and attaches one at most twice (`MaxAttached = 2`), which is
what it takes to forget a tombstone and attach again; three generations of owners are the
fewest in which an owner links itself through another; two calls are one remote and one local.

In `record` one entry is stored before, so that replay and handoff meet; a queue of
one is full after one entry, and three appends are what it takes to see a gap
behind a full handoff; the fourth send meets the end of the sequence. `MaxSequence`
is the code's 2^53-1 made small, and `MaxSends` and `MaxHeads` bound the model.

Deadlock is not checked for `Peer`, `Tunnel`, `Record`, `Live` and `Forward`: a bounded instance stops for good
once its calls returned and its frames are sent, or both peers (or the recorder) ended. What must
not stop is stated as liveness instead.

**Fairness.** Only what the runtime itself does is fair, and what it waits for by contract. In `Peer`: the three loops,
each goroutine that waits in a select it must leave, and the receiver's deadline
timer. Handlers need not return and callers need not give up, so `CallsReturn`
rests on nothing an application does. In `Tunnel`: the outer peers' loops,
consumers except at the `Idle` ends, and strong fairness for a goroutine that waits for
room in the outer queue, because a Go channel serves its waiters first come first
served. `SendsProceed` and `EndsBoth` are claimed in `Steady` surroundings only.
In `Routing`: the admitting runtime settles an answered call and retires it, the run loop
and the receivers' `Message` return, sinks return, and
participants finish what they began; nothing forces anybody to take part, to attach or to close.
In `Record`: the worker, whose store and target return (storage must honour
cancellation, and a wire only admits), and the goroutine of `end`. Followers are not
fair: their targets need never return from a `Send`.
In `Live`: handlers and the goroutines of calls run, and the end of a peer reaches
the other and its scope; a body need not return. In `Forward`: the two run loops,
receivers' `Message` except from an event (`AppStalls` is the timer that ends the
pair then), timers, and calls of the peer, which return because `Peer`
has deadlines, and of handlers whose answer has come; bodies may never answer. There, and in `Routing`, one weak fairness
condition covers all steps of which each call takes finitely many: nothing but
another of them can keep such a step waiting.

## 4. Findings

* `tunnel_lost_credit`: `Send` takes a unit of credit before it emits, and a failure of
  the emit does not give it back. After as many failures as the window has
  frames, a `Send` waits although nothing is in flight
  (`tunnel/go/tunnel.go:516`; `docs/runtime/tunnel.md:98` says that it waits past the
  window).
* `tunnel_late_open`: a `channel.open` handler that runs after `watch` emptied the table
  adds a channel that nothing ends any more (`tunnel/go/tunnel.go:147`;
  `docs/wire/tunnel.md:100` says that the end of the outer connection ends every
  channel).

## 5. Proofs

The theorems hold for every value of the constants that satisfies the module's
assumption: `PeerAssumption`, `InvocationAssumption`, `TunnelAssumption`,
`RecordAssumption`, `ForwardAssumption`, `RoutingAssumption`, `PathsAssumption` and `CompositionAssumption` for `Routing`, and
`BoundsAssumption`, `FamilyAssumption` and `SettingsAssumption` for `Live`. These only say that limits are positive,
that the sets of peers name peers, that owners are numbered as they are made and `Line` is an
owner with its ancestors, that leases, calls and return identities are
finitely many, that a route is known by its kind and path, and that names differ from the markers for "none".
The bounds of `Live` are constants too, `MaxMinted` of the bindings a side exports and `MaxAttached` of the times one is
attached: every history has as many as it has, so the theorems cover all of them. `ForwardAssumption`
says besides that a request has one sender: `Settings` gives it to the pair's
callers, to the wire's or to the peer. That is what a request is in the
code, and without it one name would stand for two requests. `CompositionAssumption` says
what building endpoints one over another gives: a carrier and a route have nothing below them, only a mount has
several children, a view is over the route of a prefix and only views are, nothing is over an exact route or over the dispatcher itself,
nothing is below two others, what is over a route exists only once the dispatcher does (`selected`), and going down ends; and
that a request comes from a carrier. There is one dispatcher, with any number of layers below it and of layers over its views.

Each safety theorem has the same shape: an invariant that is inductive, found by
adding what the property needs to know about frames and goroutines under way,
and checked by TLC before it was proved.

**`PeerProofs!TypeCorrect`** is inductive as it stands; each group of actions has a
lemma. Nonconforming peers are included.

**`PeerProofs!ConformingPeersNeverRefuse`**: two peers of this implementation never end
the connection with a protocol refusal. `NeverRefuses` alone is not inductive,
because it says nothing about frames that are still on their way. `SerialOrder` is the strengthening:
on each direction the requests in `net`, `hand` and `outputs` increase, within each
and from one to the next; all lie above the receiver's high-water mark and at most
at the last serial queued; every frame carries the prefix its receiver expects.
The heart of it is `LastQueued`: while a call waits for room its serial is
reserved but not queued, and the gate keeps any later serial from being reserved,
so whatever is queued next is larger than all that is there. Lemmas about
`WireOrder` say what appending a frame, moving it on and dropping it keep.

**`RoutingProofs`**, of an invocation: the invariant `Accounted` is the conjunction of all safety
properties of `Invocation` and three strengthenings, none of which is inductive
without the others. `CountersExact` needs that a capture becomes ready once
(`CapturesAccounted`) and that a push is known by one number (`PushesAccounted`, which
needs that a control, once latched, is forgotten only by retirement);
`RetiredIsQuiet` needs the counters, and the table being empty once retired needs
`RetiredIsQuiet`; together with `RetiresPromptly` it is `RetiresOnTime`. The two parts of
`ControlOnceEach` follow from `SinksAccounted`, which says that no two
pushes have the same sink before them. Facts about cardinalities come from
`FiniteSetTheorems`.

Of the endpoints around one: each step of theirs, of the request and of the goroutines around it is a
step of `Invocation` or leaves its variables alone, so `RouteSpec` implies `Invocation`'s
`Spec`, and with it all of this.

Of the endpoints themselves, `RoutingHoldsNothingInVain`. An attachment goes its `Way`, from where it enters down to
what carries it, and its `Hops` are the layers there that attach below themselves. `LayersInv` begins with the
stacks (`Stacked`): the goroutine of an attachment is a line of calls, each awaited by the one that made it, none of
them twice at the same endpoint, and the last at the top; every other goroutine only detaches, closes and tells. Then
what an endpoint has is on its way there (`Held`); a disposer is kept only while its layer has the attachment, and the dispatcher's own
until it closes (`Disposing`); and who waits for his only child has no disposer of it (`Awaiting`). The heart is
`Keeping`: whatever an endpoint has is `Covered`, by a detach that some goroutine has before it, by its own `Receive` that has not returned, by the
caller that is about to take over what that returned, or by a disposer that a layer kept. When
nobody is in a call that concerns it only the last is left, and the property follows. A step of an attaching goroutine moves the cover from one kind to the
next; the others may take a disposer only if they put its detach on a stack, which one lemma says of all that
detach, end or close (`LeavesSinks`, `KeepsSinks`).

`RequestsKeepTheirRoutes` needs both sides. Whoever was detached before the request was taken, with nothing of it under way,
is `Gone`: by `NothingHeldInVain` nothing below has it either, and no step of an endpoint brings it
back (`GoneStays`). `RequestInv` says besides to whom the request goes at each step, that the invocation has its one capture for
that registration, that it is latched only when the request was given, and, with
`Accounted`, that what an application was given is what the capture received.

**`PeerCallProofs`**. `BudgetsAreKept` and `BodiesRunOnce` hold for nonconforming peers too.
The first needs that `slots` bounds the active bodies (`Budgets`: a slot is taken before
its body is active and given back after) and that no serial that was not
reserved has a call (`Unreserved`); the second that every serial with a body is at most
the receiver's high-water mark (`Admitted`). `CancelsComeSecond` and `RepliesComeOnce` have the hypothesis
`Nonconforming = {}`, since a stray peer may cancel or answer what it likes. Their invariant
`ConformInv` speaks of `Path(p)`, all that `p` has queued, its writer holds or the connection
carries: a request there belongs to a published call (`RequestsMatch`); a cancellation lies
behind its request, or its request was admitted (`CancelOrder`); a response belongs
to an answered serial whose caller has no reply yet (`AnswersMatch`), and no two
responses there have the same serial (`AnswersApart`). `CancelOrder` needs `SerialOrder`, or a
later request could raise the mark past one that is still queued.

**`PromiseProofs`**. `PeersKeepThePromise`, also between conforming peers, is the refinement of
`RequestReply`: the tables `Outcomes` and `FarRuns` that the mapping computes change in at most
one entry with each step, as an action of `RequestReply` allows, or not at all. The heart is `NeverPublished` and `Start`: a
call that returned unpublished has no request in `Path`, and none can
come (`RequestsMatch`), so no body of it can start. `EventsComeInOrder` holds for
every peer that may also send stray frames; its `EventOrder` says that the event
numbers in `Path`, in the reader's hand and in the event queue run on without a gap from
the last one delivered to the last one emitted.

**`TunnelProofs`**. `TunnelInv` is `TypeOK` and six parts. `TableInv` says when an end is in its side's table,
and `QuietInv` that a channel whose open was never admitted has nothing under
way. `FlowInv` counts a window: the sender's credit, the frame it is emitting,
the frames queued, those in the inbox, those taken whose credit is not returned,
and the credit on its way back together never exceed what was given if the sender honours credit (so
`NeverOverrun`), and are exactly the window while nothing was lost (so
`WindowAccounted`). `OrderInv` says that the frames of a channel that are queued continue the inbox,
which continues what was consumed; `CloseInv` that a queued close is the last of its channel and
carries the number of frames sent before it. The cardinalities of frames and
credits in a queue are followed by bijections (`Marks`, `Worth`) as it grows and shrinks.

**`RecordProofs`**. `RecordInv` is `TypeOK` and five parts: the store and the target are at most the one message
apart that the worker holds (`StoreInv`); the queued messages continue the log (`QueueInv`); a `Head` that waits
was asked after what it will answer for (`WaitInv`); the tables of followers agree (`TableInv`); and
`FollowInv`, for each follower: what it got, the entry in its hand, the rest of
its replay and its live queue follow one another up to the log's end, unless it
overflowed. `HandsOff` is the hard case, a replay that reaches the position where
the live queue begins.

**`ForwardProofs`**. `ForwardInv` has an invariant for each carrier and one for each call. `PairInv` and `WireInv` say
that a queue and the hand behind it hold each request, refusal and cancellation
at most once, that slots, flags and queued cancellations agree, and what a call
may look like while its request is pending or being delivered; they use
nothing of each other. `CallInv` joins them: a call has not been heard of by a carrier
before it is tried (`FreshCall`); what is on the wire was sent there, or is being forwarded by a
handler that the pair still counts (`ForwardCall`); and `AnswerCall` says exactly how often a
caller was answered from what the carriers know. `AnsweredOnce` alone is not
inductive: a second answer is impossible because of where its request would have to be.
Each action of `WirePair` and `PeerWire` has one lemma that its carrier's invariant holds, and another that
says what it does to any call (`Moves`, `WireMoves`); an action of `Forward` needs nothing else
of them.

**`LiveProofs`**. `Inv` is the types and, for each side, four parts. `TablesInv`: the tables of a scope that is open
are `Held` (`HeldByALivingOwner`, said of the scope alone); its tombstones are among what it ever released, which no
longer is exported; what it attached it was sent, and what it was sent was exported. `BuildInv`: an export of
a build is in one build and not sent, so that `discard`, which tells nothing of exports, need not. `FreshInv`: what a build noted of an
export has no attachment. And `LearnInv`: what the other side knows of, or may still learn of
from a build, is exported here, or told, or was once released there. For `AliasesLearn` alone that
is too little to say about bindings not attached yet; with it, an attachment is of something known. `CallInv` says that a
late call looks for what is dead.

`Held` is proved for the operators before it is proved for the actions, and the middle of an
operation is the difficulty: after `EndOwner` the tables still have what no owner holds any
more, so `Held(s, ids)` allows it for `ids`, and each `TakeRelease` of `TakeAll` takes one from them
(`TakeReleaseHeld`). That `end`, which goes down through `linked` children, reaches every owner that
holds something is `ReachedThrough`; that `prune` leaves no empty child and cuts no other
off is proved once, for `Prune`, and used by each operation. `TakeAll` and `TakeCurrent` are recursive functions of a
sequence; what holds after each of its steps is shown by the least number at which it
would not (`Upward`), since induction over an operator is out of reach. Then each action is one of a few kinds (`Revokes`, `Allocates`, `Rebuilds`, the
steps of calls, the ends), and each kind keeps `Inv`. `LiveUnwinds` is about the action alone: `TakeCurrentReduces`
says what `discard` leaves in the tables.

**Only model-checked**: everything temporal that rests on fairness (`CallsReturn`,
`PeersUnwind`, `SendsProceed`, `EndsBoth`, `RetiresEventually`, `Proceeds`, `EndsFollowers`,
`CloseSettles`, `CallsSettle`), since liveness and `ENABLED` are beyond the prover; and, of
`Routing`, `EndsAreTold`.

## 6. Not modelled, and the plan

Theorems to come: `EndsAreTold`, over `LayersInv`, with an account of the calls of `Closed` that
are under way.

Not modelled:

* **Pipe** as a module of its own. `Peer` models the connection as two bounded
  directions with stalls and both closes; the order in which `Pipe`'s selects
  prefer a close to a frame is covered by the model choosing either.
* **The channel as a connection** of an inner peer (`tunnel/go/wire.go`) only renames what
  `Tunnel` models.
* **Auth**: attenuation and verification are functions of a chain of grants, with
  cryptography outside the repository; nothing there interleaves.
* **Path codec and `At`**, **validation** and **identities**: pure functions over
  strings and JSON that the conformance suite exercises case by case. What
  depends on them here is only whether a mismatch refuses an open.
* **Generator**: a batch translation without state over time.
* **WebSocket adapter**: I/O over a library.
* **Observers**: callbacks nothing reads back.
* **Ports** in other languages: further implementations of the same protocol; the
  nonconforming side of `peer_stray` stands for one that differs.
