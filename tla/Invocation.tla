----------------------------- MODULE Invocation -----------------------------
(***************************************************************************)
(* The lifecycle an admitting runtime keeps for one admitted request       *)
(* (runtime/go/invocation.go).  Participants, which need not be            *)
(* nightseam's, capture routing decisions, take execution leases and relay *)
(* cancellations in any order and at any time; each operation runs under   *)
(* one lock, and the controls it selects are pushed outside it.            *)
(***************************************************************************)
EXTENDS Integers, FiniteSets

CONSTANTS
  Names,     \* identifiers participants use for captures
  Bodies,    \* identifiers participants use for execution leases
  Captures,  \* InvocationLimits.Captures
  Leases     \* InvocationLimits.Bodies

ASSUME InvocationAssumption ==
  Captures \in Nat \ {0} /\ Leases \in Nat \ {0} /\ IsFiniteSet(Bodies) /\ "none" \notin Names

\* A name may be used again once it was released, so a capture is known by
\* the number it was taken as.
Slots == 1 .. Captures
Latch == 0  \* the push of latch; the push of ready is known by its capture

VARIABLES
  name,         \* per capture: its identifier in the table, or "none"
  ready,        \* the captures whose request was delivered
  notified,     \* the captures a control was selected for
  taken,        \* captures ever taken
  bodies,       \* leases held
  begun,        \* leases ever taken
  unready,      \* the counters retirement waits for
  running,
  controls,
  control,      \* a cancellation is latched
  settled,
  dispatchDone,
  retired,
  pushing,      \* the pushes under way
  left,         \* per push: the captures whose sink it still has to reach
  received,     \* history, per capture: controls its sink received
  latched,      \* history: a cancellation was latched at some time
  callbacks     \* history: calls of onRetired

captureVars == <<name, ready, notified, taken, unready>>
bodyVars == <<bodies, begun, running>>
controlVars == <<controls, control, pushing, left, received, latched>>
endVars == <<retired, callbacks>>
vars == <<captureVars, bodyVars, controlVars, endVars, settled, dispatchDone>>

Captured(n) == \E k \in Slots : name[k] = n
Slot(n) == CHOOSE k \in Slots : name[k] = n

\* retireLocked, evaluated on the state the operation leaves.
\* Mutant: a control under way does not hold retirement back.
MayRetireEarly == settled' /\ unready' = 0 /\ running' = 0

MayRetire == settled' /\ unready' = 0 /\ running' = 0 /\ controls' = 0

Retire ==
  IF ~retired /\ MayRetire
    THEN retired' = TRUE /\ callbacks' = callbacks + 1
    ELSE UNCHANGED endVars

\* The table and the latched control are dropped with retirement.
Table(now) == IF retired' THEN [k \in Slots |-> "none"] ELSE now
Kept(now) == IF retired' THEN FALSE ELSE now

-----------------------------------------------------------------------------
Settle ==
  /\ settled' = TRUE
  /\ UNCHANGED <<ready, notified, taken, unready, bodyVars, controls, pushing, left,
                 received, latched, dispatchDone>>
  /\ Retire
  /\ name' = Table(name) /\ control' = Kept(control)

\* Mutant: a repeated report counts again.
DispatchDoneTwice ==
  /\ dispatchDone' = TRUE
  /\ unready' = unready - 1
  /\ UNCHANGED <<ready, notified, taken, bodyVars, controls, pushing, left,
                 received, latched, settled>>
  /\ Retire
  /\ name' = Table(name) /\ control' = Kept(control)

DispatchDone ==
  /\ dispatchDone' = TRUE
  /\ unready' = IF dispatchDone THEN unready ELSE unready - 1
  /\ UNCHANGED <<ready, notified, taken, bodyVars, controls, pushing, left,
                 received, latched, settled>>
  /\ Retire
  /\ name' = Table(name) /\ control' = Kept(control)

\* A capture past the limit, of a name in use, or of a retired invocation is
\* refused and changes nothing.
\* Mutant: the limit counts the captures in the table, not those ever taken.
CaptureUnbounded(n) ==
  /\ ~retired /\ ~Captured(n)
  /\ taken' = taken + 1
  /\ unready' = unready + 1
  /\ name' = [name EXCEPT ![taken + 1] = n]
  /\ UNCHANGED <<ready, notified, bodyVars, controlVars, endVars, settled, dispatchDone>>

Capture(n) ==
  /\ ~retired /\ ~Captured(n) /\ taken < Captures
  /\ taken' = taken + 1
  /\ unready' = unready + 1
  /\ name' = [name EXCEPT ![taken + 1] = n]
  /\ UNCHANGED <<ready, notified, bodyVars, controlVars, endVars, settled, dispatchDone>>

Ready(n) ==
  /\ Captured(n) /\ Slot(n) \notin ready
  /\ LET k == Slot(n) IN
       /\ ready' = ready \cup {k}
       /\ unready' = unready - 1
       /\ IF control /\ k \notin notified
            THEN /\ notified' = notified \cup {k}
                 /\ controls' = controls + 1
                 /\ pushing' = pushing \cup {k}
                 /\ left' = [left EXCEPT ![k] = {k}]
            ELSE UNCHANGED <<notified, controls, pushing, left>>
  /\ UNCHANGED <<taken, bodyVars, received, latched, settled, dispatchDone>>
  /\ Retire
  /\ name' = Table(name) /\ control' = Kept(control)

\* Mutant: releasing a capture that never said ready leaves it counted.
ReleaseUncounted(n) ==
  /\ Captured(n)
  /\ UNCHANGED <<ready, notified, taken, unready, bodyVars, controls, pushing, left,
                 received, latched, settled, dispatchDone>>
  /\ Retire
  /\ name' = Table([name EXCEPT ![Slot(n)] = "none"])
  /\ control' = Kept(control)

Release(n) ==
  /\ Captured(n)
  /\ LET k == Slot(n) IN
       /\ ready' = ready \cup {k}
       /\ unready' = IF k \in ready THEN unready ELSE unready - 1
       /\ UNCHANGED <<notified, taken, bodyVars, controls, pushing, left,
                      received, latched, settled, dispatchDone>>
       /\ Retire
       /\ name' = Table([name EXCEPT ![k] = "none"])
       /\ control' = Kept(control)

Begin(b) ==
  /\ ~retired /\ b \notin bodies /\ begun < Leases
  /\ begun' = begun + 1
  /\ running' = running + 1
  /\ bodies' = bodies \cup {b}
  /\ UNCHANGED <<captureVars, controlVars, endVars, settled, dispatchDone>>

Done(b) ==
  /\ b \in bodies
  /\ running' = running - 1
  /\ UNCHANGED <<ready, notified, taken, unready, begun, controls, pushing, left,
                 received, latched, settled, dispatchDone>>
  /\ Retire
  /\ bodies' = bodies \ {b}
  /\ name' = Table(name) /\ control' = Kept(control)

Selected == {k \in ready \ notified : name[k] # "none"}

\* Mutant: a relayed control is pushed again to the captures it reached.
LatchRepeats ==
  /\ ~retired /\ Latch \notin pushing
  /\ control' = TRUE /\ latched' = TRUE
  /\ notified' = notified \cup Selected
  /\ controls' = controls + 1
  /\ pushing' = pushing \cup {Latch}
  /\ left' = [left EXCEPT ![Latch] = {k \in ready : name[k] # "none"}]
  /\ UNCHANGED <<name, ready, taken, unready, bodyVars, received, endVars, settled, dispatchDone>>

\* The first cancellation is latched; later ones change nothing.
LatchControl ==
  /\ ~retired /\ ~control
  /\ control' = TRUE /\ latched' = TRUE
  /\ notified' = notified \cup Selected
  /\ controls' = controls + 1
  /\ pushing' = pushing \cup {Latch}
  /\ left' = [left EXCEPT ![Latch] = Selected]
  /\ UNCHANGED <<name, ready, taken, unready, bodyVars, received, endVars, settled, dispatchDone>>

\* A push reaches its sinks one after another, in the order of a map.
Push(i, k) ==
  /\ i \in pushing /\ k \in left[i]
  /\ received' = [received EXCEPT ![k] = @ + 1]
  /\ left' = [left EXCEPT ![i] = @ \ {k}]
  /\ UNCHANGED <<captureVars, bodyVars, controls, control, pushing, latched, endVars,
                 settled, dispatchDone>>

Pushed(i) ==
  /\ i \in pushing /\ left[i] = {}
  /\ pushing' = pushing \ {i}
  /\ controls' = controls - 1
  /\ UNCHANGED <<ready, notified, taken, unready, bodyVars, left, received, latched,
                 settled, dispatchDone>>
  /\ Retire
  /\ name' = Table(name) /\ control' = Kept(control)

-----------------------------------------------------------------------------
Init ==
  /\ name = [k \in Slots |-> "none"] /\ ready = {} /\ notified = {} /\ taken = 0
  /\ bodies = {} /\ begun = 0
  /\ unready = 1 /\ running = 0 /\ controls = 0 /\ control = FALSE
  /\ settled = FALSE /\ dispatchDone = FALSE /\ retired = FALSE
  /\ pushing = {} /\ left = [i \in 0 .. Captures |-> {}]
  /\ received = [k \in Slots |-> 0] /\ latched = FALSE /\ callbacks = 0

Participating ==
  \/ \E n \in Names : Capture(n) \/ Ready(n) \/ Release(n)
  \/ \E b \in Bodies : Begin(b) \/ Done(b)
  \/ LatchControl

Pushing == \E i \in 0 .. Captures : Pushed(i) \/ \E k \in Slots : Push(i, k)

Next == Settle \/ DispatchDone \/ Participating \/ Pushing

Spec == Init /\ [][Next]_vars

-----------------------------------------------------------------------------
(* Properties.                                                             *)

TypeOK ==
  /\ name \in [Slots -> Names \cup {"none"}]
  /\ ready \subseteq Slots /\ notified \subseteq Slots
  /\ taken \in 0 .. Captures
  /\ bodies \subseteq Bodies /\ begun \in 0 .. Leases
  /\ unready \in Int /\ running \in Int /\ controls \in Int
  /\ control \in BOOLEAN /\ settled \in BOOLEAN /\ dispatchDone \in BOOLEAN
  /\ retired \in BOOLEAN /\ latched \in BOOLEAN
  /\ pushing \subseteq 0 .. Captures
  /\ left \in [0 .. Captures -> SUBSET Slots]
  /\ received \in [Slots -> Nat] /\ callbacks \in Nat

\* A sink receives the control at most once, and only after its capture said
\* ready: however ready, release and latch interleave with a running push.
OncePerSink == \A k \in Slots :
  received[k] <= 1 /\ (received[k] = 1 => k \in ready \cap notified)

\* No cancellation is lost: once one is latched, every capture that is ready
\* and was not released has received it or is still to be reached by a push.
NoLostControl == \A k \in Slots :
  latched /\ k \in ready /\ name[k] # "none" =>
    received[k] = 1 \/ \E i \in pushing : k \in left[i]

\* Neither twice nor lost: a latched control is for every ready capture, once.
ControlOnceEach == OncePerSink /\ NoLostControl

\* Retirement waits for every body and every control under way: onRetired,
\* which lets the admitting runtime reuse what the captures refer to, runs at
\* most once and nothing of the invocation moves afterwards.
RetiredIsQuiet ==
  /\ callbacks = IF retired THEN 1 ELSE 0
  /\ retired => settled /\ bodies = {} /\ pushing = {}

RetiresPromptly ==
  settled /\ unready = 0 /\ running = 0 /\ controls = 0 => retired

\* Neither early nor missed: whichever operation comes last notices it.
RetiresOnTime == RetiredIsQuiet /\ RetiresPromptly

\* The counters say what they count, however participants misuse the calls.
Unready == {k \in 1 .. taken : k \notin ready}
CountersExact ==
  /\ unready = Cardinality(Unready) + (IF dispatchDone THEN 0 ELSE 1)
  /\ running = Cardinality(bodies)
  /\ controls = Cardinality(pushing)

\* What the invariants above need to be inductive: a capture is known from the
\* moment it is taken, becomes ready once, is selected by at most one push, and
\* stays selected; a latched control is forgotten only by retirement.
CapturesAccounted ==
  /\ notified \subseteq ready /\ ready \subseteq 1 .. taken
  /\ \A k \in Slots : name[k] # "none" => k <= taken /\ ~retired

PushesAccounted ==
  /\ pushing \subseteq {Latch} \cup notified
  /\ \A i \in 0 .. Captures :
       /\ left[i] \subseteq notified
       /\ i \notin pushing => left[i] = {}
       /\ i # Latch => left[i] \subseteq {i}
  /\ control => latched
  /\ latched => control \/ retired
  /\ Latch \in pushing => latched

SinksAccounted == \A k \in Slots :
  /\ received[k] \in {0, 1}
  /\ received[k] = 1 => k \in notified
  /\ k \in notified => received[k] = 1 \/ \E i \in pushing : k \in left[i]
  /\ \A i \in 0 .. Captures : k \in left[i] =>
       received[k] = 0 /\ \A j \in 0 .. Captures : k \in left[j] => i = j

\* Once everybody who participated has said so, the invocation retires.
RetiresEventually == <>retired
=============================================================================
