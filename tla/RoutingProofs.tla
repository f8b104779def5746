---------------------------- MODULE RoutingProofs ----------------------------
(***************************************************************************)
(* Theorems about Invocation, for every set of names and bodies and every  *)
(* limit, each part of the invariant with a lemma that every step keeps it;*)
(* and about Routing: whatever the endpoints do, an invocation among them  *)
(* is an invocation, and keeps what is proved of it; the endpoints, however*)
(* they are composed, keep nobody who is gone; and a request stays with the*)
(* registration it was matched with.                                       *)
(***************************************************************************)
EXTENDS Routing, FiniteSetTheorems, SequenceTheorems, WellFoundedInduction, TLAPS

-----------------------------------------------------------------------------
(* The invocation.                                                         *)

USE DEF Slots, Latch

\* A name in the table has a slot, which no other name has.
LEMMA SlotOf ==
  ASSUME NEW n \in Names, Captured(n)
  PROVE  Slot(n) \in Slots /\ name[Slot(n)] = n /\ name[Slot(n)] # "none"
<1>1. Slot(n) \in Slots /\ name[Slot(n)] = n
  BY DEF Captured, Slot
<1> QED BY <1>1, InvocationAssumption

\* What ready and release do, in terms of the slot of the capture they name.
LEMMA ReadyEffect ==
  ASSUME NEW n \in Names, Ready(n)
  PROVE  \E k \in Slots :
           /\ name[k] # "none" /\ k \notin ready
           /\ ready' = ready \cup {k} /\ unready' = unready - 1
           /\ \/ /\ control /\ k \notin notified
                 /\ notified' = notified \cup {k} /\ controls' = controls + 1
                 /\ pushing' = pushing \cup {k} /\ left' = [left EXCEPT ![k] = {k}]
              \/ /\ ~(control /\ k \notin notified)
                 /\ UNCHANGED <<notified, controls, pushing, left>>
<1>1. Slot(n) \in Slots /\ name[Slot(n)] # "none"
  BY SlotOf DEF Ready
<1>2. /\ Slot(n) \notin ready
      /\ ready' = ready \cup {Slot(n)} /\ unready' = unready - 1
      /\ IF control /\ Slot(n) \notin notified
           THEN /\ notified' = notified \cup {Slot(n)} /\ controls' = controls + 1
                /\ pushing' = pushing \cup {Slot(n)}
                /\ left' = [left EXCEPT ![Slot(n)] = {Slot(n)}]
           ELSE UNCHANGED <<notified, controls, pushing, left>>
  BY Zenon DEF Ready
<1> QED BY <1>1, <1>2, Zenon

LEMMA ReleaseEffect ==
  ASSUME NEW n \in Names, Release(n)
  PROVE  \E k \in Slots :
           /\ name[k] # "none"
           /\ ready' = ready \cup {k}
           /\ unready' = IF k \in ready THEN unready ELSE unready - 1
           /\ Retire /\ name' = Table([name EXCEPT ![k] = "none"]) /\ control' = Kept(control)
<1>1. Slot(n) \in Slots /\ name[Slot(n)] # "none"
  BY SlotOf DEF Release
<1> QED BY <1>1, Zenon DEF Release

\* Whatever an operation leaves, retirement only ever sets retired, and drops
\* the table and the control with it.
LEMMA RetireFacts ==
  ASSUME TypeOK, NEW t, NEW c \in BOOLEAN,
         Retire, name' = Table(t), control' = Kept(c)
  PROVE  /\ retired' \in BOOLEAN /\ callbacks' \in Nat /\ control' \in BOOLEAN
         /\ retired => retired'
         /\ retired' => name' = [k \in Slots |-> "none"] /\ ~control'
         /\ ~retired' => name' = t /\ control' = c
<1>1. CASE ~retired /\ MayRetire
  <2>1. retired' = TRUE /\ callbacks' = callbacks + 1
    BY <1>1 DEF Retire
  <2>2. name' = [k \in Slots |-> "none"] /\ control' = FALSE
    BY <2>1, Zenon DEF Table, Kept
  <2>3. callbacks' \in Nat
    BY <2>1 DEF TypeOK
  <2> QED BY <2>1, <2>2, <2>3, Zenon
<1>2. CASE ~(~retired /\ MayRetire)
  <2>1. retired' = retired /\ callbacks' = callbacks
    BY <1>2, Zenon DEF Retire, endVars
  <2>2. retired' => name' = [k \in Slots |-> "none"] /\ control' = FALSE
    BY Zenon DEF Table, Kept
  <2>3. ~retired' => name' = t /\ control' = c
    BY Zenon DEF Table, Kept
  <2> QED BY <2>1, <2>2, <2>3 DEF TypeOK
<1> QED BY <1>1, <1>2

LEMMA TypeStep == TypeOK /\ [Next]_vars => TypeOK'
<1> SUFFICES ASSUME TypeOK, [Next]_vars PROVE TypeOK'
  OBVIOUS
<1> USE InvocationAssumption
<1>retiring. ASSUME NEW t \in [Slots -> Names \cup {"none"}], NEW c \in BOOLEAN,
                    Retire, name' = Table(t), control' = Kept(c)
             PROVE  /\ name' \in [Slots -> Names \cup {"none"}]
                    /\ retired' \in BOOLEAN /\ callbacks' \in Nat /\ control' \in BOOLEAN
  BY <1>retiring, RetireFacts
<1>now. name \in [Slots -> Names \cup {"none"}] /\ control \in BOOLEAN
  BY DEF TypeOK
<1>1. CASE Settle
  BY <1>1, <1>now, <1>retiring DEF TypeOK, Settle, bodyVars
<1>2. CASE DispatchDone
  BY <1>2, <1>now, <1>retiring DEF TypeOK, DispatchDone, bodyVars
<1>3. ASSUME NEW n \in Names, Capture(n) PROVE TypeOK'
  BY <1>3 DEF TypeOK, Capture, bodyVars, controlVars, endVars
<1>4. ASSUME NEW n \in Names, Ready(n) PROVE TypeOK'
  <2>1. PICK k \in Slots :
           /\ ready' = ready \cup {k} /\ unready' = unready - 1
           /\ \/ /\ notified' = notified \cup {k} /\ controls' = controls + 1
                 /\ pushing' = pushing \cup {k} /\ left' = [left EXCEPT ![k] = {k}]
              \/ UNCHANGED <<notified, controls, pushing, left>>
    BY <1>4, ReadyEffect, Zenon
  <2>2. /\ ready' \subseteq Slots /\ unready' \in Int
        /\ notified' \subseteq Slots /\ controls' \in Int /\ pushing' \subseteq 0 .. Captures
        /\ left' \in [0 .. Captures -> SUBSET Slots]
    <3>1. CASE UNCHANGED <<notified, controls, pushing, left>>
      BY <2>1, <3>1 DEF TypeOK
    <3>2. CASE /\ notified' = notified \cup {k} /\ controls' = controls + 1
               /\ pushing' = pushing \cup {k} /\ left' = [left EXCEPT ![k] = {k}]
      BY <2>1, <3>2 DEF TypeOK
    <3> QED BY <2>1, <3>1, <3>2
  <2> QED BY <1>4, <1>now, <1>retiring, <2>2 DEF TypeOK, Ready, bodyVars
<1>5. ASSUME NEW n \in Names, Release(n) PROVE TypeOK'
  <2>1. PICK k \in Slots :
           /\ ready' = ready \cup {k}
           /\ unready' = IF k \in ready THEN unready ELSE unready - 1
           /\ Retire /\ name' = Table([name EXCEPT ![k] = "none"]) /\ control' = Kept(control)
    BY <1>5, ReleaseEffect
  <2>2. [name EXCEPT ![k] = "none"] \in [Slots -> Names \cup {"none"}]
    BY <1>now
  <2>3. ready' \subseteq Slots /\ unready' \in Int
    BY <2>1 DEF TypeOK
  <2> QED BY <1>5, <1>now, <1>retiring, <2>1, <2>2, <2>3 DEF TypeOK, Release, bodyVars
<1>6. ASSUME NEW b \in Bodies, Begin(b) PROVE TypeOK'
  BY <1>6 DEF TypeOK, Begin, captureVars, controlVars, endVars
<1>7. ASSUME NEW b \in Bodies, Done(b) PROVE TypeOK'
  BY <1>7, <1>now, <1>retiring DEF TypeOK, Done
<1>8. CASE LatchControl
  <2>1. Selected \subseteq Slots
    BY DEF TypeOK, Selected
  <2>2. control' = TRUE /\ latched' = TRUE
    BY <1>8 DEF LatchControl
  <2>3. notified' \subseteq Slots /\ controls' \in Int /\ pushing' \subseteq 0 .. Captures
        /\ left' \in [0 .. Captures -> SUBSET Slots]
    BY <1>8, <2>1 DEF TypeOK, LatchControl
  <2> QED BY <1>8, <2>2, <2>3 DEF TypeOK, LatchControl, bodyVars, endVars
<1>9. ASSUME NEW i \in 0 .. Captures, NEW k \in Slots, Push(i, k) PROVE TypeOK'
  BY <1>9 DEF TypeOK, Push, captureVars, bodyVars, endVars
<1>10. ASSUME NEW i \in 0 .. Captures, Pushed(i) PROVE TypeOK'
  BY <1>10, <1>now, <1>retiring DEF TypeOK, Pushed, bodyVars
<1>11. CASE UNCHANGED vars
  BY <1>11 DEF TypeOK, vars, captureVars, bodyVars, controlVars, endVars
<1> QED BY <1>1, <1>2, <1>3, <1>4, <1>5, <1>6, <1>7, <1>8, <1>9, <1>10, <1>11
        DEF Next, Participating, Pushing

LEMMA InitTypes == Init => TypeOK
<1> SUFFICES ASSUME Init PROVE TypeOK
  OBVIOUS
<1>1. /\ control \in BOOLEAN /\ settled \in BOOLEAN /\ dispatchDone \in BOOLEAN
      /\ retired \in BOOLEAN /\ latched \in BOOLEAN
  BY Zenon DEF Init
<1>2. /\ name \in [Slots -> Names \cup {"none"}]
      /\ left \in [0 .. Captures -> SUBSET Slots] /\ received \in [Slots -> Nat]
  BY DEF Init
<1>3. /\ taken \in 0 .. Captures /\ begun \in 0 .. Leases
      /\ unready \in Int /\ running \in Int /\ controls \in Int /\ callbacks \in Nat
  BY InvocationAssumption DEF Init
<1>4. ready = {} /\ notified = {} /\ bodies = {} /\ pushing = {}
  BY DEF Init
<1> QED BY <1>1, <1>2, <1>3, <1>4 DEF TypeOK

\* Every reachable state is well typed, for every limit: in particular neither
\* the captures nor the leases ever taken pass theirs.
THEOREM TypeCorrect == Spec => []TypeOK
BY InitTypes, TypeStep, PTL DEF Spec

LEMMA CapturesStep ==
  ASSUME TypeOK, RetiredIsQuiet, CapturesAccounted, [Next]_vars
  PROVE  CapturesAccounted'
<1> USE InvocationAssumption DEF CapturesAccounted, TypeOK
<1>same. ASSUME UNCHANGED <<ready, notified, taken>>,
                Retire, name' = Table(name), control' = Kept(control)
         PROVE  CapturesAccounted'
  <2>1. /\ retired' => name' = [k \in Slots |-> "none"]
        /\ ~retired' => name' = name /\ ~retired
    BY <1>same, RetireFacts
  <2> QED BY <1>same, <2>1
<1>1. CASE Settle
  BY <1>1, <1>same DEF Settle
<1>2. CASE DispatchDone
  BY <1>2, <1>same DEF DispatchDone
<1>3. ASSUME NEW n \in Names, Capture(n) PROVE CapturesAccounted'
  BY <1>3 DEF Capture, endVars
<1>4. ASSUME NEW n \in Names, Ready(n) PROVE CapturesAccounted'
  <2>1. PICK k \in Slots :
           /\ name[k] # "none" /\ ready' = ready \cup {k}
           /\ notified' = notified \cup {k} \/ UNCHANGED notified
    BY <1>4, ReadyEffect
  <2>2. Retire /\ name' = Table(name) /\ control' = Kept(control) /\ UNCHANGED taken
    BY <1>4 DEF Ready
  <2>3. /\ retired' => name' = [j \in Slots |-> "none"]
        /\ ~retired' => name' = name /\ ~retired
    BY <2>2, RetireFacts
  <2>4. k \in 1 .. taken
    BY <2>1
  <2> QED BY <2>1, <2>2, <2>3, <2>4
<1>5. ASSUME NEW n \in Names, Release(n) PROVE CapturesAccounted'
  <2>1. PICK k \in Slots :
           /\ name[k] # "none" /\ ready' = ready \cup {k}
           /\ Retire /\ name' = Table([name EXCEPT ![k] = "none"]) /\ control' = Kept(control)
    BY <1>5, ReleaseEffect
  <2>2. UNCHANGED <<taken, notified>>
    BY <1>5 DEF Release
  <2>3. /\ retired' => name' = [j \in Slots |-> "none"]
        /\ ~retired' => name' = [name EXCEPT ![k] = "none"] /\ ~retired
    BY <2>1, RetireFacts
  <2>4. k \in 1 .. taken
    BY <2>1
  <2> QED BY <2>1, <2>2, <2>3, <2>4
<1>6. ASSUME NEW b \in Bodies, Begin(b) PROVE CapturesAccounted'
  BY <1>6 DEF Begin, captureVars, endVars
<1>7. ASSUME NEW b \in Bodies, Done(b) PROVE CapturesAccounted'
  BY <1>7, <1>same DEF Done
<1>8. CASE LatchControl
  BY <1>8 DEF LatchControl, Selected, endVars
<1>9. ASSUME NEW i \in 0 .. Captures, NEW k \in Slots, Push(i, k) PROVE CapturesAccounted'
  BY <1>9 DEF Push, captureVars, endVars
<1>10. ASSUME NEW i \in 0 .. Captures, Pushed(i) PROVE CapturesAccounted'
  BY <1>10, <1>same DEF Pushed
<1>11. CASE UNCHANGED vars
  BY <1>11 DEF vars, captureVars, endVars
<1> QED BY <1>1, <1>2, <1>3, <1>4, <1>5, <1>6, <1>7, <1>8, <1>9, <1>10, <1>11
        DEF Next, Participating, Pushing

\* What one capture more or less does to the captures not ready.
LEMMA UnreadyCount ==
  ASSUME TypeOK, NEW k \in 1 .. taken, ready' = ready \cup {k}, UNCHANGED taken
  PROVE  Cardinality(Unready') =
           IF k \in ready THEN Cardinality(Unready) ELSE Cardinality(Unready) - 1
<1>1. IsFiniteSet(Unready)
  <2>1. IsFiniteSet(1 .. taken)
    BY FS_Interval, InvocationAssumption DEF TypeOK
  <2>2. Unready \subseteq 1 .. taken
    BY DEF Unready
  <2> QED BY <2>1, <2>2, FS_Subset
<1>2. Unready' = Unready \ {k}
  BY DEF Unready
<1>3. k \in Unready <=> k \notin ready
  BY DEF Unready
<1> QED BY <1>1, <1>2, <1>3, FS_RemoveElement

LEMMA FiniteBookkeeping ==
  ASSUME TypeOK
  PROVE  IsFiniteSet(Unready) /\ IsFiniteSet(bodies) /\ IsFiniteSet(pushing)
<1> USE InvocationAssumption DEF TypeOK
<1>1. IsFiniteSet(1 .. taken) /\ IsFiniteSet(0 .. Captures)
  BY FS_Interval
<1>2. Unready \subseteq 1 .. taken
  BY DEF Unready
<1> QED BY <1>1, <1>2, FS_Subset

LEMMA CountersStep ==
  ASSUME TypeOK, CapturesAccounted, PushesAccounted, CountersExact, [Next]_vars
  PROVE  CountersExact'
<1> USE FiniteBookkeeping
<1>same. ASSUME UNCHANGED <<ready, taken, unready, dispatchDone>>
         PROVE  unready' = Cardinality(Unready') + (IF dispatchDone' THEN 0 ELSE 1)
  BY <1>same DEF CountersExact, Unready
<1>1. CASE Settle
  <2>1. UNCHANGED <<ready, taken, unready, dispatchDone, running, bodies, controls, pushing>>
    BY <1>1 DEF Settle, bodyVars
  <2> QED BY <1>same, <2>1 DEF CountersExact
<1>2. CASE DispatchDone
  <2>1. /\ UNCHANGED <<ready, taken, running, bodies, controls, pushing>>
        /\ dispatchDone' = TRUE
        /\ unready' = IF dispatchDone THEN unready ELSE unready - 1
    BY <1>2 DEF DispatchDone, bodyVars
  <2>2. Unready' = Unready /\ Cardinality(Unready) \in Nat
    BY <2>1, FS_CardinalityType DEF Unready
  <2>3. unready' = Cardinality(Unready')
    BY <2>1, <2>2 DEF CountersExact
  <2> QED BY <2>1, <2>2, <2>3 DEF CountersExact
<1>3. ASSUME NEW n \in Names, Capture(n) PROVE CountersExact'
  <2>1. /\ UNCHANGED <<ready, dispatchDone, running, bodies, controls, pushing>>
        /\ taken' = taken + 1 /\ unready' = unready + 1
    BY <1>3 DEF Capture, bodyVars, controlVars
  <2>2. Unready' = Unready \cup {taken + 1} /\ taken + 1 \notin Unready
    BY <2>1 DEF TypeOK, Unready, CapturesAccounted
  <2>3. Cardinality(Unready') = Cardinality(Unready) + 1
    BY <2>2, FS_AddElement
  <2>4. Cardinality(Unready) \in Nat
    BY FS_CardinalityType
  <2>5. unready' = Cardinality(Unready') + (IF dispatchDone' THEN 0 ELSE 1)
    BY <2>1, <2>3, <2>4 DEF CountersExact
  <2> QED BY <2>1, <2>5 DEF CountersExact
<1>4. ASSUME NEW n \in Names, Ready(n) PROVE CountersExact'
  <2>1. PICK k \in Slots :
           /\ name[k] # "none" /\ k \notin ready
           /\ ready' = ready \cup {k} /\ unready' = unready - 1
           /\ \/ /\ k \notin notified
                 /\ controls' = controls + 1 /\ pushing' = pushing \cup {k}
              \/ UNCHANGED <<controls, pushing>>
    BY <1>4, ReadyEffect
  <2>2. UNCHANGED <<taken, dispatchDone, running, bodies>>
    BY <1>4 DEF Ready, bodyVars
  <2>3. k \in 1 .. taken
    BY <2>1 DEF CapturesAccounted
  <2>4. Cardinality(Unready') = Cardinality(Unready) - 1 /\ Cardinality(Unready) \in Nat
    BY <2>1, <2>2, <2>3, UnreadyCount, FS_CardinalityType
  <2>5. unready' = Cardinality(Unready') + (IF dispatchDone' THEN 0 ELSE 1)
    BY <2>1, <2>2, <2>4 DEF CountersExact
  <2>6. controls' = Cardinality(pushing')
    <3>1. CASE UNCHANGED <<controls, pushing>>
      BY <3>1 DEF CountersExact
    <3>2. CASE k \notin notified /\ controls' = controls + 1 /\ pushing' = pushing \cup {k}
      <4>1. k \notin pushing
        BY <2>1, <3>2 DEF PushesAccounted
      <4> QED BY <3>2, <4>1, FS_AddElement DEF CountersExact
    <3> QED BY <2>1, <3>1, <3>2
  <2> QED BY <2>2, <2>5, <2>6 DEF CountersExact
<1>5. ASSUME NEW n \in Names, Release(n) PROVE CountersExact'
  <2>1. PICK k \in Slots :
           /\ name[k] # "none" /\ ready' = ready \cup {k}
           /\ unready' = IF k \in ready THEN unready ELSE unready - 1
    BY <1>5, ReleaseEffect
  <2>2. UNCHANGED <<taken, dispatchDone, running, bodies, controls, pushing>>
    BY <1>5 DEF Release, bodyVars
  <2>3. k \in 1 .. taken
    BY <2>1 DEF CapturesAccounted
  <2>4. /\ Cardinality(Unready') =
             IF k \in ready THEN Cardinality(Unready) ELSE Cardinality(Unready) - 1
        /\ Cardinality(Unready) \in Nat
    BY <2>1, <2>2, <2>3, UnreadyCount, FS_CardinalityType
  <2>5. unready' = Cardinality(Unready') + (IF dispatchDone' THEN 0 ELSE 1)
    BY <2>1, <2>2, <2>4 DEF CountersExact
  <2> QED BY <2>2, <2>5 DEF CountersExact
<1>6. ASSUME NEW b \in Bodies, Begin(b) PROVE CountersExact'
  <2>1. /\ UNCHANGED <<ready, taken, unready, dispatchDone, controls, pushing>>
        /\ b \notin bodies /\ bodies' = bodies \cup {b} /\ running' = running + 1
    BY <1>6 DEF Begin, captureVars, controlVars
  <2>2. running' = Cardinality(bodies')
    BY <2>1, FS_AddElement DEF CountersExact
  <2> QED BY <1>same, <2>1, <2>2 DEF CountersExact
<1>7. ASSUME NEW b \in Bodies, Done(b) PROVE CountersExact'
  <2>1. /\ UNCHANGED <<ready, taken, unready, dispatchDone, controls, pushing>>
        /\ b \in bodies /\ bodies' = bodies \ {b} /\ running' = running - 1
    BY <1>7 DEF Done
  <2>2. running' = Cardinality(bodies')
    BY <2>1, FS_RemoveElement DEF CountersExact
  <2> QED BY <1>same, <2>1, <2>2 DEF CountersExact
<1>8. CASE LatchControl
  <2>1. /\ UNCHANGED <<ready, taken, unready, dispatchDone, running, bodies>>
        /\ ~retired /\ ~control /\ controls' = controls + 1 /\ pushing' = pushing \cup {Latch}
    BY <1>8 DEF LatchControl, bodyVars
  <2>2. Latch \notin pushing
    BY <2>1 DEF PushesAccounted
  <2>3. controls' = Cardinality(pushing')
    BY <2>1, <2>2, FS_AddElement DEF CountersExact
  <2> QED BY <1>same, <2>1, <2>3 DEF CountersExact
<1>9. ASSUME NEW i \in 0 .. Captures, NEW k \in Slots, Push(i, k) PROVE CountersExact'
  <2>1. UNCHANGED <<ready, taken, unready, dispatchDone, running, bodies, controls, pushing>>
    BY <1>9 DEF Push, captureVars, bodyVars
  <2> QED BY <1>same, <2>1 DEF CountersExact
<1>10. ASSUME NEW i \in 0 .. Captures, Pushed(i) PROVE CountersExact'
  <2>1. /\ UNCHANGED <<ready, taken, unready, dispatchDone, running, bodies>>
        /\ i \in pushing /\ pushing' = pushing \ {i} /\ controls' = controls - 1
    BY <1>10 DEF Pushed, bodyVars
  <2>2. controls' = Cardinality(pushing')
    BY <2>1, FS_RemoveElement DEF CountersExact
  <2> QED BY <1>same, <2>1, <2>2 DEF CountersExact
<1>11. CASE UNCHANGED vars
  <2>1. UNCHANGED <<ready, taken, unready, dispatchDone, running, bodies, controls, pushing>>
    BY <1>11 DEF vars, captureVars, bodyVars, controlVars
  <2> QED BY <1>same, <2>1 DEF CountersExact
<1> QED BY <1>1, <1>2, <1>3, <1>4, <1>5, <1>6, <1>7, <1>8, <1>9, <1>10, <1>11
        DEF Next, Participating, Pushing

LEMMA PushesStep ==
  ASSUME TypeOK, CapturesAccounted, PushesAccounted, [Next]_vars
  PROVE  PushesAccounted'
<1> USE InvocationAssumption DEF PushesAccounted
<1>table. ASSUME NEW t, Retire, name' = Table(t), control' = Kept(control)
          PROVE  (control' => control) /\ (control => control' \/ retired')
                 /\ (retired => retired')
  <2>1. control \in BOOLEAN
    BY DEF TypeOK
  <2> QED BY <1>table, <2>1, RetireFacts, Zenon
<1>same. ASSUME NEW t, UNCHANGED <<notified, pushing, left, latched>>,
                Retire, name' = Table(t), control' = Kept(control)
         PROVE  PushesAccounted'
  <2>1. (control' => control) /\ (control => control' \/ retired') /\ (retired => retired')
    BY <1>same, <1>table
  <2> QED BY <1>same, <2>1
<1>1. CASE Settle
  BY <1>1, <1>same DEF Settle
<1>2. CASE DispatchDone
  BY <1>2, <1>same DEF DispatchDone
<1>3. ASSUME NEW n \in Names, Capture(n) PROVE PushesAccounted'
  BY <1>3 DEF Capture, controlVars, endVars
<1>4. ASSUME NEW n \in Names, Ready(n) PROVE PushesAccounted'
  <2>1. PICK k \in Slots :
           \/ /\ k \notin notified /\ notified' = notified \cup {k}
              /\ pushing' = pushing \cup {k} /\ left' = [left EXCEPT ![k] = {k}]
           \/ UNCHANGED <<notified, pushing, left>>
    BY <1>4, ReadyEffect
  <2>2. Retire /\ name' = Table(name) /\ control' = Kept(control) /\ UNCHANGED latched
    BY <1>4 DEF Ready
  <2>3. CASE UNCHANGED <<notified, pushing, left>>
    BY <2>2, <2>3, <1>same
  <2>4. CASE /\ k \notin notified /\ notified' = notified \cup {k}
             /\ pushing' = pushing \cup {k} /\ left' = [left EXCEPT ![k] = {k}]
    <3>1. (control' => control) /\ (control => control' \/ retired') /\ (retired => retired')
      BY <2>2, <1>table
    <3>2. \A i \in 0 .. Captures : left'[i] = IF i = k THEN {k} ELSE left[i]
      BY <2>4 DEF TypeOK
    <3>3. pushing' \subseteq {Latch} \cup notified'
      BY <2>4
    <3>4. \A i \in 0 .. Captures :
            /\ left'[i] \subseteq notified'
            /\ i \notin pushing' => left'[i] = {}
            /\ i # Latch => left'[i] \subseteq {i}
      BY <2>4, <3>2
    <3>5. Latch \in pushing' => latched'
      BY <2>2, <2>4
    <3> QED BY <2>2, <3>1, <3>3, <3>4, <3>5
  <2> QED BY <2>1, <2>3, <2>4
<1>5. ASSUME NEW n \in Names, Release(n) PROVE PushesAccounted'
  <2>1. PICK k \in Slots :
           Retire /\ name' = Table([name EXCEPT ![k] = "none"]) /\ control' = Kept(control)
    BY <1>5, ReleaseEffect
  <2> QED BY <1>5, <2>1, <1>same DEF Release
<1>6. ASSUME NEW b \in Bodies, Begin(b) PROVE PushesAccounted'
  BY <1>6 DEF Begin, captureVars, controlVars, endVars
<1>7. ASSUME NEW b \in Bodies, Done(b) PROVE PushesAccounted'
  BY <1>7, <1>same DEF Done
<1>8. CASE LatchControl
  <2>1. /\ control' = TRUE /\ latched' = TRUE /\ notified' = notified \cup Selected
        /\ pushing' = pushing \cup {Latch} /\ left' = [left EXCEPT ![Latch] = Selected]
    BY <1>8 DEF LatchControl
  <2>2. \A i \in 0 .. Captures : left'[i] = IF i = Latch THEN Selected ELSE left[i]
    BY <2>1 DEF TypeOK
  <2> QED BY <2>1, <2>2
<1>9. ASSUME NEW i \in 0 .. Captures, NEW k \in Slots, Push(i, k) PROVE PushesAccounted'
  <2>1. /\ left' = [left EXCEPT ![i] = @ \ {k}]
        /\ UNCHANGED <<notified, pushing, control, latched, retired>>
    BY <1>9 DEF Push, captureVars, endVars
  <2>2. \A j \in 0 .. Captures : left'[j] = IF j = i THEN left[i] \ {k} ELSE left[j]
    BY <2>1 DEF TypeOK
  <2> QED BY <2>1, <2>2
<1>10. ASSUME NEW i \in 0 .. Captures, Pushed(i) PROVE PushesAccounted'
  <2>1. /\ left[i] = {} /\ pushing' = pushing \ {i} /\ UNCHANGED <<left, notified, latched>>
        /\ Retire /\ name' = Table(name) /\ control' = Kept(control)
    BY <1>10 DEF Pushed
  <2>2. (control' => control) /\ (control => control' \/ retired') /\ (retired => retired')
    BY <2>1, <1>table
  <2> QED BY <2>1, <2>2
<1>11. CASE UNCHANGED vars
  BY <1>11 DEF vars, captureVars, controlVars, endVars
<1> QED BY <1>1, <1>2, <1>3, <1>4, <1>5, <1>6, <1>7, <1>8, <1>9, <1>10, <1>11
        DEF Next, Participating, Pushing

LEMMA SinksStep ==
  ASSUME TypeOK, CapturesAccounted, PushesAccounted, SinksAccounted, [Next]_vars
  PROVE  SinksAccounted'
<1> USE InvocationAssumption DEF SinksAccounted
<1>same. ASSUME UNCHANGED <<notified, pushing, left, received>> PROVE SinksAccounted'
  BY <1>same
<1>1. CASE Settle
  BY <1>1, <1>same DEF Settle
<1>2. CASE DispatchDone
  BY <1>2, <1>same DEF DispatchDone
<1>3. ASSUME NEW n \in Names, Capture(n) PROVE SinksAccounted'
  BY <1>3, <1>same DEF Capture, controlVars
<1>4. ASSUME NEW n \in Names, Ready(n) PROVE SinksAccounted'
  <2>1. PICK k \in Slots :
           \/ /\ k \notin notified /\ notified' = notified \cup {k}
              /\ pushing' = pushing \cup {k} /\ left' = [left EXCEPT ![k] = {k}]
           \/ UNCHANGED <<notified, pushing, left>>
    BY <1>4, ReadyEffect
  <2>2. UNCHANGED received
    BY <1>4 DEF Ready
  <2>3. CASE /\ k \notin notified /\ notified' = notified \cup {k}
             /\ pushing' = pushing \cup {k} /\ left' = [left EXCEPT ![k] = {k}]
    <3>1. \A i \in 0 .. Captures : left'[i] = IF i = k THEN {k} ELSE left[i]
      BY <2>3 DEF TypeOK
    <3>2. \A i \in 0 .. Captures : k \notin left[i] /\ left[k] \subseteq {k}
      BY <2>3 DEF PushesAccounted
    <3>3. received[k] = 0
      BY <2>3
    <3> QED BY <2>2, <2>3, <3>1, <3>2, <3>3
  <2> QED BY <2>1, <2>2, <2>3, <1>same
<1>5. ASSUME NEW n \in Names, Release(n) PROVE SinksAccounted'
  BY <1>5, <1>same DEF Release
<1>6. ASSUME NEW b \in Bodies, Begin(b) PROVE SinksAccounted'
  BY <1>6, <1>same DEF Begin, captureVars, controlVars
<1>7. ASSUME NEW b \in Bodies, Done(b) PROVE SinksAccounted'
  BY <1>7, <1>same DEF Done
<1>8. CASE LatchControl
  <2>1. /\ ~retired /\ ~control /\ notified' = notified \cup Selected
        /\ pushing' = pushing \cup {Latch} /\ left' = [left EXCEPT ![Latch] = Selected]
        /\ UNCHANGED received
    BY <1>8 DEF LatchControl
  <2>2. \A i \in 0 .. Captures : left'[i] = IF i = Latch THEN Selected ELSE left[i]
    BY <2>1 DEF TypeOK
  <2>3. left[Latch] = {}
    BY <2>1 DEF PushesAccounted
  <2>4. \A i \in 0 .. Captures : left[i] \cap Selected = {}
    BY DEF PushesAccounted, Selected
  <2>5. \A k \in Selected : k \notin notified /\ (k \in Slots => received[k] = 0)
    BY DEF Selected
  <2>6. Latch \in 0 .. Captures /\ Latch \in pushing'
    BY <2>1
  <2>7. ASSUME NEW k \in Slots, k \in notified' PROVE received'[k] = 1 \/ \E i \in pushing' : k \in left'[i]
    <3>1. CASE k \in Selected
      BY <2>2, <2>6, <3>1
    <3>2. CASE k \in notified
      <4>1. received[k] = 1 \/ \E i \in pushing : k \in left[i]
        BY <3>2
      <4>2. ASSUME NEW i \in pushing, k \in left[i] PROVE i \in pushing' /\ k \in left'[i]
        BY <4>2, <2>1, <2>2, <2>3 DEF TypeOK
      <4> QED BY <2>1, <4>1, <4>2
    <3> QED BY <2>1, <2>7, <3>1, <3>2
  <2>8. ASSUME NEW k \in Slots, NEW i \in 0 .. Captures, k \in left'[i]
        PROVE  received'[k] = 0 /\ \A j \in 0 .. Captures : k \in left'[j] => i = j
    BY <2>1, <2>2, <2>4, <2>5, <2>8
  <2> QED BY <2>1, <2>7, <2>8
<1>9. ASSUME NEW i \in 0 .. Captures, NEW k \in Slots, Push(i, k) PROVE SinksAccounted'
  <2>1. /\ i \in pushing /\ k \in left[i]
        /\ left' = [left EXCEPT ![i] = @ \ {k}]
        /\ received' = [received EXCEPT ![k] = @ + 1]
        /\ UNCHANGED <<notified, pushing>>
    BY <1>9 DEF Push, captureVars
  <2>2. \A j \in 0 .. Captures : left'[j] = IF j = i THEN left[i] \ {k} ELSE left[j]
    BY <2>1 DEF TypeOK
  <2>3. received[k] = 0 /\ k \in notified
    BY <2>1 DEF PushesAccounted
  <2>4. \A s \in Slots : received'[s] = IF s = k THEN 1 ELSE received[s]
    BY <2>1, <2>3 DEF TypeOK
  <2>5. \A j \in 0 .. Captures : k \notin left'[j]
    BY <2>1, <2>2
  <2> QED BY <2>1, <2>2, <2>3, <2>4, <2>5
<1>10. ASSUME NEW i \in 0 .. Captures, Pushed(i) PROVE SinksAccounted'
  BY <1>10 DEF Pushed
<1>11. CASE UNCHANGED vars
  BY <1>11, <1>same DEF vars, captureVars, controlVars
<1> QED BY <1>1, <1>2, <1>3, <1>4, <1>5, <1>6, <1>7, <1>8, <1>9, <1>10, <1>11
        DEF Next, Participating, Pushing

\* A capture that is ready and in the table was selected if a control is
\* latched, and what was selected is reached.
LEMMA NoLostStep ==
  ASSUME TypeOK, CapturesAccounted, PushesAccounted, SinksAccounted, SinksAccounted',
         NoLostControl, [Next]_vars
  PROVE  NoLostControl'
<1> DEFINE Open == {k \in ready : name[k] # "none"}
<1>1. latched => Open \subseteq notified
  BY DEF SinksAccounted, PushesAccounted, CapturesAccounted, NoLostControl, TypeOK
<1> SUFFICES latched' => Open' \subseteq notified'
  BY DEF SinksAccounted, NoLostControl
<1>same. ASSUME Open' \subseteq Open, UNCHANGED <<notified, latched>>
         PROVE  latched' => Open' \subseteq notified'
  BY <1>same, <1>1
<1>table. ASSUME NEW t \in [Slots -> Names \cup {"none"}], Retire,
                 name' = Table(t), control' = Kept(control)
          PROVE  \A k \in Slots : name'[k] # "none" => name'[k] = t[k]
  <2>1. control \in BOOLEAN
    BY DEF TypeOK
  <2>2. name' = t \/ name' = [k \in Slots |-> "none"]
    BY <1>table, <2>1, RetireFacts
  <2> QED BY <2>2
<1>keeps. ASSUME UNCHANGED ready, Retire, name' = Table(name), control' = Kept(control)
          PROVE  Open' \subseteq Open
  BY <1>keeps, <1>table DEF TypeOK
<1>2. CASE Settle
  BY <1>2, <1>same, <1>keeps DEF Settle
<1>3. CASE DispatchDone
  BY <1>3, <1>same, <1>keeps DEF DispatchDone
<1>4. ASSUME NEW n \in Names, Capture(n) PROVE latched' => Open' \subseteq notified'
  <2>1. UNCHANGED <<ready, notified, latched>> /\ name' = [name EXCEPT ![taken + 1] = n]
    BY <1>4 DEF Capture, controlVars
  <2>2. Open' \subseteq Open
    BY <2>1 DEF TypeOK, CapturesAccounted
  <2> QED BY <2>1, <2>2, <1>same
<1>5. ASSUME NEW n \in Names, Ready(n) PROVE latched' => Open' \subseteq notified'
  <2>1. PICK k \in Slots :
           /\ name[k] # "none" /\ ready' = ready \cup {k}
           /\ \/ notified' = notified \cup {k}
              \/ ~(control /\ k \notin notified) /\ UNCHANGED notified
    BY <1>5, ReadyEffect
  <2>2. Retire /\ name' = Table(name) /\ control' = Kept(control) /\ UNCHANGED latched
    BY <1>5 DEF Ready
  <2>3. Open' \subseteq Open \cup {k}
    BY <2>1, <2>2, <1>table DEF TypeOK
  <2>4. latched => control
    BY <2>1 DEF PushesAccounted, CapturesAccounted
  <2> QED BY <1>1, <2>1, <2>2, <2>3, <2>4
<1>6. ASSUME NEW n \in Names, Release(n) PROVE latched' => Open' \subseteq notified'
  <2>1. PICK k \in Slots :
           /\ ready' = ready \cup {k}
           /\ Retire /\ name' = Table([name EXCEPT ![k] = "none"]) /\ control' = Kept(control)
    BY <1>6, ReleaseEffect
  <2>2. UNCHANGED <<notified, latched>>
    BY <1>6 DEF Release
  <2>3. [name EXCEPT ![k] = "none"] \in [Slots -> Names \cup {"none"}]
    BY DEF TypeOK
  <2>4. \A j \in Slots : name'[j] # "none" => name'[j] = [name EXCEPT ![k] = "none"][j]
    BY <2>1, <2>3, <1>table
  <2>5. Open' \subseteq Open
    BY <2>1, <2>4 DEF TypeOK
  <2> QED BY <2>2, <2>5, <1>same
<1>7. ASSUME NEW b \in Bodies, Begin(b) PROVE latched' => Open' \subseteq notified'
  BY <1>7, <1>same DEF Begin, captureVars, controlVars
<1>8. ASSUME NEW b \in Bodies, Done(b) PROVE latched' => Open' \subseteq notified'
  BY <1>8, <1>same, <1>keeps DEF Done
<1>9. CASE LatchControl
  BY <1>9 DEF LatchControl, Selected
<1>10. ASSUME NEW i \in 0 .. Captures, NEW k \in Slots, Push(i, k)
       PROVE  latched' => Open' \subseteq notified'
  BY <1>10, <1>same DEF Push, captureVars
<1>11. ASSUME NEW i \in 0 .. Captures, Pushed(i) PROVE latched' => Open' \subseteq notified'
  BY <1>11, <1>same, <1>keeps DEF Pushed
<1>12. CASE UNCHANGED vars
  BY <1>12, <1>same DEF vars, captureVars, controlVars
<1> QED BY <1>2, <1>3, <1>4, <1>5, <1>6, <1>7, <1>8, <1>9, <1>10, <1>11, <1>12
        DEF Next, Participating, Pushing

LEMMA RetiredStep ==
  ASSUME TypeOK, TypeOK', CapturesAccounted, CountersExact', RetiredIsQuiet, [Next]_vars
  PROVE  RetiredIsQuiet'
<1> USE DEF RetiredIsQuiet
<1>retire. ASSUME Retire, retired => settled' /\ bodies' = {} /\ pushing' = {}
           PROVE  RetiredIsQuiet'
  <2>1. CASE ~retired /\ MayRetire
    <3>1. retired' = TRUE /\ callbacks' = callbacks + 1
      BY <1>retire, <2>1 DEF Retire
    <3>2. settled' /\ running' = 0 /\ controls' = 0
      BY <2>1 DEF MayRetire
    <3>3. IsFiniteSet(bodies') /\ IsFiniteSet(pushing')
      <4>1. bodies' \subseteq Bodies /\ pushing' \subseteq 0 .. Captures
        BY DEF TypeOK
      <4>2. IsFiniteSet(0 .. Captures) /\ IsFiniteSet(Bodies)
        BY FS_Interval, InvocationAssumption
      <4> QED BY <4>1, <4>2, FS_Subset
    <3>4. Cardinality(bodies') = 0 /\ Cardinality(pushing') = 0
      BY <3>2 DEF CountersExact
    <3>5. bodies' = {} /\ pushing' = {}
      BY <3>3, <3>4, FS_EmptySet
    <3>6. callbacks' = 1
      BY <2>1, <3>1
    <3> QED BY <3>1, <3>2, <3>5, <3>6
  <2>2. CASE ~(~retired /\ MayRetire)
    <3>1. retired' = retired /\ callbacks' = callbacks
      BY <1>retire, <2>2, Zenon DEF Retire, endVars
    <3> QED BY <1>retire, <3>1
  <2> QED BY <2>1, <2>2
<1>open. ASSUME NEW n \in Names, Captured(n) PROVE ~retired
  BY <1>open, SlotOf DEF CapturesAccounted
<1>1. CASE Settle
  BY <1>1, <1>retire DEF Settle, bodyVars
<1>2. CASE DispatchDone
  BY <1>2, <1>retire DEF DispatchDone, bodyVars
<1>3. ASSUME NEW n \in Names, Capture(n) PROVE RetiredIsQuiet'
  BY <1>3 DEF Capture, endVars
<1>4. ASSUME NEW n \in Names, Ready(n) PROVE RetiredIsQuiet'
  BY <1>4, <1>open, <1>retire DEF Ready
<1>5. ASSUME NEW n \in Names, Release(n) PROVE RetiredIsQuiet'
  BY <1>5, <1>open, <1>retire DEF Release
<1>6. ASSUME NEW b \in Bodies, Begin(b) PROVE RetiredIsQuiet'
  BY <1>6 DEF Begin, endVars
<1>7. ASSUME NEW b \in Bodies, Done(b) PROVE RetiredIsQuiet'
  BY <1>7, <1>retire DEF Done
<1>8. CASE LatchControl
  BY <1>8 DEF LatchControl, endVars
<1>9. ASSUME NEW i \in 0 .. Captures, NEW k \in Slots, Push(i, k) PROVE RetiredIsQuiet'
  BY <1>9 DEF Push, bodyVars, endVars
<1>10. ASSUME NEW i \in 0 .. Captures, Pushed(i) PROVE RetiredIsQuiet'
  BY <1>10, <1>retire DEF Pushed, bodyVars
<1>11. CASE UNCHANGED vars
  BY <1>11 DEF vars, bodyVars, controlVars, endVars
<1> QED BY <1>1, <1>2, <1>3, <1>4, <1>5, <1>6, <1>7, <1>8, <1>9, <1>10, <1>11
        DEF Next, Participating, Pushing

LEMMA RetiresStep ==
  ASSUME TypeOK, CountersExact, RetiresPromptly, [Next]_vars
  PROVE  RetiresPromptly'
<1> USE DEF RetiresPromptly
<1>retire. ASSUME Retire PROVE RetiresPromptly'
  <2>1. CASE ~retired /\ MayRetire
    BY <1>retire, <2>1 DEF Retire
  <2>2. CASE ~(~retired /\ MayRetire)
    <3>1. retired' = retired
      BY <1>retire, <2>2, Zenon DEF Retire, endVars
    <3> QED BY <2>2, <3>1 DEF MayRetire
  <2> QED BY <2>1, <2>2
<1>counts. unready \in Nat /\ running \in Nat /\ controls \in Nat
  <2>1. Cardinality(Unready) \in Nat /\ Cardinality(bodies) \in Nat /\ Cardinality(pushing) \in Nat
    BY FiniteBookkeeping, FS_CardinalityType
  <2> QED BY <2>1 DEF CountersExact
<1>1. CASE Settle
  BY <1>1, <1>retire DEF Settle
<1>2. CASE DispatchDone
  BY <1>2, <1>retire DEF DispatchDone
<1>3. ASSUME NEW n \in Names, Capture(n) PROVE RetiresPromptly'
  BY <1>3, <1>counts DEF Capture
<1>4. ASSUME NEW n \in Names, Ready(n) PROVE RetiresPromptly'
  BY <1>4, <1>retire DEF Ready
<1>5. ASSUME NEW n \in Names, Release(n) PROVE RetiresPromptly'
  BY <1>5, <1>retire DEF Release
<1>6. ASSUME NEW b \in Bodies, Begin(b) PROVE RetiresPromptly'
  BY <1>6, <1>counts DEF Begin
<1>7. ASSUME NEW b \in Bodies, Done(b) PROVE RetiresPromptly'
  BY <1>7, <1>retire DEF Done
<1>8. CASE LatchControl
  BY <1>8, <1>counts DEF LatchControl
<1>9. ASSUME NEW i \in 0 .. Captures, NEW k \in Slots, Push(i, k) PROVE RetiresPromptly'
  BY <1>9 DEF Push, captureVars, bodyVars, endVars
<1>10. ASSUME NEW i \in 0 .. Captures, Pushed(i) PROVE RetiresPromptly'
  BY <1>10, <1>retire DEF Pushed
<1>11. CASE UNCHANGED vars
  BY <1>11 DEF vars, captureVars, bodyVars, controlVars, endVars
<1> QED BY <1>1, <1>2, <1>3, <1>4, <1>5, <1>6, <1>7, <1>8, <1>9, <1>10, <1>11
        DEF Next, Participating, Pushing

-----------------------------------------------------------------------------
\* The invariants hold together: the counters need each capture to become ready
\* once and each push to be known by one number, those need the table to be
\* empty once retired, and that needs the counters.
Accounted ==
  /\ TypeOK /\ CapturesAccounted /\ PushesAccounted /\ SinksAccounted
  /\ CountersExact /\ RetiredIsQuiet /\ RetiresPromptly /\ NoLostControl

LEMMA AlwaysAccounted == Spec => []Accounted
<1>1. Init => Accounted
  <2> SUFFICES ASSUME Init PROVE Accounted
    OBVIOUS
  <2> USE InvocationAssumption
  <2>1. TypeOK
    BY InitTypes
  <2>2. CapturesAccounted
    BY DEF Init, CapturesAccounted
  <2>3. PushesAccounted /\ SinksAccounted
    BY DEF Init, PushesAccounted, SinksAccounted
  <2>4. CountersExact
    <3>1. Unready = {}
      BY DEF Init, Unready
    <3>2. unready = 1 /\ running = 0 /\ controls = 0 /\ bodies = {} /\ pushing = {} /\ ~dispatchDone
      BY DEF Init
    <3> QED BY <3>1, <3>2, FS_EmptySet DEF CountersExact
  <2>5. RetiredIsQuiet /\ RetiresPromptly /\ NoLostControl
    BY DEF Init, RetiredIsQuiet, RetiresPromptly, NoLostControl
  <2> QED BY <2>1, <2>2, <2>3, <2>4, <2>5 DEF Accounted
<1>2. Accounted /\ [Next]_vars => Accounted'
  <2> SUFFICES ASSUME Accounted, [Next]_vars PROVE Accounted'
    OBVIOUS
  <2> USE DEF Accounted
  <2>1. TypeOK' /\ CapturesAccounted' /\ PushesAccounted' /\ SinksAccounted'
    BY TypeStep, CapturesStep, PushesStep, SinksStep
  <2>2. CountersExact' /\ RetiresPromptly'
    BY CountersStep, RetiresStep
  <2>3. RetiredIsQuiet'
    BY <2>1, <2>2, RetiredStep
  <2>4. NoLostControl'
    BY <2>1, NoLostStep
  <2> QED BY <2>1, <2>2, <2>3, <2>4
<1> QED BY <1>1, <1>2, PTL DEF Spec

\* Whatever order participants call in, the counters retirement waits for are
\* the numbers they stand for.
THEOREM CountersAreExact == Spec => []CountersExact
BY AlwaysAccounted, PTL DEF Accounted

\* Retirement happens neither early (onRetired runs once, with nothing under
\* way and nothing afterwards) nor late (the last operation notices it).
THEOREM RetiresWhenDone == Spec => []RetiresOnTime
<1>1. Accounted => RetiresOnTime
  BY DEF Accounted, RetiresOnTime
<1> QED BY <1>1, AlwaysAccounted, PTL

\* A latched control reaches every capture that is ready, once, however ready,
\* release and cancellation interleave with the pushes.
THEOREM ControlsReachEachOnce == Spec => []ControlOnceEach
<1>1. Accounted => OncePerSink
  BY DEF Accounted, SinksAccounted, CapturesAccounted, OncePerSink
<1>2. Accounted => NoLostControl
  BY DEF Accounted
<1>3. Accounted => ControlOnceEach
  BY <1>1, <1>2 DEF ControlOnceEach
<1> QED BY <1>3, AlwaysAccounted, PTL
-----------------------------------------------------------------------------
(* The endpoints around it.                                                *)

\* Attaching, detaching and closing leave the lifecycle alone, and so do the
\* steps of the request that are not calls of the Invocation's operations.
LEMMA RequestSteps == Requesting \/ Cancel => Next \/ UNCHANGED vars
<1>1. ASSUME Start \/ Dispatch \/ Give
      PROVE  UNCHANGED vars
  BY <1>1 DEF Start, Dispatch, Give
<1>2. ASSUME CaptureRoute
      PROVE  Next \/ UNCHANGED vars
  BY <1>2 DEF CaptureRoute, Next, Participating
<1>3. ASSUME ReadyRoute
      PROVE  Next \/ UNCHANGED vars
  BY <1>3 DEF ReadyRoute, Next, Participating
<1>4. ASSUME Cancel
      PROVE  Next \/ UNCHANGED vars
  BY <1>4 DEF Cancel, Next, Participating
<1> QED BY <1>1, <1>2, <1>3, <1>4 DEF Requesting

\* A push is a push, wherever its sink is.
LEMMA PushSteps ==
  ASSUME NEW i \in 0 .. Captures,
         Lifecycle(Idle(i)) \/ \E k \in Slots : ~Alone /\ PushControl(i, k)
  PROVE  Next
<1>1. CASE Lifecycle(Idle(i))
  BY <1>1 DEF Lifecycle, Idle, Next, Pushing
<1>2. CASE \E k \in Slots : ~Alone /\ PushControl(i, k)
  BY <1>2 DEF PushControl, Next, Pushing
<1> QED BY <1>1, <1>2

LEMMA LifecycleSteps ==
  ASSUME Lifecycle(Settles \/ DeliveryEnds \/ (Alone /\ Participating))
  PROVE  Next
BY DEF Lifecycle, Settles, DeliveryEnds, Next

\* The endpoints, the request and the goroutines above a carrier implement the
\* lifecycle: each of their steps is one of its steps, or leaves it unchanged.
THEOREM RoutesImplementInvocation == RouteSpec => Spec
<1>1. RouteInit => Init
  BY DEF RouteInit
<1>2. [RouteNext]_allVars => [Next]_vars
  <2> SUFFICES ASSUME [RouteNext]_allVars
               PROVE  Next \/ UNCHANGED vars
    OBVIOUS
  <2>1. CASE Layering
    BY <2>1 DEF Layering
  <2>2. CASE Requesting \/ Cancel
    BY <2>2, RequestSteps
  <2>3. CASE Lifecycle(Settles \/ DeliveryEnds \/ (Alone /\ Participating))
    BY <2>3, LifecycleSteps
  <2>4. CASE \E i \in 0 .. Captures :
               Lifecycle(Idle(i)) \/ \E k \in Slots : ~Alone /\ PushControl(i, k)
    BY <2>4, PushSteps
  <2>5. CASE UNCHANGED allVars
    BY <2>5 DEF allVars
  <2> QED BY <2>1, <2>2, <2>3, <2>4, <2>5 DEF RouteNext
<1> QED BY <1>1, <1>2, PTL DEF RouteSpec, Spec

\* However endpoints come and go around a request, its cancellation reaches
\* every capture that is ready, once.
THEOREM RoutedControlOnceEach == RouteSpec => []ControlOnceEach
BY RoutesImplementInvocation, ControlsReachEachOnce, PTL

\* And the invocation retires exactly when nothing of it is left, so that no
\* endpoint is called for a request that is over.
THEOREM RoutedRetiresOnTime == RouteSpec => []RetiresOnTime
BY RoutesImplementInvocation, RetiresWhenDone, PTL
-----------------------------------------------------------------------------
(* What is composed with what.                                             *)

\* The attachments that may be made, and the endpoints each is made through.
Att == {n \in Apps : setting.at[n] # "nowhere"} \cup {n \in {Own} : Below(Dispatcher) # <<>>}
Way(n) == {e \in Endpoints : \A S \in SUBSET Endpoints :
  Entry(n) \in S /\ (\A x \in S : \A i \in DOMAIN Below(x) : Below(x)[i] \in S) => e \in S}

LEMMA TheDispatcher ==
  /\ Dispatcher \in Endpoints /\ \A e \in Endpoints : Kind[e] = "dispatcher" <=> e = Dispatcher
  /\ Own \notin Apps /\ Nobody \notin Apps /\ Own # Nobody
  /\ \A n \in Apps \cup {Own, Nobody} : n \notin Endpoints
<1>1. PICK d \in Endpoints : \A e \in Endpoints : Kind[e] = "dispatcher" <=> e = d
  BY RoutingAssumption
<1>2. Dispatcher \in Endpoints /\ Kind[Dispatcher] = "dispatcher"
  BY <1>1 DEF Dispatcher
<1>3. Own \notin Apps /\ Nobody \notin Apps /\ Own # Nobody
  BY RoutingAssumption DEF Own, Nobody
<1> QED BY <1>1, <1>2, <1>3, RoutingAssumption

LEMMA Composed ==
  ASSUME setting \in Surroundings
  PROVE  /\ \A e \in Endpoints : Below(e) \in Seq(Endpoints)
         /\ \A n \in Apps : setting.at[n] \in (Endpoints \ {Dispatcher}) \cup {"nowhere"}
         /\ \A e \in Endpoints : Kind[e] \in {"root", "exact", "prefix"} => Below(e) = <<>>
         /\ \A e \in Endpoints : Kind[e] # "mount" => Len(Below(e)) <= 1
  BY CompositionAssumption DEF Below

\* What is used has something below it, unless it is a root or a route.
LEMMA Founded ==
  ASSUME setting \in Surroundings, NEW e \in Endpoints, Kind[e] \in {"through", "mount", "view"},
         \/ \E n \in Apps : setting.at[n] = e
         \/ \E p \in Endpoints : \E i \in DOMAIN Below(p) : Below(p)[i] = e
  PROVE  Below(e) # <<>>
  BY CompositionAssumption DEF Below

LEMMA Child ==
  ASSUME setting \in Surroundings, NEW p \in Endpoints, NEW i \in DOMAIN Below(p)
  PROVE  /\ Below(p)[i] \in Endpoints /\ i \in Nat \ {0}
         /\ Below(p)[i] # Dispatcher
<1>1. Below(p) \in Seq(Endpoints)
  BY Composed
<1>2. Below(p)[i] \in Endpoints /\ i \in Nat \ {0}
  BY <1>1
<1> QED BY <1>2, CompositionAssumption DEF Below

LEMMA OneParent ==
  ASSUME setting \in Surroundings, NEW p \in Endpoints, NEW q \in Endpoints,
         NEW i \in DOMAIN Below(p), NEW j \in DOMAIN Below(q), Below(p)[i] = Below(q)[j]
  PROVE  p = q /\ i = j
  BY CompositionAssumption DEF Below

LEMMA Topmost ==
  ASSUME setting \in Surroundings, NEW S \in SUBSET Endpoints, S # {}
  PROVE  \E e \in S : \A p \in S : \A i \in DOMAIN Below(p) : Below(p)[i] # e
<1>1. \A Z \in SUBSET Endpoints : Z # {} =>
        \E e \in Z : \A p \in Z : \A i \in DOMAIN setting.below[p] : setting.below[p][i] # e
  BY CompositionAssumption
<1> QED BY <1>1, Zenon DEF Below

LEMMA WayBelow ==
  ASSUME setting \in Surroundings, NEW n \in Att, NEW e \in Way(n), NEW i \in DOMAIN Below(e)
  PROVE  Below(e)[i] \in Way(n)
<1>1. Below(e)[i] \in Endpoints
  BY Composed DEF Way
<1>2. ASSUME NEW S \in SUBSET Endpoints, Entry(n) \in S,
             \A x \in S : \A j \in DOMAIN Below(x) : Below(x)[j] \in S
      PROVE  Below(e)[i] \in S
  <2>1. e \in S
    BY <1>2 DEF Way
  <2> QED BY <1>2, <2>1
<1> QED BY <1>1, <1>2 DEF Way

LEMMA EntryIs ==
  ASSUME setting \in Surroundings, NEW n \in Att
  PROVE  /\ Entry(n) \in Way(n) /\ Entry(n) \in Endpoints \ {Dispatcher} /\ n \in Apps \cup {Own}
         /\ n = Own => Below(Dispatcher) # <<>> /\ Entry(n) = Below(Dispatcher)[1] /\ 1 \in DOMAIN Below(Dispatcher)
         /\ n # Own => n \in Apps /\ setting.at[n] # "nowhere" /\ Entry(n) = setting.at[n]
<1>1. CASE n = Own
  <2>1. Below(Dispatcher) # <<>> /\ Below(Dispatcher) \in Seq(Endpoints)
    BY <1>1, Composed, TheDispatcher DEF Att
  <2>2. 1 \in DOMAIN Below(Dispatcher) /\ Below(Dispatcher)[1] \in Endpoints
    BY <2>1
  <2>3. Below(Dispatcher)[1] # Dispatcher
    BY <2>2, Child, TheDispatcher
  <2> QED BY <1>1, <2>1, <2>2, <2>3 DEF Entry, Way
<1>2. CASE n # Own
  <2>1. n \in Apps /\ setting.at[n] # "nowhere"
    BY <1>2 DEF Att
  <2>2. setting.at[n] \in Endpoints \ {Dispatcher}
    BY <2>1, Composed
  <2> QED BY <1>2, <2>1, <2>2 DEF Entry, Way
<1> QED BY <1>1, <1>2

\* What is on the way is the entry or below what is on the way.
LEMMA WayUp ==
  ASSUME setting \in Surroundings, NEW n \in Att, NEW e \in Way(n), e # Entry(n)
  PROVE  \E u \in Way(n) : \E i \in DOMAIN Below(u) : Below(u)[i] = e
<1> SUFFICES ASSUME \A u \in Way(n) : \A i \in DOMAIN Below(u) : Below(u)[i] # e
             PROVE  FALSE
  OBVIOUS
<1> DEFINE S == Way(n) \ {e}
<1>1. S \in SUBSET Endpoints
  BY DEF Way
<1>2. Entry(n) \in S
  BY EntryIs
<1>3. \A x \in S : \A i \in DOMAIN Below(x) : Below(x)[i] \in S
  BY WayBelow
<1>4. e \in S
  <2> HIDE DEF S
  <2> QED BY <1>1, <1>2, <1>3 DEF Way
<1> QED BY <1>4

\* Nothing goes down to the dispatcher itself, and the way of its own attachment
\* to none of its routes.
LEMMA WayKinds ==
  ASSUME setting \in Surroundings, NEW n \in Att, NEW e \in Way(n)
  PROVE  /\ e \in Endpoints /\ e # Dispatcher /\ Kind[e] # "dispatcher"
         /\ n = Own => e \notin Routes
         /\ Kind[e] \in {"through", "mount", "view"} => 1 \in DOMAIN Below(e)
         /\ Kind[e] \in {"through", "view"} => DOMAIN Below(e) = {1}
<1>1. e \in Endpoints
  BY DEF Way
<1>2. e # Dispatcher /\ Kind[e] # "dispatcher"
  <2> DEFINE Plain == Endpoints \ {Dispatcher}
  <2>1. Entry(n) \in Plain
    BY EntryIs
  <2>2. \A x \in Plain : \A i \in DOMAIN Below(x) : Below(x)[i] \in Plain
    BY Child
  <2>3. e \in Plain
    BY <2>1, <2>2 DEF Way
  <2> QED BY <2>3, TheDispatcher
<1>3. n = Own => e \notin Routes
  <2> SUFFICES ASSUME n = Own
               PROVE  e \notin Routes
    OBVIOUS
  <2> DEFINE Under == Endpoints \ setting.selected
  <2>1. /\ Dispatcher \notin setting.selected
        /\ setting.selected = Routes \cup {x \in Endpoints :
             \E i \in DOMAIN Below(x) : Below(x)[i] \in setting.selected}
    BY CompositionAssumption DEF Below
  <2>2. \A x \in Endpoints \ setting.selected : \A i \in DOMAIN Below(x) : Below(x)[i] \in Under
    BY <2>1, Child
  <2>3. Entry(n) \in Under
    BY <2>1, <2>2, EntryIs, TheDispatcher
  <2>4. e \in Under
    <3>1. Under \in SUBSET Endpoints
      OBVIOUS
    <3> QED BY <2>2, <2>3, <3>1 DEF Way
  <2> QED BY <2>1, <2>4
<1>4. Kind[e] \in {"through", "mount", "view"} => Below(e) # <<>>
  <2> SUFFICES ASSUME Kind[e] \in {"through", "mount", "view"}
               PROVE  Below(e) # <<>>
    OBVIOUS
  <2>1. CASE e = Entry(n)
    <3>1. CASE n = Own
      <4>1. \E i \in DOMAIN Below(Dispatcher) : e = Below(Dispatcher)[i]
        BY <2>1, <3>1, EntryIs
      <4> QED BY <1>1, <4>1, Founded, TheDispatcher
    <3>2. CASE n # Own
      <4>1. n \in Apps /\ setting.at[n] = e
        BY <2>1, <3>2, EntryIs
      <4> QED BY <1>1, <4>1, Founded
    <3> QED BY <3>1, <3>2
  <2>2. CASE e # Entry(n)
    <3>1. PICK u \in Way(n) : \E i \in DOMAIN Below(u) : Below(u)[i] = e
      BY <2>2, WayUp
    <3>2. u \in Endpoints
      BY DEF Way
    <3> QED BY <1>1, <3>1, <3>2, Founded
  <2> QED BY <2>1, <2>2
<1>5. Below(e) \in Seq(Endpoints) /\ (Kind[e] # "mount" => Len(Below(e)) <= 1)
  BY <1>1, Composed
<1>6. /\ Kind[e] \in {"through", "mount", "view"} => 1 \in DOMAIN Below(e)
      /\ Kind[e] \in {"through", "view"} => DOMAIN Below(e) = {1}
  <2>1. PICK b \in Seq(Endpoints) : b = Below(e)
    BY <1>5
  <2>2. b # <<>> => 1 \in DOMAIN b
    OBVIOUS
  <2>3. b # <<>> /\ Len(b) <= 1 => DOMAIN b = {1}
    BY SMTT(30)
  <2> QED BY <1>4, <1>5, <2>1, <2>2, <2>3
<1> QED BY <1>1, <1>2, <1>3, <1>6

\* An attachment attaches further down from these, beginning with the last.
Top(n) == IF n = Own THEN Dispatcher ELSE Entry(n)
Hops(n) == {e \in Endpoints : e \in Way(n) \/ (n = Own /\ e = Dispatcher)}

LEMMA HopBelow ==
  ASSUME setting \in Surroundings, NEW n \in Att, NEW u \in Hops(n), NEW i \in DOMAIN Below(u)
  PROVE  Below(u)[i] \in Way(n)
<1>1. CASE n = Own /\ u = Dispatcher
  <2>1. Below(Dispatcher) \in Seq(Endpoints) /\ Len(Below(Dispatcher)) <= 1
    BY Composed, TheDispatcher
  <2>2. PICK b \in Seq(Endpoints) : b = Below(Dispatcher)
    BY <2>1
  <2>3. i = 1
    BY <1>1, <2>1, <2>2
  <2> QED BY <1>1, <2>3, EntryIs
<1>2. CASE u \in Way(n)
  BY <1>2, WayBelow
<1> QED BY <1>1, <1>2 DEF Hops

\* The entry is below nothing on the way.
LEMMA EntryFirst ==
  ASSUME setting \in Surroundings, NEW n \in Att, NEW u \in Way(n), NEW i \in DOMAIN Below(u)
  PROVE  Below(u)[i] # Entry(n)
<1> SUFFICES ASSUME Below(u)[i] = Entry(n)
             PROVE  FALSE
  OBVIOUS
<1>1. Way(n) \in SUBSET Endpoints /\ Way(n) # {}
  BY DEF Way
<1>2. PICK e \in Way(n) : \A p \in Way(n) : \A j \in DOMAIN Below(p) : Below(p)[j] # e
  BY <1>1, Topmost
<1>3. CASE e = Entry(n)
  BY <1>2, <1>3
<1>4. CASE e # Entry(n)
  <2>1. \E p \in Way(n) : \E j \in DOMAIN Below(p) : Below(p)[j] = e
    BY <1>4, WayUp
  <2> QED BY <1>2, <2>1
<1> QED BY <1>3, <1>4

LEMMA TopFirst ==
  ASSUME setting \in Surroundings, NEW n \in Att, NEW u \in Hops(n), NEW i \in DOMAIN Below(u)
  PROVE  Below(u)[i] # Top(n)
<1>1. u \in Endpoints
  BY DEF Hops
<1>2. CASE n = Own
  BY <1>1, <1>2, Child DEF Top
<1>3. CASE n # Own
  BY <1>3, EntryFirst DEF Top, Hops
<1> QED BY <1>2, <1>3

LEMMA HopsApart ==
  ASSUME setting \in Surroundings, NEW n \in Att, NEW u \in Hops(n), NEW v \in Hops(n),
         NEW i \in DOMAIN Below(u), NEW j \in DOMAIN Below(v), Below(u)[i] = Below(v)[j]
  PROVE  u = v /\ i = j
<1>1. u \in Endpoints /\ v \in Endpoints
  BY DEF Hops
<1> QED BY <1>1, OneParent

\* The entry and the children of what an attachment attaches from.
LEMMA WayHops ==
  ASSUME setting \in Surroundings, NEW n \in Att, NEW e \in Way(n)
  PROVE  /\ e = Entry(n) \/ \E u \in Hops(n) : \E i \in DOMAIN Below(u) : Below(u)[i] = e
         /\ e # Dispatcher /\ e \in Hops(n)
<1>1. \A u \in Way(n) : u \in Hops(n)
  BY DEF Hops, Way
<1>2. e = Entry(n) \/ \E u \in Way(n) : \E i \in DOMAIN Below(u) : Below(u)[i] = e
  BY WayUp
<1> QED BY <1>1, <1>2, WayKinds

\* Who is composed with whom stays.
LEMMA Stays ==
  ASSUME UNCHANGED setting
  PROVE  /\ Att' = Att /\ \A e : Below(e)' = Below(e)
         /\ \A n : Way(n)' = Way(n) /\ Hops(n)' = Hops(n) /\ Top(n)' = Top(n) /\ Entry(n)' = Entry(n)
<1>1. Att' = Att
  BY DEF Att, Below
<1>2. ASSUME NEW e
      PROVE  Below(e)' = Below(e)
  BY DEF Below
<1>3. ASSUME NEW n
      PROVE  Entry(n)' = Entry(n)
  BY DEF Entry, Below
<1>4. ASSUME NEW n
      PROVE  Way(n)' = Way(n)
  BY <1>2, <1>3 DEF Way
<1>5. ASSUME NEW n
      PROVE  Hops(n)' = Hops(n) /\ Top(n)' = Top(n)
  BY <1>3, <1>4 DEF Hops, Top
<1> QED BY <1>1, <1>2, <1>3, <1>4, <1>5

-----------------------------------------------------------------------------
(* The stacks.  A goroutine of an attachment climbs down its way: each call *)
(* is awaited by the one that made it, and none is made twice.             *)

Climbing == {"receive", "next", "await", "return"}
Frame == [op : Climbing \cup {"detach", "closed", "close", "tell"}, e : Endpoints, n : Apps \cup {Own, Nobody},
          i : Nat, returns : {"", "none", "closed", "exists", "detached"}]

Rises(f, n) ==
  /\ f.n = n /\ f.op \in Climbing \cup {"detach"}
  /\ f.op = "receive" => f.e \in Way(n) /\ f.i = 1
  /\ f.op = "next" => f.e \in Way(n) /\ Kind[f.e] = "mount" /\ f.i # 0
  /\ f.op = "await" => f.e \in Hops(n) /\ f.i \in DOMAIN Below(f.e)
  /\ f.op = "return" => f.e \in Hops(n)
Awaits(f, e) == f.op = "await" /\ Below(f.e)[f.i] = e
Awaited(S, n) == \A k \in DOMAIN S : S[k].op \in Climbing =>
  IF k = Len(S) THEN S[k].e = Top(n) ELSE Awaits(S[k + 1], S[k].e)
Distinct(S) == \A j, k \in DOMAIN S :
  S[j].op \in Climbing /\ S[k].op \in Climbing /\ S[j].e = S[k].e => j = k
Line(S, n) ==
  /\ S \in Seq(Frame) /\ \A k \in DOMAIN S : Rises(S[k], n)
  /\ Awaited(S, n) /\ Distinct(S)

Sinks(f) ==
  /\ f.op \in {"detach", "closed", "close", "tell"} /\ (f.op \in {"detach", "closed"} => f.n \in Att)
  /\ f.op = "close" /\ f.e = Dispatcher => Below(Dispatcher) # <<>>

\* What a goroutine does next, above what it returns to.
LEMMA Prepended ==
  ASSUME NEW F, NEW c \in Seq(F), NEW T \in Seq(F)
  PROVE  /\ c \o T \in Seq(F) /\ Len(c \o T) = Len(c) + Len(T)
         /\ \A k \in DOMAIN c : k \in DOMAIN (c \o T) /\ (c \o T)[k] = c[k]
         /\ \A k \in DOMAIN T : Len(c) + k \in DOMAIN (c \o T) /\ (c \o T)[Len(c) + k] = T[k]
         /\ \A k \in DOMAIN (c \o T) : k \in Nat /\ k # 0 /\
              (IF k <= Len(c) THEN k \in DOMAIN c ELSE k - Len(c) \in DOMAIN T)
OBVIOUS

LEMMA Rest ==
  ASSUME NEW F, NEW S \in Seq(F), S # <<>>
  PROVE  /\ Tail(S) \in Seq(F) /\ Len(Tail(S)) = Len(S) - 1 /\ Len(S) \in Nat \ {0}
         /\ Head(S) = S[1] /\ 1 \in DOMAIN S /\ S[1] \in F
         /\ \A k \in DOMAIN Tail(S) : k \in Nat /\ k # 0 /\ k + 1 \in DOMAIN S /\ Tail(S)[k] = S[k + 1]
         /\ \A k \in DOMAIN S : k # 1 => k - 1 \in DOMAIN Tail(S) /\ Tail(S)[k - 1] = S[k]
<1>1. Tail(S) \in Seq(F) /\ Len(Tail(S)) = Len(S) - 1 /\ Len(S) \in Nat \ {0}
  OBVIOUS
<1>2. Head(S) = S[1] /\ 1 \in DOMAIN S /\ S[1] \in F
  OBVIOUS
<1>3. \A k \in DOMAIN Tail(S) : k \in Nat /\ k # 0 /\ k + 1 \in DOMAIN S /\ Tail(S)[k] = S[k + 1]
  OBVIOUS
<1>4. \A k \in DOMAIN S : k # 1 => k - 1 \in DOMAIN Tail(S) /\ Tail(S)[k - 1] = S[k]
  OBVIOUS
<1> QED BY <1>1, <1>2, <1>3, <1>4

LEMMA LineRest ==
  ASSUME NEW n, NEW S, Line(S, n), S # <<>>
  PROVE  Line(Tail(S), n)
<1> DEFINE T == Tail(S)
<1>0. S \in Seq(Frame) /\ \A k \in DOMAIN S : k \in 1 .. Len(S)
  BY DEF Line
<1>1. /\ T \in Seq(Frame) /\ Len(T) = Len(S) - 1
      /\ \A k \in DOMAIN T : k \in Nat /\ k # 0 /\ k + 1 \in DOMAIN S /\ T[k] = S[k + 1]
  BY <1>0, Rest
<1>2. \A k \in DOMAIN T : k \in 1 .. Len(T)
  BY <1>1
<1> HIDE DEF T
<1>3. \A k \in DOMAIN T : Rises(T[k], n)
  BY <1>1 DEF Line
<1>4. ASSUME NEW k \in DOMAIN T, T[k].op \in Climbing
      PROVE  IF k = Len(T) THEN T[k].e = Top(n) ELSE Awaits(T[k + 1], T[k].e)
  <2>1. k + 1 \in DOMAIN S /\ T[k] = S[k + 1] /\ k \in 1 .. Len(T) /\ Len(T) \in Nat
    BY <1>1, <1>2
  <2>2. IF k + 1 = Len(S) THEN S[k + 1].e = Top(n) ELSE Awaits(S[k + 1 + 1], S[k + 1].e)
    BY <1>4, <2>1 DEF Line, Awaited
  <2>3. k # Len(T) => k + 1 \in DOMAIN T /\ T[k + 1] = S[k + 1 + 1]
    <3>1. k # Len(T) => k + 1 \in DOMAIN T
      BY <1>1, <2>1
    <3> QED BY <1>1, <3>1
  <2>4. k = Len(T) <=> k + 1 = Len(S)
    BY <1>1, <2>1
  <2> QED BY <2>1, <2>2, <2>3, <2>4
<1>5. ASSUME NEW j \in DOMAIN T, NEW k \in DOMAIN T, T[j].op \in Climbing, T[k].op \in Climbing, T[j].e = T[k].e
      PROVE  j = k
  <2>1. j + 1 = k + 1
    BY <1>1, <1>5 DEF Line, Distinct
  <2> QED BY <2>1, <1>1
<1> QED BY <1>1, <1>3, <1>4, <1>5 DEF Line, Awaited, Distinct, T

LEMMA LineDetaches ==
  ASSUME NEW n, NEW S, Line(S, n), NEW c \in Seq(Frame), \A k \in DOMAIN c : c[k].op = "detach" /\ c[k].n = n
  PROVE  Line(c \o S, n)
<1> DEFINE T == c \o S
<1>0. S \in Seq(Frame) /\ Len(c) \in Nat
  BY DEF Line
<1>1. /\ T \in Seq(Frame) /\ Len(T) = Len(c) + Len(S)
      /\ \A k \in DOMAIN c : T[k] = c[k]
      /\ \A k \in DOMAIN S : T[Len(c) + k] = S[k]
      /\ \A k \in DOMAIN T : k \in Nat /\ k # 0 /\
           (IF k <= Len(c) THEN k \in DOMAIN c ELSE k - Len(c) \in DOMAIN S)
  BY <1>0, Prepended
<1>2. \A k \in DOMAIN S : k \in 1 .. Len(S)
  BY <1>0
<1> HIDE DEF T
<1>3. ASSUME NEW k \in DOMAIN T
      PROVE  (k \in DOMAIN c /\ T[k] = c[k]) \/ (k - Len(c) \in DOMAIN S /\ T[k] = S[k - Len(c)] /\ k \in Nat)
  <2>1. Len(c) + (k - Len(c)) = k
    BY <1>0, <1>1
  <2> QED BY <1>1, <2>1
<1>4. \A k \in DOMAIN T : Rises(T[k], n)
  BY <1>3 DEF Line, Rises, Climbing
<1>5. ASSUME NEW k \in DOMAIN T, T[k].op \in Climbing
      PROVE  k - Len(c) \in DOMAIN S /\ T[k] = S[k - Len(c)] /\ k \in Nat
  BY <1>3, <1>5 DEF Climbing
<1>6. ASSUME NEW k \in DOMAIN T, T[k].op \in Climbing
      PROVE  IF k = Len(T) THEN T[k].e = Top(n) ELSE Awaits(T[k + 1], T[k].e)
  <2>1. k - Len(c) \in DOMAIN S /\ T[k] = S[k - Len(c)] /\ k \in Nat
    BY <1>5, <1>6
  <2>2. PICK h \in 1 .. Len(S) : h = k - Len(c) /\ h \in DOMAIN S /\ Len(S) \in Nat
    BY <1>0, <1>2, <2>1
  <2>3. IF h = Len(S) THEN S[h].e = Top(n) ELSE Awaits(S[h + 1], S[h].e)
    BY <1>6, <2>1, <2>2 DEF Line, Awaited
  <2>4. h # Len(S) => h + 1 \in DOMAIN S
    BY <1>0, <2>2
  <2>5. h # Len(S) => T[Len(c) + (h + 1)] = S[h + 1]
    BY <1>1, <2>4
  <2>6. k = Len(T) <=> h = Len(S)
    BY <1>0, <1>1, <2>1, <2>2
  <2>7. k + 1 = Len(c) + (h + 1)
    BY <1>0, <2>1, <2>2
  <2> QED BY <2>1, <2>2, <2>3, <2>5, <2>6, <2>7
<1>7. ASSUME NEW j \in DOMAIN T, NEW k \in DOMAIN T, T[j].op \in Climbing, T[k].op \in Climbing, T[j].e = T[k].e
      PROVE  j = k
  <2>1. j - Len(c) = k - Len(c)
    BY <1>5, <1>7 DEF Line, Distinct
  <2> QED BY <2>1, <1>0, <1>1
<1> QED BY <1>1, <1>4, <1>6, <1>7 DEF Line, Awaited, Distinct, T

\* The topmost call goes on.
LEMMA LineGoesOn ==
  ASSUME NEW n, NEW S, Line(S, n), S # <<>>, S[1].op \in Climbing,
         NEW f \in Frame, Rises(f, n), f.op \in Climbing, f.e = S[1].e
  PROVE  Line(<<f>> \o Tail(S), n)
<1> DEFINE T == <<f>> \o Tail(S)
<1>0. S \in Seq(Frame) /\ Len(S) \in Nat /\ 1 \in DOMAIN S
  BY DEF Line
<1>1. T \in Seq(Frame) /\ Len(T) = Len(S) /\ DOMAIN T = DOMAIN S
  BY <1>0
<1>2. T[1] = f /\ \A k \in DOMAIN S : k # 1 => T[k] = S[k]
  BY <1>0
<1>3. \A k \in DOMAIN S : k \in Nat /\ k # 0
  BY <1>0
<1> HIDE DEF T
<1>4. \A k \in DOMAIN T : Rises(T[k], n)
  BY <1>1, <1>2 DEF Line
<1>5. \A k \in DOMAIN T : T[k].op \in Climbing => S[k].op \in Climbing /\ S[k].e = T[k].e
  BY <1>1, <1>2
<1>6. Distinct(T)
  BY <1>1, <1>5 DEF Line, Distinct
<1>7. ASSUME NEW k \in DOMAIN T, T[k].op \in Climbing
      PROVE  IF k = Len(T) THEN T[k].e = Top(n) ELSE Awaits(T[k + 1], T[k].e)
  <2>1. IF k = Len(S) THEN S[k].e = Top(n) ELSE Awaits(S[k + 1], S[k].e)
    BY <1>1, <1>5, <1>7 DEF Line, Awaited
  <2>2. k # Len(S) => k + 1 \in DOMAIN S /\ k + 1 # 1
    BY <1>0, <1>1, <1>3
  <2> QED BY <1>1, <1>2, <1>5, <1>7, <2>1, <2>2
<1> QED BY <1>1, <1>4, <1>6, <1>7 DEF Line, Awaited, T

\* It receives at one of its children, and awaits that.
LEMMA LineReceives ==
  ASSUME setting \in Surroundings, NEW n \in Att, NEW S, Line(S, n), S # <<>>, S[1].op = "await",
         NEW f \in Frame, f.op = "receive", f.n = n, f.i = 1, f.e = Below(S[1].e)[S[1].i]
  PROVE  Line(<<f>> \o S, n)
<1> DEFINE T == <<f>> \o S
           u == S[1].e
           i == S[1].i
<1>0. S \in Seq(Frame) /\ Len(S) \in Nat /\ 1 \in DOMAIN S
  BY DEF Line
<1>1. /\ T \in Seq(Frame) /\ Len(T) = Len(S) + 1 /\ T[1] = f
      /\ \A k \in DOMAIN S : T[k + 1] = S[k] /\ k \in Nat /\ k # 0
      /\ \A k \in DOMAIN T : k \in Nat /\ k # 0 /\ (k = 1 \/ k - 1 \in DOMAIN S)
  BY <1>0
<1> HIDE DEF T
<1>2. u \in Hops(n) /\ i \in DOMAIN Below(u) /\ f.e = Below(u)[i]
  BY <1>0 DEF Line, Rises
<1>3. f.e \in Way(n) /\ f.e # Top(n)
  BY <1>2, HopBelow, TopFirst
<1>4. Rises(f, n)
  BY <1>3 DEF Rises, Climbing
<1>5. ASSUME NEW k \in DOMAIN T, k # 1
      PROVE  k - 1 \in DOMAIN S /\ T[k] = S[k - 1] /\ k \in Nat
  <2>1. k - 1 \in DOMAIN S /\ k \in Nat
    BY <1>1, <1>5
  <2>2. T[k - 1 + 1] = S[k - 1] /\ k - 1 + 1 = k
    BY <1>1, <2>1
  <2> QED BY <2>1, <2>2
<1>6. \A k \in DOMAIN T : Rises(T[k], n)
  BY <1>1, <1>4, <1>5 DEF Line
<1>7. ASSUME NEW k \in DOMAIN S, S[k].op \in Climbing
      PROVE  S[k].e # f.e
  <2> SUFFICES ASSUME S[k].e = f.e
               PROVE  FALSE
    OBVIOUS
  <2>1. k # Len(S) /\ Awaits(S[k + 1], f.e)
    BY <1>3, <1>7 DEF Line, Awaited
  <2>2. k + 1 \in DOMAIN S /\ k + 1 # 1
    BY <1>0, <1>1, <2>1
  <2>3. S[k + 1].e \in Hops(n) /\ S[k + 1].i \in DOMAIN Below(S[k + 1].e) /\ Below(S[k + 1].e)[S[k + 1].i] = f.e
    BY <2>1, <2>2 DEF Line, Rises, Awaits
  <2>4. S[k + 1].e = u
    BY <1>2, <2>3, HopsApart
  <2>5. k + 1 = 1
    BY <1>0, <2>1, <2>2, <2>4 DEF Line, Distinct, Awaits, Climbing
  <2> QED BY <2>2, <2>5
<1>8. ASSUME NEW j \in DOMAIN T, NEW k \in DOMAIN T, T[j].op \in Climbing, T[k].op \in Climbing, T[j].e = T[k].e
      PROVE  j = k
  <2>1. CASE j = 1 /\ k = 1
    BY <2>1
  <2>2. CASE j = 1 /\ k # 1
    BY <1>1, <1>5, <1>7, <1>8, <2>2
  <2>3. CASE j # 1 /\ k = 1
    BY <1>1, <1>5, <1>7, <1>8, <2>3
  <2>4. CASE j # 1 /\ k # 1
    <3>1. j - 1 = k - 1
      BY <1>5, <1>8, <2>4 DEF Line, Distinct
    <3> QED BY <3>1, <1>5, <2>4
  <2> QED BY <2>1, <2>2, <2>3, <2>4
<1>9. ASSUME NEW k \in DOMAIN T, T[k].op \in Climbing
      PROVE  IF k = Len(T) THEN T[k].e = Top(n) ELSE Awaits(T[k + 1], T[k].e)
  <2>1. CASE k = 1
    <3>0. Awaits(S[1], f.e)
      BY <1>2 DEF Awaits
    <3>1. T[1 + 1] = S[1] /\ Awaits(S[1], f.e) /\ Len(T) # 1
      BY <1>0, <1>1, <3>0
    <3> QED BY <1>1, <2>1, <3>1
  <2>2. CASE k # 1
    <3>1. PICK h \in DOMAIN S : h = k - 1 /\ T[k] = S[h] /\ k \in Nat /\ h \in Nat
      BY <1>1, <1>5, <2>2
    <3>2. IF h = Len(S) THEN S[h].e = Top(n) ELSE Awaits(S[h + 1], S[h].e)
      BY <1>9, <3>1 DEF Line, Awaited
    <3>3. h # Len(S) => h + 1 \in DOMAIN S
      BY <1>0, <3>1
    <3>4. h # Len(S) => T[h + 1 + 1] = S[h + 1]
      BY <1>1, <3>3
    <3>5. k = Len(T) <=> h = Len(S)
      BY <1>0, <1>1, <3>1
    <3>6. k + 1 = h + 1 + 1
      BY <3>1
    <3> QED BY <3>1, <3>2, <3>4, <3>5, <3>6
  <2> QED BY <2>1, <2>2
<1> QED BY <1>1, <1>6, <1>8, <1>9 DEF Line, Awaited, Distinct, T

-----------------------------------------------------------------------------
(* The detach functions an endpoint keeps.                                 *)

\* What any set of numbers has.
LEMMA Least ==
  ASSUME NEW S, S \subseteq Nat, S # {}
  PROVE  \E x \in S : \A y \in S : x <= y
<1>1. IsWellFoundedOn(OpToRel(<, Nat), Nat)
  BY NatLessThanWellFounded
<1>2. PICK x \in S : \A y \in S : ~(<<y, x>> \in OpToRel(<, Nat))
  BY <1>1, WFMin, Zenon
<1>3. \A y \in S : ~(y < x)
  BY <1>2 DEF OpToRel
<1>4. ASSUME NEW y \in S
      PROVE  x <= y
  <2>1. x \in Nat /\ y \in Nat /\ ~(y < x)
    BY <1>2, <1>3
  <2> QED BY <2>1
<1> QED BY <1>2, <1>4

\* Induction up to a number, over a set.
LEMMA Upward ==
  ASSUME NEW n \in Nat, NEW S, 0 \in S, \A i \in 1 .. n : i - 1 \in S => i \in S
  PROVE  n \in S
<1> SUFFICES ASSUME n \notin S
             PROVE  FALSE
  OBVIOUS
<1> DEFINE Bad == {i \in 0 .. n : i \notin S}
<1>1. Bad \subseteq Nat /\ n \in Bad
  OBVIOUS
<1>2. PICK i \in Bad : \A j \in Bad : i <= j
  BY <1>1, Least
<1>3. i \in 1 .. n /\ i \notin S /\ i - 1 \in 0 .. n
  OBVIOUS
<1>4. i - 1 \in S
  BY <1>2, <1>3
<1> QED BY <1>3, <1>4

\* The functions that begin with s and take a step for each number up to n.
Runs(n, G, s, step) ==
  {f \in [0 .. n -> G] : f[0] = s /\ \A i \in 1 .. n : f[i] = step[i][f[i - 1]]}

LEMMA Iterates ==
  ASSUME NEW n \in Nat, NEW G, NEW s \in G, NEW step \in [1 .. n -> [G -> G]]
  PROVE  Runs(n, G, s, step) # {}
<1> DEFINE S == {m \in 0 .. n : Runs(m, G, s, step) # {}}
<1>1. 0 \in S
  <2>1. [i \in 0 .. 0 |-> s] \in Runs(0, G, s, step)
    BY DEF Runs
  <2> QED BY <2>1
<1>2. ASSUME NEW i \in 1 .. n, i - 1 \in S
      PROVE  i \in S
  <2>1. PICK f \in [0 .. i - 1 -> G] : f[0] = s /\ \A j \in 1 .. i - 1 : f[j] = step[j][f[j - 1]]
    BY <1>2 DEF Runs
  <2>2. i - 1 \in 0 .. i - 1 /\ f[i - 1] \in G /\ step[i] \in [G -> G]
    BY <2>1
  <2> DEFINE g == [j \in 0 .. i |-> IF j = i THEN step[i][f[i - 1]] ELSE f[j]]
  <2>3. g \in [0 .. i -> G]
    <3> SUFFICES ASSUME NEW j \in 0 .. i
                 PROVE  (IF j = i THEN step[i][f[i - 1]] ELSE f[j]) \in G
      OBVIOUS
    <3>1. CASE j = i
      BY <3>1, <2>2
    <3>2. CASE j # i
      <4>1. j \in 0 .. i - 1
        BY <3>2
      <4> QED BY <4>1, <3>2, <2>1
    <3> QED BY <3>1, <3>2
  <2>4. g[0] = s
    BY <2>1
  <2>5. ASSUME NEW j \in 1 .. i
        PROVE  g[j] = step[j][g[j - 1]]
    <3>1. j - 1 \in 0 .. i /\ j - 1 # i /\ g[j - 1] = f[j - 1]
      OBVIOUS
    <3>2. CASE j = i
      BY <3>1, <3>2
    <3>3. CASE j # i
      <4>1. j \in 1 .. i - 1 /\ j \in 0 .. i
        BY <3>3
      <4>2. f[j] = step[j][f[j - 1]] /\ g[j] = f[j]
        BY <4>1, <3>3, <2>1
      <4> QED BY <4>2, <3>1
    <3> QED BY <3>2, <3>3
  <2>6. g \in Runs(i, G, s, step)
    <3> HIDE DEF g
    <3> QED BY <2>3, <2>4, <2>5 DEF Runs
  <2> QED BY <2>6
<1>3. n \in S
  <2> HIDE DEF S
  <2> QED BY <1>1, <1>2, Upward
<1> QED BY <1>3

\* The functions that Detaches computes with.
LEMMA DetachesRun ==
  ASSUME NEW e \in Endpoints, Below(e) \in Seq(Endpoints), NEW n \in Apps \cup {Own, Nobody}
  PROVE  \E f \in [0 .. Len(Below(e)) -> Seq(Frame)] :
           /\ f[0] = <<>> /\ Detaches(e, n) = f[Len(Below(e))]
           /\ \A i \in 1 .. Len(Below(e)) :
                f[i] = IF <<e, n, i>> \in disposers THEN Append(f[i - 1], Call("detach", Below(e)[i], n)) ELSE f[i - 1]
<1>n. PICK m \in Nat : m = Len(Below(e))
  OBVIOUS
<1> DEFINE Unrolled(f) == [i \in 0 .. m |->
             IF i = 0 THEN <<>>
             ELSE IF <<e, n, i>> \in disposers THEN Append(f[i - 1], Call("detach", Below(e)[i], n))
             ELSE f[i - 1]]
           upTo == CHOOSE f : f = Unrolled(f)
           step == [i \in 1 .. m |-> [t \in Seq(Frame) |->
             IF <<e, n, i>> \in disposers THEN Append(t, Call("detach", Below(e)[i], n)) ELSE t]]
<1>1. step \in [1 .. m -> [Seq(Frame) -> Seq(Frame)]]
  <2>1. \A i \in 1 .. m : Call("detach", Below(e)[i], n) \in Frame
    BY <1>n DEF Call, Frame
  <2> QED BY <2>1
<1>2. PICK g \in [0 .. m -> Seq(Frame)] : g[0] = <<>> /\ \A i \in 1 .. m : g[i] = step[i][g[i - 1]]
  <2>1. PICK steps \in [1 .. m -> [Seq(Frame) -> Seq(Frame)]] : steps = step
    <3> HIDE DEF step
    <3> QED BY <1>1
  <2>2. <<>> \in Seq(Frame)
    OBVIOUS
  <2> HIDE DEF step
  <2>3. Runs(m, Seq(Frame), <<>>, steps) # {}
    BY <1>n, <2>1, <2>2, Iterates, Zenon
  <2>4. PICK g \in Runs(m, Seq(Frame), <<>>, steps) : TRUE
    BY <2>3
  <2> QED BY <2>1, <2>4 DEF Runs
<1>3. ASSUME NEW i \in 1 .. m
      PROVE  /\ i - 1 \in 0 .. m /\ g[i - 1] \in Seq(Frame)
             /\ g[i] = IF <<e, n, i>> \in disposers THEN Append(g[i - 1], Call("detach", Below(e)[i], n)) ELSE g[i - 1]
  <2>1. i - 1 \in 0 .. m
    OBVIOUS
  <2>2. g[i - 1] \in Seq(Frame)
    BY <1>2, <2>1
  <2>3. g[i] = step[i][g[i - 1]]
    BY <1>2
  <2> QED BY <2>1, <2>2, <2>3
<1>4. g = Unrolled(g)
  <2>1. ASSUME NEW i \in 0 .. m
        PROVE  g[i] = Unrolled(g)[i]
    <3>1. CASE i = 0
      BY <1>2, <3>1
    <3>2. CASE i # 0
      <4>1. i \in 1 .. m
        BY <3>2
      <4> QED BY <1>3, <3>2, <4>1
    <3> QED BY <3>1, <3>2
  <2> QED BY <1>2, <2>1
<1>5. upTo = Unrolled(upTo)
  <2> HIDE DEF Unrolled
  <2> QED BY <1>4, Zenon
<1>6. Detaches(e, n) = upTo[m]
  BY <1>n DEF Detaches
<1> HIDE DEF Unrolled, upTo, step
<1> DEFINE S == {i \in 0 .. m : upTo[i] = g[i]}
<1>7. 0 \in S
  <2>1. Unrolled(upTo)[0] = <<>>
    BY DEF Unrolled
  <2> QED BY <1>2, <1>5, <2>1
<1>8. ASSUME NEW i \in 1 .. m, i - 1 \in S
      PROVE  i \in S
  <2>1. Unrolled(upTo)[i] = IF <<e, n, i>> \in disposers
                          THEN Append(upTo[i - 1], Call("detach", Below(e)[i], n)) ELSE upTo[i - 1]
    BY DEF Unrolled
  <2> QED BY <1>3, <1>5, <1>8, <2>1
<1>9. m \in S
  <2> HIDE DEF S
  <2> QED BY <1>7, <1>8, Upward
<1>10. /\ g[0] = <<>> /\ Detaches(e, n) = g[m]
       /\ \A i \in 1 .. m :
            g[i] = IF <<e, n, i>> \in disposers THEN Append(g[i - 1], Call("detach", Below(e)[i], n)) ELSE g[i - 1]
  BY <1>2, <1>3, <1>6, <1>9
<1> QED BY <1>n, <1>10

\* A call of the detach of e's child for each that e keeps, and no other.
LEMMA DetachesAre ==
  ASSUME NEW e \in Endpoints, Below(e) \in Seq(Endpoints), NEW n \in Apps \cup {Own, Nobody},
         disposers \subseteq Endpoints \X Att \X Nat
  PROVE  /\ Detaches(e, n) \in Seq(Frame)
         /\ \A k \in DOMAIN Detaches(e, n) :
              Detaches(e, n)[k].op = "detach" /\ Detaches(e, n)[k].n = n /\ n \in Att
         /\ \A i \in DOMAIN Below(e) : <<e, n, i>> \in disposers =>
              \E k \in DOMAIN Detaches(e, n) :
                Detaches(e, n)[k].op = "detach" /\ Detaches(e, n)[k].n = n /\ Detaches(e, n)[k].e = Below(e)[i]
<1>1. PICK m \in Nat : m = Len(Below(e)) /\ DOMAIN Below(e) = 1 .. m
  OBVIOUS
<1>2. PICK f \in [0 .. m -> Seq(Frame)] :
        /\ f[0] = <<>> /\ Detaches(e, n) = f[m]
        /\ \A i \in 1 .. m :
             f[i] = IF <<e, n, i>> \in disposers THEN Append(f[i - 1], Call("detach", Below(e)[i], n)) ELSE f[i - 1]
  BY <1>1, DetachesRun
<1> DEFINE Made(s, h) ==
             /\ \A k \in DOMAIN s : s[k].op = "detach" /\ s[k].n = n /\ n \in Att
             /\ \A i \in 1 .. h : <<e, n, i>> \in disposers =>
                  \E k \in DOMAIN s : s[k].op = "detach" /\ s[k].n = n /\ s[k].e = Below(e)[i]
           S == {h \in 0 .. m : Made(f[h], h)}
<1>3. 0 \in S
  BY <1>2
<1>4. ASSUME NEW h \in 1 .. m, h - 1 \in S
      PROVE  h \in S
  <2>0. h - 1 \in 0 .. m /\ h \in 0 .. m /\ \A i \in 1 .. h : i \in 1 .. h - 1 \/ i = h
    OBVIOUS
  <2>1. PICK s \in Seq(Frame) : s = f[h - 1] /\ Made(s, h - 1)
    BY <1>2, <1>4, <2>0
  <2>2. f[h] = IF <<e, n, h>> \in disposers THEN Append(s, Call("detach", Below(e)[h], n)) ELSE s
    BY <1>2, <2>1
  <2>3. CASE <<e, n, h>> \notin disposers
    <3>1. f[h] = s
      BY <2>2, <2>3
    <3>2. Made(s, h)
      BY <2>0, <2>1, <2>3
    <3> QED BY <2>0, <3>1, <3>2
  <2>4. CASE <<e, n, h>> \in disposers
    <3>0. Below(e)[h] \in Endpoints
      BY <1>1
    <3>1. PICK c \in Frame : c = Call("detach", Below(e)[h], n)
      BY <3>0 DEF Call, Frame
    <3>2. c.op = "detach" /\ c.n = n /\ c.e = Below(e)[h] /\ n \in Att
      BY <2>4, <3>1 DEF Call
    <3>3. PICK t \in Seq(Frame) : t = Append(s, c) /\ f[h] = t
      <4>1. Append(s, c) \in Seq(Frame)
        OBVIOUS
      <4>2. f[h] = Append(s, c)
        BY <2>2, <2>4, <3>1, Zenon
      <4> QED BY <4>1, <4>2
    <3>4. /\ \A k \in DOMAIN t : (k \in DOMAIN s /\ t[k] = s[k]) \/ t[k] = c
          /\ \A k \in DOMAIN s : k \in DOMAIN t /\ t[k] = s[k]
          /\ \E k \in DOMAIN t : t[k] = c
      <4>1. Len(s) + 1 \in DOMAIN t /\ t[Len(s) + 1] = c
        BY <3>3
      <4>2. \A k \in DOMAIN s : k \in DOMAIN t /\ t[k] = s[k]
        BY <3>3
      <4>3. \A k \in DOMAIN t : k \in DOMAIN s \/ k = Len(s) + 1
        BY <3>3
      <4> QED BY <4>1, <4>2, <4>3
    <3>5. \A k \in DOMAIN t : t[k].op = "detach" /\ t[k].n = n /\ n \in Att
      BY <2>1, <3>2, <3>4, SMTT(30)
    <3>6. ASSUME NEW i \in 1 .. h, <<e, n, i>> \in disposers
          PROVE  \E k \in DOMAIN t : t[k].op = "detach" /\ t[k].n = n /\ t[k].e = Below(e)[i]
      <4>1. CASE i = h
        BY <3>2, <3>4, <4>1
      <4>2. CASE i # h
        <5>1. \E k \in DOMAIN s : s[k].op = "detach" /\ s[k].n = n /\ s[k].e = Below(e)[i]
          BY <2>0, <2>1, <3>6, <4>2
        <5> QED BY <3>4, <5>1
      <4> QED BY <4>1, <4>2
    <3>7. Made(t, h)
      BY <3>5, <3>6
    <3> QED BY <2>0, <3>3, <3>7
  <2> QED BY <2>3, <2>4
<1>5. m \in S
  <2> HIDE DEF S
  <2> QED BY <1>3, <1>4, Upward
<1>6. f[m] \in Seq(Frame)
  BY <1>2
<1> QED BY <1>1, <1>2, <1>5, <1>6

-----------------------------------------------------------------------------
(* What the endpoints keep, of who is held, the stacks and the rest as they *)
(* are in a state or will be in the next.                                   *)

Gs == Apps \cup {Own} \cup Endpoints
CallsIn(S) == {S[k] : k \in DOMAIN S}

Shaped(cur, sh, dis, ov, res) ==
  /\ cur \in [Endpoints -> Apps \cup {Own, Nobody}] /\ sh \subseteq Endpoints
  /\ dis \subseteq Endpoints \X Att \X Nat
  /\ \A e, n, i : <<e, n, i>> \in ov => Kind[e] = "mount"
  /\ res \in [Gs -> {"", "none", "ok", "closed", "exists", "detached"}]
  /\ \A n \in Apps \cup {Own} : res[n] # "none" => n \in Att

Stacked(st) ==
  /\ st \in [Gs -> Seq(Frame)]
  /\ \A n \in Apps \cup {Own} : (st[n] # <<>> => n \in Att) /\ Line(st[n], n)
  /\ \A g \in Endpoints : \A k \in DOMAIN st[g] : Sinks(st[g][k])

\* An attachment is held on its way, where its route or the endpoint has it.
Held(cur) == \A e \in Endpoints : cur[e] # Nobody => cur[e] \in Att /\ e \in Way(cur[e])

\* An endpoint keeps a child's detach function only for the attachment it has.
Disposing(cur, sh, dis, st, res) == \A u, n, i : <<u, n, i>> \in dis =>
  /\ u \in Hops(n) /\ i \in DOMAIN Below(u)
  /\ IF u = Dispatcher THEN u \notin sh /\ st[Own] = <<>> /\ res[Own] = "ok" ELSE cur[u] = n

\* One that awaits its only child keeps no function of it yet.
Awaiting(dis, st) == \A n \in Att : \A x \in CallsIn(st[n]) :
  x.op = "await" /\ Kind[x.e] # "mount" => \A i : <<x.e, n, i>> \notin dis

\* Whoever is held is about to be detached, or its own Receive is under way, or
\* was made and its caller is to take it over, or its detach function is kept.
Leaving(st, e, n) == \E g \in Gs : \E x \in CallsIn(st[g]) : x.op = "detach" /\ x.e = e /\ x.n = n
Arriving(st, e, n) == \E x \in CallsIn(st[n]) : x.op \in {"next", "await"} /\ x.e = e
Arrived(st, res, e, n) ==
  res[n] = "ok" /\ IF st[n] = <<>> THEN n # Own /\ e = Entry(n) ELSE Awaits(st[n][1], e)
Disposed(dis, e, n) == \E u \in Endpoints : \E i \in DOMAIN Below(u) : <<u, n, i>> \in dis /\ Below(u)[i] = e
Covered(dis, st, res, e, n) ==
  Leaving(st, e, n) \/ Arriving(st, e, n) \/ Arrived(st, res, e, n) \/ Disposed(dis, e, n)
Keeping(cur, dis, st, res) == \A n \in Att : \A e \in Way(n) : cur[e] = n => Covered(dis, st, res, e, n)

EndpointsInv(cur, sh, dis, ov, st, res) ==
  /\ Shaped(cur, sh, dis, ov, res) /\ Stacked(st) /\ Held(cur)
  /\ Disposing(cur, sh, dis, st, res) /\ Awaiting(dis, st) /\ Keeping(cur, dis, st, res)
LayersInv == setting \in Surroundings /\ EndpointsInv(current, shut, disposers, over, stack, result)
LayersNext == EndpointsInv(current', shut', disposers', over', stack', result')

LEMMA LineStays ==
  ASSUME UNCHANGED setting, NEW S, NEW n, Line(S, n)
  PROVE  Line(S, n)'
<1>1. \A f : Rises(f, n) => Rises(f, n)'
  BY Stays DEF Rises
<1>2. \A f, e : Awaits(f, e) => Awaits(f, e)'
  BY Stays DEF Awaits
<1>3. Awaited(S, n)'
  BY <1>2, Stays DEF Line, Awaited
<1> QED BY <1>1, <1>3 DEF Line, Distinct

LEMMA CoveredStays ==
  ASSUME UNCHANGED setting, NEW dis, NEW st, NEW res, NEW e, NEW n, Covered(dis, st, res, e, n)
  PROVE  Covered(dis, st, res, e, n)'
<1>1. Leaving(st, e, n) => Leaving(st, e, n)'
  BY DEF Leaving
<1>2. Arriving(st, e, n) => Arriving(st, e, n)'
  BY DEF Arriving
<1>3. Arrived(st, res, e, n) => Arrived(st, res, e, n)'
  BY Stays DEF Arrived, Awaits
<1>4. Disposed(dis, e, n) => Disposed(dis, e, n)'
  BY Stays DEF Disposed
<1> QED BY <1>1, <1>2, <1>3, <1>4 DEF Covered

LEMMA EndpointsStay ==
  ASSUME UNCHANGED setting, NEW cur, NEW sh, NEW dis, NEW ov, NEW st, NEW res,
         EndpointsInv(cur, sh, dis, ov, st, res)
  PROVE  EndpointsInv(cur, sh, dis, ov, st, res)'
<1>1. Shaped(cur, sh, dis, ov, res)'
  BY Stays DEF EndpointsInv, Shaped
<1>2. Stacked(st)'
  <2>1. \A f : Sinks(f) => Sinks(f)'
    BY Stays DEF Sinks
  <2>2. \A n \in Apps \cup {Own} : Line(st[n], n)'
    BY LineStays DEF EndpointsInv, Stacked
  <2> QED BY <2>1, <2>2, Stays DEF EndpointsInv, Stacked
<1>3. Held(cur)'
  BY Stays DEF EndpointsInv, Held
<1>4. Disposing(cur, sh, dis, st, res)'
  BY Stays DEF EndpointsInv, Disposing
<1>5. Awaiting(dis, st)'
  BY Stays DEF EndpointsInv, Awaiting
<1>6. Keeping(cur, dis, st, res)'
  BY CoveredStays, Stays DEF EndpointsInv, Keeping
<1> QED BY <1>1, <1>2, <1>3, <1>4, <1>5, <1>6 DEF EndpointsInv

LEMMA LayersCarry == LayersInv /\ UNCHANGED setting /\ LayersNext => LayersInv'
BY EndpointsStay DEF LayersInv, LayersNext

\* What a call is made of.
LEMMA FrameParts ==
  ASSUME NEW f \in Frame
  PROVE  /\ f.e \in Endpoints /\ f.n \in Apps \cup {Own, Nobody} /\ f.i \in Nat
         /\ f.returns \in {"", "none", "closed", "exists", "detached"}
         /\ f.op \in Climbing \cup {"detach", "closed", "close", "tell"}
BY DEF Frame

LEMMA CallsGo ==
  ASSUME NEW F, NEW S \in Seq(F), S # <<>>, NEW c \in Seq(F), NEW T, T = c \o Tail(S)
  PROVE  /\ T \in Seq(F)
         /\ \A k \in DOMAIN c : c[k] \in CallsIn(T)
         /\ \A x \in CallsIn(S) : x = S[1] \/ x \in CallsIn(T)
         /\ \A x \in CallsIn(T) : x \in CallsIn(S) \/ x \in CallsIn(c)
         /\ \A k \in DOMAIN T : T[k] \in CallsIn(S) \cup CallsIn(c)
<1> DEFINE U == Tail(S)
<1>1. /\ U \in Seq(F)
      /\ \A k \in DOMAIN U : k + 1 \in DOMAIN S /\ U[k] = S[k + 1]
      /\ \A k \in DOMAIN S : k # 1 => k - 1 \in DOMAIN U /\ U[k - 1] = S[k]
  BY Rest
<1>2. /\ c \o U \in Seq(F)
      /\ \A k \in DOMAIN c : k \in DOMAIN (c \o U) /\ (c \o U)[k] = c[k]
      /\ \A k \in DOMAIN U : Len(c) + k \in DOMAIN (c \o U) /\ (c \o U)[Len(c) + k] = U[k]
      /\ \A k \in DOMAIN (c \o U) : k \in Nat /\ k # 0 /\
           (IF k <= Len(c) THEN k \in DOMAIN c ELSE k - Len(c) \in DOMAIN U)
  BY <1>1, Prepended
<1> HIDE DEF U
<1>3. T = c \o U
  BY DEF U
<1>4. \A k \in DOMAIN c : c[k] \in CallsIn(T)
  BY <1>2, <1>3 DEF CallsIn
<1>5. \A k \in DOMAIN U : U[k] \in CallsIn(T)
  BY <1>2, <1>3 DEF CallsIn
<1>6. ASSUME NEW x \in CallsIn(S), x # S[1]
      PROVE  x \in CallsIn(T)
  <2>1. PICK k \in DOMAIN S : x = S[k]
    BY DEF CallsIn
  <2>2. k - 1 \in DOMAIN U /\ U[k - 1] = x
    BY <1>1, <1>6, <2>1
  <2> QED BY <1>5, <2>2
<1>7. ASSUME NEW k \in DOMAIN T
      PROVE  T[k] \in CallsIn(S) \cup CallsIn(c)
  <2>1. CASE k <= Len(c)
    BY <1>2, <1>3, <2>1 DEF CallsIn
  <2>2. CASE ~(k <= Len(c))
    <3>1. k - Len(c) \in DOMAIN U /\ k \in Nat /\ Len(c) \in Nat
      BY <1>2, <1>3, <2>2
    <3>2. PICK h \in DOMAIN U : h = k - Len(c)
      BY <3>1
    <3>3. Len(c) + h = k
      BY <3>1, <3>2
    <3>4. T[k] = U[h]
      BY <1>2, <1>3, <3>3
    <3>5. U[h] \in CallsIn(S)
      BY <1>1 DEF CallsIn
    <3> QED BY <3>4, <3>5
  <2> QED BY <2>1, <2>2
<1>8. \A x \in CallsIn(T) : x \in CallsIn(S) \/ x \in CallsIn(c)
  BY <1>7 DEF CallsIn
<1> QED BY <1>2, <1>3, <1>4, <1>6, <1>7, <1>8

\* The topmost call is the only one of a goroutine at its endpoint.
LEMMA TopOnce ==
  ASSUME NEW n, NEW S, Line(S, n), S # <<>>, S[1].op \in Climbing, NEW x \in CallsIn(Tail(S)), x.op \in Climbing
  PROVE  x.e # S[1].e
<1>1. S \in Seq(Frame)
  BY DEF Line
<1>2. PICK k \in DOMAIN Tail(S) : x = Tail(S)[k]
  BY DEF CallsIn
<1>3. k \in Nat /\ k # 0 /\ k + 1 \in DOMAIN S /\ x = S[k + 1] /\ 1 \in DOMAIN S
  BY <1>1, <1>2, Rest
<1>4. k + 1 # 1
  BY <1>3
<1> QED BY <1>3, <1>4 DEF Line, Distinct

LEMMA StackedOne ==
  ASSUME NEW st, Stacked(st), NEW g \in Gs, NEW T \in Seq(Frame),
         g \in Apps \cup {Own} => g \in Att /\ Line(T, g),
         g \in Endpoints => \A k \in DOMAIN T : Sinks(T[k])
  PROVE  Stacked([st EXCEPT ![g] = T])
<1> DEFINE new == [st EXCEPT ![g] = T]
<1>1. new \in [Gs -> Seq(Frame)] /\ new[g] = T /\ \A h \in Gs : h # g => new[h] = st[h]
  BY DEF Stacked
<1>2. \A n \in Apps \cup {Own} : n \in Gs
  BY DEF Gs
<1>3. \A n \in Endpoints : n \in Gs
  BY DEF Gs
<1> HIDE DEF new
<1>4. \A n \in Apps \cup {Own} : (new[n] # <<>> => n \in Att) /\ Line(new[n], n)
  BY <1>1, <1>2 DEF Stacked
<1>5. \A h \in Endpoints : \A k \in DOMAIN new[h] : Sinks(new[h][k])
  BY <1>1, <1>3 DEF Stacked
<1>6. Stacked(new)
  BY <1>1, <1>4, <1>5 DEF Stacked
<1> QED BY <1>6 DEF new

\* Whose goroutine is which, and what its topmost call may be.
LEMMA Whose ==
  ASSUME LayersInv, NEW g \in Gs, stack[g] # <<>>
  PROVE  /\ stack[g] \in Seq(Frame) /\ Head(stack[g]) = stack[g][1] /\ stack[g][1] \in Frame
         /\ stack[g][1] \in CallsIn(stack[g]) /\ 1 \in DOMAIN stack[g]
         /\ g \in Apps \cup {Own} => g \notin Endpoints /\ g \in Att /\ Line(stack[g], g) /\ Rises(stack[g][1], g)
         /\ g \in Endpoints => g \notin Apps \cup {Own} /\ Sinks(stack[g][1])
<1>1. stack[g] \in Seq(Frame)
  BY DEF LayersInv, EndpointsInv, Stacked
<1>2. Head(stack[g]) = stack[g][1] /\ stack[g][1] \in Frame /\ 1 \in DOMAIN stack[g]
  BY <1>1, Rest
<1>3. stack[g][1] \in CallsIn(stack[g])
  BY <1>2 DEF CallsIn
<1>4. g \in Apps \cup {Own} => g \in Att /\ Line(stack[g], g) /\ Rises(stack[g][1], g)
  BY <1>2 DEF LayersInv, EndpointsInv, Stacked, Line
<1>5. g \in Endpoints => Sinks(stack[g][1])
  BY <1>2 DEF LayersInv, EndpointsInv, Stacked
<1>6. g \in Apps \cup {Own} => g \notin Endpoints
  BY TheDispatcher
<1> QED BY <1>1, <1>2, <1>3, <1>4, <1>5, <1>6

\* A goroutine g left f, which was no call of Receive, for calls that are none.
Sunk(g, f) ==
  /\ \A h \in Apps \cup {Own} : h # g => stack'[h] = stack[h]
  /\ \A h \in Gs : \A x \in CallsIn(stack[h]) : (h = g /\ x = f) \/ x \in CallsIn(stack'[h])
  /\ \A n \in Apps \cup {Own} : \A x \in CallsIn(stack'[n]) : x.op = "await" => x \in CallsIn(stack[n])
  /\ Stacked(stack')

LEMMA GoSinks ==
  ASSUME LayersInv, NEW g \in Gs, stack[g] # <<>>, stack[g][1].op \notin Climbing,
         NEW c \in Seq(Frame), Go(g, c), \A k \in DOMAIN c : Sinks(c[k]),
         g \notin Endpoints => \A k \in DOMAIN c : c[k].op = "detach" /\ c[k].n = g
  PROVE  Sunk(g, stack[g][1]) /\ \A k \in DOMAIN c : c[k] \in CallsIn(stack'[g])
<1> DEFINE T == c \o Tail(stack[g])
<1>1. stack \in [Gs -> Seq(Frame)] /\ stack[g] \in Seq(Frame)
  BY DEF LayersInv, EndpointsInv, Stacked
<1>2. /\ T \in Seq(Frame)
      /\ \A k \in DOMAIN c : c[k] \in CallsIn(T)
      /\ \A x \in CallsIn(stack[g]) : x = stack[g][1] \/ x \in CallsIn(T)
      /\ \A x \in CallsIn(T) : x \in CallsIn(stack[g]) \/ x \in CallsIn(c)
      /\ \A k \in DOMAIN T : T[k] \in CallsIn(stack[g]) \cup CallsIn(c)
  BY <1>1, CallsGo
<1>3. stack' = [stack EXCEPT ![g] = T]
  BY DEF Go
<1>4. Tail(stack[g]) \in Seq(Frame)
  BY <1>1, Rest
<1>5. g \in Apps \cup {Own} => g \notin Endpoints /\ g \in Att /\ Line(T, g)
  <2> SUFFICES ASSUME g \in Apps \cup {Own}
               PROVE  g \notin Endpoints /\ g \in Att /\ Line(T, g)
    OBVIOUS
  <2>1. g \notin Endpoints /\ g \in Att /\ Line(stack[g], g)
    BY Whose
  <2>2. Line(Tail(stack[g]), g)
    BY <2>1, LineRest
  <2> QED BY <2>1, <2>2, LineDetaches
<1> HIDE DEF T
<1>6. \A k \in DOMAIN c : Sinks(c[k])
  OBVIOUS
<1>7. \A x \in CallsIn(c) : Sinks(x)
  BY <1>6 DEF CallsIn
<1>8. g \in Endpoints => \A k \in DOMAIN T : Sinks(T[k])
  <2>1. g \in Endpoints => \A x \in CallsIn(stack[g]) : Sinks(x)
    BY DEF LayersInv, EndpointsInv, Stacked, CallsIn
  <2> QED BY <1>2, <1>7, <2>1
<1>9. Stacked(stack')
  <2>1. Stacked(stack)
    BY DEF LayersInv, EndpointsInv
  <2> QED BY <1>2, <1>3, <1>5, <1>8, <2>1, StackedOne
<1>10. stack'[g] = T /\ \A h \in Gs : h # g => stack'[h] = stack[h]
  BY <1>1, <1>3
<1>11. \A n \in Apps \cup {Own} : \A x \in CallsIn(stack'[n]) : x.op = "await" => x \in CallsIn(stack[n])
  <2>1. \A x \in CallsIn(c) : x.op # "await"
    BY <1>7 DEF Sinks
  <2> QED BY <1>2, <1>10, <2>1 DEF Gs
<1>12. \A h \in Gs : \A x \in CallsIn(stack[h]) : (h = g /\ x = stack[g][1]) \/ x \in CallsIn(stack'[h])
  BY <1>2, <1>10
<1>13. \A h \in Apps \cup {Own} : h # g => stack'[h] = stack[h]
  BY <1>10 DEF Gs
<1> QED BY <1>2, <1>9, <1>10, <1>11, <1>12, <1>13 DEF Sunk

\* It gives up endpoints and detach functions, none of which is lost.
Shed ==
  /\ Shaped(current', shut', disposers', over', result') /\ disposers' \subseteq disposers
  /\ \A p \in Endpoints : current'[p] = current[p] \/ current'[p] = Nobody
  /\ \A u, n, i : <<u, n, i>> \in disposers' => IF u = Dispatcher THEN u \notin shut' ELSE current'[u] = n
  /\ \A u, n, i : <<u, n, i>> \in disposers => <<u, n, i>> \in disposers' \/ Leaving(stack', Below(u)[i], n)

\* What such a step has to see to.
LEMMA Sinking ==
  ASSUME LayersInv, NEW g \in Gs, NEW f, f.op \notin Climbing, Sunk(g, f), Shed, UNCHANGED result,
         g \in Apps \cup {Own} => stack[g] # <<>> /\ f = stack[g][1],
         f.op = "detach" => \A n \in Att : \A e \in Way(n) : f.n = n /\ f.e = e => current'[e] # n
  PROVE  LayersNext
<1>1. Stacked(stack') /\ Stacked(stack)
  BY DEF Sunk, LayersInv, EndpointsInv
<1>0. /\ disposers' \subseteq disposers /\ \A p \in Endpoints : current'[p] = current[p] \/ current'[p] = Nobody
      /\ \A u, n, i : <<u, n, i>> \in disposers' => IF u = Dispatcher THEN u \notin shut' ELSE current'[u] = n
      /\ \A u, n, i : <<u, n, i>> \in disposers => <<u, n, i>> \in disposers' \/ Leaving(stack', Below(u)[i], n)
  BY DEF Shed
<1>2. Held(current')
  BY <1>0 DEF LayersInv, EndpointsInv, Held
<1>3. Disposing(current', shut', disposers', stack', result')
  <2>1. Disposing(current, shut, disposers, stack, result)
    BY DEF LayersInv, EndpointsInv
  <2>2. stack[Own] = <<>> => stack'[Own] = <<>>
    BY DEF Sunk
  <2> QED BY <1>0, <2>1, <2>2 DEF Disposing
<1>4. Awaiting(disposers', stack')
  <2>1. Awaiting(disposers, stack)
    BY DEF LayersInv, EndpointsInv
  <2>2. \A n \in Att : n \in Apps \cup {Own}
    BY DEF Att
  <2> QED BY <1>0, <2>1, <2>2 DEF Awaiting, Sunk
<1>5. ASSUME NEW n \in Att, NEW e \in Way(n), current'[e] = n
      PROVE  Covered(disposers', stack', result', e, n)
  <2>0. n \in Apps \cup {Own} /\ n \in Gs /\ n # Nobody /\ e \in Endpoints
    BY EntryIs, WayKinds, TheDispatcher DEF Gs, LayersInv
  <2>1. current[e] = n
    BY <1>0, <1>5, <2>0
  <2>2. Covered(disposers, stack, result, e, n)
    BY <2>1 DEF LayersInv, EndpointsInv, Keeping
  <2>3. CASE Leaving(stack, e, n)
    <3>0. PICK h \in Gs : \E x \in CallsIn(stack[h]) : x.op = "detach" /\ x.e = e /\ x.n = n
      BY <2>3 DEF Leaving
    <3>1. PICK x \in CallsIn(stack[h]) : x.op = "detach" /\ x.e = e /\ x.n = n
      BY <3>0
    <3>2. x \in CallsIn(stack'[h])
      BY <1>5, <3>1 DEF Sunk
    <3> QED BY <3>1, <3>2 DEF Covered, Leaving
  <2>4. CASE Arriving(stack, e, n)
    <3>1. PICK x \in CallsIn(stack[n]) : x.op \in {"next", "await"} /\ x.e = e
      BY <2>4 DEF Arriving
    <3>2. x # f
      BY <3>1 DEF Climbing
    <3>3. x \in CallsIn(stack'[n])
      BY <2>0, <3>2 DEF Sunk
    <3> QED BY <3>1, <3>3 DEF Covered, Arriving
  <2>5. CASE Arrived(stack, result, e, n)
    <3>1. n # g
      BY <2>0, <2>5 DEF Arrived, Awaits, Climbing
    <3>2. stack'[n] = stack[n]
      BY <2>0, <3>1 DEF Sunk
    <3> QED BY <2>5, <3>2 DEF Covered, Arrived
  <2>6. CASE Disposed(disposers, e, n)
    <3>0. PICK u \in Endpoints : \E i \in DOMAIN Below(u) : <<u, n, i>> \in disposers /\ Below(u)[i] = e
      BY <2>6 DEF Disposed
    <3>1. PICK i \in DOMAIN Below(u) : <<u, n, i>> \in disposers /\ Below(u)[i] = e
      BY <3>0
    <3>2. CASE <<u, n, i>> \in disposers'
      BY <3>1, <3>2 DEF Covered, Disposed
    <3>3. CASE <<u, n, i>> \notin disposers'
      BY <1>0, <3>1, <3>3 DEF Covered
    <3> QED BY <3>2, <3>3
  <2> QED BY <2>2, <2>3, <2>4, <2>5, <2>6 DEF Covered
<1>6. Keeping(current', disposers', stack', result')
  BY <1>5 DEF Keeping
<1> QED BY <1>1, <1>2, <1>3, <1>4, <1>6 DEF LayersNext, EndpointsInv, Shed

\* Closed is told to a layer or the dispatcher above, or to the application.
LEMMA ClosedIs ==
  ASSUME LayersInv, NEW n \in Att, NEW e \in Way(n)
  PROVE  ClosedOf(e, n) \in Frame /\ Sinks(ClosedOf(e, n)) /\ ClosedOf(e, n).n = n
<1>0. setting \in Surroundings /\ e \in Endpoints /\ n \in Apps \cup {Own} /\ Dispatcher \in Endpoints
  BY EntryIs, TheDispatcher DEF LayersInv, Way
<1>1. CASE n = Own /\ e = Entry(n)
  <2>1. ClosedOf(e, n) = Call("close", Dispatcher, n)
    BY <1>1 DEF ClosedOf
  <2>2. Call("close", Dispatcher, n) \in Frame
    BY <1>0 DEF Call, Frame
  <2>3. Call("close", Dispatcher, n).op = "close" /\ Call("close", Dispatcher, n).n = n
    BY DEF Call
  <2> QED BY <1>0, <1>1, <2>1, <2>2, <2>3, EntryIs DEF Sinks
<1>2. CASE n # Own /\ e = Entry(n)
  <2>1. ClosedOf(e, n) = Call("tell", e, n)
    BY <1>2 DEF ClosedOf
  <2>2. Call("tell", e, n) \in Frame
    BY <1>0 DEF Call, Frame
  <2>3. Call("tell", e, n).op = "tell" /\ Call("tell", e, n).n = n
    BY DEF Call
  <2> QED BY <2>1, <2>2, <2>3 DEF Sinks
<1>3. CASE e # Entry(n)
  <2> DEFINE above(p, i) == Below(p)[i] = e
             P == CHOOSE p \in Endpoints : \E i \in DOMAIN Below(p) : above(p, i)
             I == CHOOSE i \in DOMAIN Below(P) : above(P, i)
  <2>1. \E p \in Endpoints : \E i \in DOMAIN Below(p) : above(p, i)
    BY <1>0, <1>3, WayHops DEF Hops
  <2>2. P \in Endpoints /\ \E i \in DOMAIN Below(P) : above(P, i)
    <3> HIDE DEF above
    <3> QED BY <2>1, Zenon
  <2>3. I \in DOMAIN Below(P)
    <3> HIDE DEF above, P
    <3> QED BY <2>2, Zenon
  <2>4. I \in Nat
    <3> HIDE DEF I, P
    <3> QED BY <1>0, <2>2, <2>3, Child
  <2>5. ClosedOf(e, n) = [Call("closed", P, n) EXCEPT !.i = I]
    BY <1>3 DEF ClosedOf
  <2> HIDE DEF I, P
  <2> QED BY <1>0, <2>2, <2>4, <2>5 DEF Call, Frame, Sinks
<1> QED BY <1>1, <1>2, <1>3

\* Nothing changes hands.
LEMMA NothingShed ==
  ASSUME LayersInv, UNCHANGED <<current, disposers, result>>, shut' \subseteq Endpoints,
         Dispatcher \in shut' => Dispatcher \in shut, \A e, n, i : <<e, n, i>> \in over' => Kind[e] = "mount"
  PROVE  Shed
<1>1. Shaped(current', shut', disposers', over', result')
  BY DEF LayersInv, EndpointsInv, Shaped
<1>2. Disposing(current, shut, disposers, stack, result)
  BY DEF LayersInv, EndpointsInv
<1> QED BY <1>1, <1>2 DEF Shed, Disposing

\* The attachment an endpoint has leaves it with its detach functions.
LEMMA LeavingSheds ==
  ASSUME LayersInv, NEW e \in Endpoints, NEW n \in Apps \cup {Own, Nobody}, current[e] = n, Leaves(e, n),
         UNCHANGED result, shut' \subseteq Endpoints,
         Dispatcher \in shut' => Dispatcher \in shut, \A x, m, i : <<x, m, i>> \in over' => Kind[x] = "mount",
         NEW h \in Gs, \A k \in DOMAIN Detaches(e, n) : Detaches(e, n)[k] \in CallsIn(stack'[h])
  PROVE  Shed /\ (e \in Endpoints => current'[e] = Nobody)
<1>0. /\ Shaped(current, shut, disposers, over, result) /\ Disposing(current, shut, disposers, stack, result)
      /\ setting \in Surroundings /\ Nobody \notin Apps \cup {Own}
  BY TheDispatcher DEF LayersInv, EndpointsInv
<1>1. PICK cur \in [Endpoints -> Apps \cup {Own, Nobody}] : cur = current
  BY <1>0 DEF Shaped
<1>2. current' = [cur EXCEPT ![e] = Nobody] /\ disposers' = disposers \ ({e} \X {n} \X DOMAIN Below(e))
  BY <1>1 DEF Leaves, Forgotten
<1>3. current' \in [Endpoints -> Apps \cup {Own, Nobody}]
  BY <1>2
<1>4. \A p \in Endpoints : current'[p] = IF p = e THEN Nobody ELSE current[p]
  BY <1>1, <1>2
<1>5. Shaped(current', shut', disposers', over', result') /\ disposers' \subseteq disposers
  BY <1>0, <1>2, <1>3 DEF Shaped
<1>6. ASSUME NEW u, NEW m, NEW i, <<u, m, i>> \in disposers'
      PROVE  IF u = Dispatcher THEN u \notin shut' ELSE current'[u] = m
  <2>0. <<u, m, i>> \in disposers
    BY <1>5, <1>6
  <2>a. u \in Hops(m) /\ i \in DOMAIN Below(u) /\ IF u = Dispatcher THEN u \notin shut ELSE current[u] = m
    BY <1>0, <2>0 DEF Disposing
  <2>b. u \in Endpoints /\ m \in Att
    <3>1. disposers \subseteq Endpoints \X Att \X Nat
      BY <1>0 DEF Shaped
    <3> QED BY <2>0, <3>1
  <2>1. /\ u \in Hops(m) /\ i \in DOMAIN Below(u) /\ u \in Endpoints /\ m \in Att
        /\ IF u = Dispatcher THEN u \notin shut ELSE current[u] = m
    BY <2>a, <2>b
  <2>2. CASE u = Dispatcher
    BY <2>1, <2>2
  <2>3. CASE u # Dispatcher
    <3>1. CASE u = e
      <4>1. <<u, m, i>> \in {e} \X {n} \X DOMAIN Below(e)
        BY <2>1, <2>3, <3>1
      <4> QED BY <1>2, <1>6, <4>1
    <3>2. CASE u # e
      BY <1>4, <2>1, <2>3, <3>2
    <3> QED BY <3>1, <3>2
  <2> QED BY <2>2, <2>3
<1>7. ASSUME NEW u, NEW m, NEW i, <<u, m, i>> \in disposers, <<u, m, i>> \notin disposers'
      PROVE  Leaving(stack', Below(u)[i], m)
  <2>1. u = e /\ m = n /\ i \in DOMAIN Below(e)
    BY <1>2, <1>7
  <2>2. Below(e) \in Seq(Endpoints) /\ disposers \subseteq Endpoints \X Att \X Nat
    BY <1>0, Composed DEF Shaped
  <2>3. PICK k \in DOMAIN Detaches(e, n) :
          Detaches(e, n)[k].op = "detach" /\ Detaches(e, n)[k].n = n /\ Detaches(e, n)[k].e = Below(e)[i]
    BY <1>7, <2>1, <2>2, DetachesAre
  <2> QED BY <2>1, <2>3 DEF Leaving
<1> QED BY <1>4, <1>5, <1>6, <1>7 DEF Shed

LEMMA DetachFacts ==
  ASSUME LayersInv, NEW e \in Endpoints, NEW n \in Apps \cup {Own, Nobody}
  PROVE  /\ Detaches(e, n) \in Seq(Frame)
         /\ \A k \in DOMAIN Detaches(e, n) :
              Detaches(e, n)[k].op = "detach" /\ Detaches(e, n)[k].n = n /\ Sinks(Detaches(e, n)[k])
<1>1. Below(e) \in Seq(Endpoints) /\ disposers \subseteq Endpoints \X Att \X Nat
  BY Composed DEF LayersInv, EndpointsInv, Shaped
<1>2. /\ Detaches(e, n) \in Seq(Frame)
      /\ \A k \in DOMAIN Detaches(e, n) :
              Detaches(e, n)[k].op = "detach" /\ Detaches(e, n)[k].n = n /\ n \in Att
  BY <1>1, DetachesAre
<1> QED BY <1>2 DEF Sinks

\* What an endpoint has.
LEMMA Having ==
  ASSUME LayersInv, NEW e \in Endpoints, Kind[e] # "dispatcher"
  PROVE  /\ e # Dispatcher /\ current[e] \in Apps \cup {Own, Nobody}
         /\ current[e] # Nobody => current[e] \in Att /\ e \in Way(current[e])
BY TheDispatcher DEF LayersInv, EndpointsInv, Shaped, Held

\* Who is called and what the call is about.
LEMMA SinkingCall ==
  ASSUME LayersInv, NEW g \in Gs, NEW op \in {"detach", "closed", "close", "tell"}, Doing(g, op)
  PROVE  /\ stack[g] # <<>> /\ stack[g] \in Seq(Frame) /\ Head(stack[g]) = stack[g][1] /\ stack[g][1] \in Frame
         /\ stack[g][1].op = op /\ op \notin Climbing
         /\ stack[g][1].e \in Endpoints /\ stack[g][1].n \in Apps \cup {Own, Nobody}
         /\ op # "detach" => g \in Endpoints
         /\ g \notin Endpoints => g \in Apps \cup {Own} /\ g \in Att /\ stack[g][1].n = g
         /\ op \in {"detach", "closed"} => stack[g][1].n \in Att
<1>1. stack[g] # <<>> /\ Head(stack[g]).op = op
  BY DEF Doing
<1>2. /\ stack[g] \in Seq(Frame) /\ Head(stack[g]) = stack[g][1] /\ stack[g][1] \in Frame
      /\ g \in Apps \cup {Own} => g \notin Endpoints /\ g \in Att /\ Rises(stack[g][1], g)
      /\ g \in Endpoints => Sinks(stack[g][1])
  BY <1>1, Whose
<1>3. op \notin Climbing
  BY DEF Climbing
<1>4. stack[g][1].e \in Endpoints /\ stack[g][1].n \in Apps \cup {Own, Nobody}
  BY <1>2, FrameParts
<1> QED BY <1>1, <1>2, <1>3, <1>4 DEF Rises, Sinks, Gs, Climbing

\* A step that leaves an endpoint, and one that leaves none.
LEMMA LeavesSinks ==
  ASSUME LayersInv, NEW g \in Gs, NEW op \in {"detach", "closed", "close", "tell"}, Doing(g, op),
         NEW e \in Endpoints, NEW n \in Apps \cup {Own, Nobody}, current[e] = n, Leaves(e, n),
         NEW c \in Seq(Frame), \A k \in DOMAIN c : Sinks(c[k]), op = "detach" => c = <<>>,
         Go(g, Detaches(e, n) \o c), UNCHANGED result, shut' \subseteq Endpoints,
         Dispatcher \in shut' => Dispatcher \in shut, \A x, m, i : <<x, m, i>> \in over' => Kind[x] = "mount",
         op = "detach" => stack[g][1].e = e /\ stack[g][1].n = n
  PROVE  LayersNext
<1> DEFINE D == Detaches(e, n)
           C == D \o c
           f == stack[g][1]
<1>1. /\ stack[g] # <<>> /\ f.op = op /\ op \notin Climbing /\ (op # "detach" => g \in Endpoints)
      /\ (g \notin Endpoints => f.n = g)
  BY SinkingCall
<1>2. D \in Seq(Frame) /\ \A k \in DOMAIN D : D[k].op = "detach" /\ D[k].n = n /\ Sinks(D[k])
  BY DetachFacts
<1>3. PICK d \in Seq(Frame) : d = D
  BY <1>2
<1>4. /\ C \in Seq(Frame)
      /\ \A k \in DOMAIN d : k \in DOMAIN C /\ C[k] = d[k]
      /\ \A k \in DOMAIN C : (k \in DOMAIN d /\ C[k] = d[k]) \/ \E j \in DOMAIN c : C[k] = c[j]
  <2>1. /\ d \o c \in Seq(Frame)
        /\ \A k \in DOMAIN d : k \in DOMAIN (d \o c) /\ (d \o c)[k] = d[k]
        /\ \A k \in DOMAIN c : (d \o c)[Len(d) + k] = c[k]
        /\ \A k \in DOMAIN (d \o c) : k \in Nat /\ k # 0 /\
             (IF k <= Len(d) THEN k \in DOMAIN d ELSE k - Len(d) \in DOMAIN c)
    BY Prepended
  <2>2. ASSUME NEW k \in DOMAIN (d \o c), ~(k <= Len(d))
        PROVE  \E j \in DOMAIN c : (d \o c)[k] = c[j]
    <3>1. k - Len(d) \in DOMAIN c /\ k \in Nat /\ Len(d) \in Nat
      BY <2>1, <2>2
    <3>2. PICK j \in DOMAIN c : j = k - Len(d)
      BY <3>1
    <3>3. Len(d) + j = k
      BY <3>1, <3>2
    <3> QED BY <2>1, <3>3
  <2>3. \A k \in DOMAIN (d \o c) : (k \in DOMAIN d /\ (d \o c)[k] = d[k]) \/ \E j \in DOMAIN c : (d \o c)[k] = c[j]
    BY <2>1, <2>2
  <2> QED BY <1>3, <2>1, <2>3
<1>5. Go(g, C)
  OBVIOUS
<1> HIDE DEF C, D
<1>6. \A k \in DOMAIN C : Sinks(C[k])
  BY <1>2, <1>3, <1>4
<1>7. g \notin Endpoints => \A k \in DOMAIN C : C[k].op = "detach" /\ C[k].n = g
  <2> SUFFICES ASSUME g \notin Endpoints
               PROVE  \A k \in DOMAIN C : C[k].op = "detach" /\ C[k].n = g
    OBVIOUS
  <2>1. op = "detach" /\ n = g
    BY <1>1
  <2>2. c = <<>>
    BY <2>1
  <2>3. \A j \in DOMAIN c : FALSE
    BY <2>2
  <2> QED BY <1>2, <1>3, <1>4, <2>1, <2>3
<1>8. Sunk(g, f) /\ \A k \in DOMAIN C : C[k] \in CallsIn(stack'[g])
  BY <1>1, <1>4, <1>5, <1>6, <1>7, GoSinks
<1>9. \A k \in DOMAIN Detaches(e, n) : Detaches(e, n)[k] \in CallsIn(stack'[g])
  BY <1>3, <1>4, <1>8 DEF D
<1>10. Shed /\ (e \in Endpoints => current'[e] = Nobody)
  BY <1>9, LeavingSheds
<1>11. f.op = "detach" => \A m \in Att : \A x \in Way(m) : f.n = m /\ f.e = x => current'[x] # m
  <2> SUFFICES ASSUME f.op = "detach", NEW m \in Att, NEW x \in Way(m), f.n = m, f.e = x
               PROVE  current'[x] # m
    OBVIOUS
  <2>1. x = e /\ m = n
    BY <1>1
  <2>2. x \in Endpoints /\ m # Nobody
    BY WayKinds, EntryIs, TheDispatcher DEF LayersInv
  <2> QED BY <1>10, <2>1, <2>2
<1>12. g \in Apps \cup {Own} => stack[g] # <<>> /\ f = stack[g][1]
  BY <1>1
<1> HIDE DEF f
<1> QED BY <1>1, <1>8, <1>10, <1>11, <1>12, Sinking

LEMMA KeepsSinks ==
  ASSUME LayersInv, NEW g \in Gs, NEW op \in {"detach", "closed", "close", "tell"}, Doing(g, op),
         NEW c \in Seq(Frame), \A k \in DOMAIN c : Sinks(c[k]), op = "detach" => c = <<>>,
         Go(g, c), UNCHANGED <<current, disposers, result>>, shut' \subseteq Endpoints,
         Dispatcher \in shut' => Dispatcher \in shut, \A x, m, i : <<x, m, i>> \in over' => Kind[x] = "mount",
         op = "detach" => current[stack[g][1].e] # stack[g][1].n
  PROVE  LayersNext
<1> DEFINE f == stack[g][1]
<1>1. /\ stack[g] # <<>> /\ f.op = op /\ op \notin Climbing /\ (op # "detach" => g \in Endpoints)
  BY SinkingCall
<1>2. g \notin Endpoints => \A k \in DOMAIN c : c[k].op = "detach" /\ c[k].n = g
  <2> SUFFICES ASSUME g \notin Endpoints
               PROVE  \A k \in DOMAIN c : FALSE
    OBVIOUS
  <2>1. c = <<>>
    BY <1>1
  <2> QED BY <2>1
<1>3. Sunk(g, f)
  BY <1>1, <1>2, GoSinks
<1>4. Shed
  BY NothingShed
<1>5. f.op = "detach" => \A m \in Att : \A x \in Way(m) : f.n = m /\ f.e = x => current'[x] # m
  BY <1>1
<1>6. g \in Apps \cup {Own} => stack[g] # <<>> /\ f = stack[g][1]
  BY <1>1
<1> HIDE DEF f
<1> QED BY <1>1, <1>3, <1>4, <1>5, <1>6, Sinking

LEMMA OverKinds ==
  ASSUME LayersInv
  PROVE  (\A e, n, i : <<e, n, i>> \in over => Kind[e] = "mount") /\ shut \subseteq Endpoints
BY DEF LayersInv, EndpointsInv, Shaped

LEMMA DetachStep ==
  ASSUME LayersInv, NEW g \in Gs, Detach(g), UNCHANGED setting
  PROVE  LayersNext
<1> DEFINE f == stack[g][1]
<1>1. /\ Doing(g, "detach") /\ f = Head(stack[g]) /\ UNCHANGED <<shut, over, result>>
      /\ IF current[f.e] = f.n
           THEN Leaves(f.e, f.n) /\ Go(g, Detaches(f.e, f.n))
           ELSE Go(g, <<>>) /\ UNCHANGED <<current, disposers>>
  <2>1. Doing(g, "detach")
    BY DEF Detach
  <2>2. f = Head(stack[g])
    BY <2>1, SinkingCall
  <2> QED BY <2>1, <2>2 DEF Detach
<1>2. f.e \in Endpoints /\ f.n \in Apps \cup {Own, Nobody}
  BY <1>1, SinkingCall
<1> HIDE DEF f
<1>3. <<>> \in Seq(Frame) /\ \A k \in DOMAIN <<>> : Sinks(<<>>[k])
  OBVIOUS
<1>4. CASE current[f.e] = f.n
  <2>1. Detaches(f.e, f.n) \in Seq(Frame)
    BY <1>2, DetachFacts
  <2>2. Detaches(f.e, f.n) \o <<>> = Detaches(f.e, f.n)
    BY <2>1
  <2> QED BY <1>1, <1>2, <1>3, <1>4, <2>2, OverKinds, LeavesSinks DEF f
<1>5. CASE current[f.e] # f.n
  BY <1>1, <1>3, <1>5, OverKinds, KeepsSinks DEF f
<1> QED BY <1>4, <1>5

LEMMA OriginEndsStep ==
  ASSUME LayersInv, NEW g \in Gs, OriginEnds(g), UNCHANGED setting
  PROVE  LayersNext
<1> DEFINE f == stack[g][1]
           m == current[f.e]
<1>1. /\ Doing(g, "closed") /\ f = Head(stack[g]) /\ Kind[f.e] = "through" /\ UNCHANGED <<over, result>>
      /\ IF f.e \in shut THEN Go(g, <<>>) /\ UNCHANGED <<current, shut, disposers>>
         ELSE /\ shut' = shut \cup {f.e} /\ Leaves(f.e, m)
              /\ Go(g, Detaches(f.e, m) \o IF m = f.n THEN <<ClosedOf(f.e, m)>> ELSE <<>>)
  <2>1. Doing(g, "closed")
    BY DEF OriginEnds
  <2>2. f = Head(stack[g])
    BY <2>1, SinkingCall
  <2> QED BY <2>1, <2>2 DEF OriginEnds
<1>2. f.e \in Endpoints /\ f.n \in Att
  BY <1>1, SinkingCall
<1>3. /\ f.e # Dispatcher
      /\ m \in Apps \cup {Own, Nobody} /\ (m # Nobody => m \in Att /\ f.e \in Way(m))
  BY <1>1, <1>2, Having
<1> HIDE DEF f
<1>4. <<>> \in Seq(Frame) /\ \A k \in DOMAIN <<>> : Sinks(<<>>[k])
  OBVIOUS
<1>5. CASE f.e \in shut
  BY <1>1, <1>4, <1>5, OverKinds, KeepsSinks
<1>6. CASE f.e \notin shut
  <2> DEFINE c == IF m = f.n THEN <<ClosedOf(f.e, m)>> ELSE <<>>
  <2>1. c \in Seq(Frame) /\ \A k \in DOMAIN c : Sinks(c[k])
    <3>1. CASE m = f.n
      <4>1. m # Nobody
        BY <1>2, <3>1, EntryIs, TheDispatcher DEF LayersInv
      <4>2. ClosedOf(f.e, m) \in Frame /\ Sinks(ClosedOf(f.e, m))
        BY <1>3, <4>1, ClosedIs
      <4> QED BY <3>1, <4>2
    <3>2. CASE m # f.n
      BY <1>4, <3>2
    <3> QED BY <3>1, <3>2
  <2>2. shut' \subseteq Endpoints /\ (Dispatcher \in shut' => Dispatcher \in shut)
    BY <1>1, <1>2, <1>3, <1>6, OverKinds
  <2>3. current[f.e] = m
    BY <1>3
  <2>4. Leaves(f.e, m) /\ Go(g, Detaches(f.e, m) \o c)
    BY <1>1, <1>6
  <2> HIDE DEF c, m
  <2> QED BY <1>1, <1>2, <1>3, <2>1, <2>2, <2>3, <2>4, OverKinds, LeavesSinks
<1> QED BY <1>5, <1>6

LEMMA RouteEndsStep ==
  ASSUME LayersInv, NEW g \in Gs, RouteEnds(g), UNCHANGED setting
  PROVE  LayersNext
<1> DEFINE f == stack[g][1]
<1>1. /\ Doing(g, "closed") /\ f = Head(stack[g]) /\ Kind[f.e] = "view" /\ UNCHANGED <<shut, over, result>>
      /\ IF current[f.e] = f.n
           THEN Leaves(f.e, f.n) /\ Go(g, Detaches(f.e, f.n) \o <<ClosedOf(f.e, f.n)>>)
           ELSE Go(g, <<>>) /\ UNCHANGED <<current, disposers>>
  <2>1. Doing(g, "closed")
    BY DEF RouteEnds
  <2>2. f = Head(stack[g])
    BY <2>1, SinkingCall
  <2> QED BY <2>1, <2>2 DEF RouteEnds
<1>2. f.e \in Endpoints /\ f.n \in Att /\ f.n \in Apps \cup {Own, Nobody} /\ f.n # Nobody
  BY <1>1, SinkingCall, EntryIs, TheDispatcher DEF LayersInv
<1>3. /\ f.e # Dispatcher
      /\ current[f.e] # Nobody => f.e \in Way(current[f.e])
  BY <1>1, <1>2, Having
<1> HIDE DEF f
<1>4. <<>> \in Seq(Frame) /\ \A k \in DOMAIN <<>> : Sinks(<<>>[k])
  OBVIOUS
<1>5. CASE current[f.e] # f.n
  BY <1>1, <1>4, <1>5, OverKinds, KeepsSinks
<1>6. CASE current[f.e] = f.n
  <2>1. ClosedOf(f.e, f.n) \in Frame /\ Sinks(ClosedOf(f.e, f.n))
    BY <1>2, <1>3, <1>6, ClosedIs
  <2>2. <<ClosedOf(f.e, f.n)>> \in Seq(Frame) /\ \A k \in DOMAIN <<ClosedOf(f.e, f.n)>> : Sinks(<<ClosedOf(f.e, f.n)>>[k])
    BY <2>1
  <2> QED BY <1>1, <1>2, <1>3, <1>6, <2>2, OverKinds, LeavesSinks
<1> QED BY <1>5, <1>6

LEMMA ChildEndsStep ==
  ASSUME LayersInv, NEW g \in Gs, ChildEnds(g), UNCHANGED setting
  PROVE  LayersNext
<1> DEFINE f == stack[g][1]
           mine == {f.e} \X {f.n} \X DOMAIN Below(f.e)
           kept == IF <<f.e, f.n, f.i>> \in disposers THEN <<Call("detach", Below(f.e)[f.i], f.n)>> ELSE <<>>
<1>1. /\ Doing(g, "closed") /\ f = Head(stack[g]) /\ Kind[f.e] = "mount" /\ UNCHANGED <<shut, result>>
      /\ IF current[f.e] # f.n \/ <<f.e, f.n, f.i>> \in over
           THEN Go(g, <<>>) /\ UNCHANGED <<current, disposers, over>>
           ELSE /\ over' = over \cup {<<f.e, f.n, f.i>>}
                /\ IF mine \subseteq over'
                     THEN Leaves(f.e, f.n) /\ Go(g, Detaches(f.e, f.n) \o <<ClosedOf(f.e, f.n)>>)
                     ELSE disposers' = disposers \ {<<f.e, f.n, f.i>>} /\ Go(g, kept) /\ UNCHANGED current
  <2>1. Doing(g, "closed")
    BY DEF ChildEnds
  <2>2. f = Head(stack[g])
    BY <2>1, SinkingCall
  <2> QED BY <2>1, <2>2 DEF ChildEnds
<1>2. /\ f.e \in Endpoints /\ f.n \in Att /\ f.n \in Apps \cup {Own, Nobody} /\ f.n # Nobody
      /\ stack[g] # <<>> /\ f.op = "closed" /\ "closed" \notin Climbing /\ g \in Endpoints
  BY <1>1, SinkingCall, EntryIs, TheDispatcher DEF LayersInv
<1>3. /\ f.e # Dispatcher
      /\ current[f.e] # Nobody => f.e \in Way(current[f.e])
  BY <1>1, <1>2, Having
<1> HIDE DEF f, kept, mine
<1>4. <<>> \in Seq(Frame) /\ \A k \in DOMAIN <<>> : Sinks(<<>>[k])
  OBVIOUS
<1>5. CASE current[f.e] # f.n \/ <<f.e, f.n, f.i>> \in over
  BY <1>1, <1>4, <1>5, OverKinds, KeepsSinks
<1>6. CASE ~(current[f.e] # f.n \/ <<f.e, f.n, f.i>> \in over) /\ mine \subseteq over'
  <2>1. ClosedOf(f.e, f.n) \in Frame /\ Sinks(ClosedOf(f.e, f.n))
    BY <1>2, <1>3, <1>6, ClosedIs
  <2>2. <<ClosedOf(f.e, f.n)>> \in Seq(Frame) /\ \A k \in DOMAIN <<ClosedOf(f.e, f.n)>> : Sinks(<<ClosedOf(f.e, f.n)>>[k])
    BY <2>1
  <2>3. \A x, m, i : <<x, m, i>> \in over' => Kind[x] = "mount"
    BY <1>1, <1>6, OverKinds
  <2> QED BY <1>1, <1>2, <1>3, <1>6, <2>2, <2>3, OverKinds, LeavesSinks
<1>7. CASE ~(current[f.e] # f.n \/ <<f.e, f.n, f.i>> \in over) /\ ~(mine \subseteq over')
  <2>0. /\ over' = over \cup {<<f.e, f.n, f.i>>} /\ disposers' = disposers \ {<<f.e, f.n, f.i>>}
        /\ Go(g, kept) /\ UNCHANGED <<current, shut, result>>
    BY <1>1, <1>7
  <2>1. /\ Shaped(current, shut, disposers, over, result) /\ Disposing(current, shut, disposers, stack, result)
        /\ setting \in Surroundings
    BY DEF LayersInv, EndpointsInv
  <2>2. kept \in Seq(Frame) /\ \A k \in DOMAIN kept : Sinks(kept[k])
    <3>1. CASE <<f.e, f.n, f.i>> \in disposers
      <4>1. f.i \in DOMAIN Below(f.e)
        BY <2>1, <3>1 DEF Disposing
      <4>2. Below(f.e)[f.i] \in Endpoints
        BY <1>2, <2>1, <4>1, Child
      <4>3. Call("detach", Below(f.e)[f.i], f.n) \in Frame /\ Call("detach", Below(f.e)[f.i], f.n).op = "detach"
              /\ Call("detach", Below(f.e)[f.i], f.n).n = f.n
        BY <1>2, <4>2 DEF Call, Frame
      <4>4. Sinks(Call("detach", Below(f.e)[f.i], f.n))
        BY <1>2, <4>3 DEF Sinks
      <4> QED BY <3>1, <4>3, <4>4 DEF kept
    <3>2. CASE <<f.e, f.n, f.i>> \notin disposers
      BY <1>4, <3>2 DEF kept
    <3> QED BY <3>1, <3>2
  <2>3. Sunk(g, f) /\ \A k \in DOMAIN kept : kept[k] \in CallsIn(stack'[g])
    BY <1>2, <2>0, <2>2, GoSinks DEF f
  <2>4. Shaped(current', shut', disposers', over', result')
    BY <1>1, <2>0, <2>1 DEF Shaped
  <2>5. ASSUME NEW u, NEW n, NEW i, <<u, n, i>> \in disposers, <<u, n, i>> \notin disposers'
        PROVE  Leaving(stack', Below(u)[i], n)
    <3>1. u = f.e /\ n = f.n /\ i = f.i /\ <<f.e, f.n, f.i>> \in disposers
      BY <2>0, <2>5
    <3>2. kept = <<Call("detach", Below(f.e)[f.i], f.n)>>
      BY <3>1 DEF kept
    <3>3. 1 \in DOMAIN kept /\ kept[1] = Call("detach", Below(f.e)[f.i], f.n)
      BY <3>2
    <3>4. Call("detach", Below(f.e)[f.i], f.n) \in CallsIn(stack'[g])
      BY <2>3, <3>3
    <3> QED BY <3>1, <3>4 DEF Leaving, Call
  <2>6. Shed
    BY <2>0, <2>1, <2>4, <2>5 DEF Shed, Disposing
  <2>7. g \in Apps \cup {Own} => stack[g] # <<>> /\ f = stack[g][1]
    BY <1>2 DEF f
  <2> QED BY <1>2, <2>0, <2>3, <2>6, <2>7, Sinking
<1> QED BY <1>5, <1>6, <1>7

LEMMA CloseLayerStep ==
  ASSUME LayersInv, NEW g \in Gs, CloseLayer(g), UNCHANGED setting
  PROVE  LayersNext
<1> DEFINE f == stack[g][1]
           m == current[f.e]
<1>1. /\ Doing(g, "close") /\ f = Head(stack[g]) /\ Kind[f.e] \in {"through", "mount"} /\ UNCHANGED <<over, result>>
      /\ shut' = shut \cup {f.e}
      /\ IF f.e \in shut \/ m = Nobody THEN Go(g, <<>>) /\ UNCHANGED <<current, disposers>>
         ELSE Leaves(f.e, m) /\ Go(g, Detaches(f.e, m) \o <<ClosedOf(f.e, m)>>)
  <2>1. Doing(g, "close")
    BY DEF CloseLayer
  <2>2. f = Head(stack[g])
    BY <2>1, SinkingCall
  <2> QED BY <2>1, <2>2 DEF CloseLayer
<1>2. f.e \in Endpoints
  BY <1>1, SinkingCall
<1>3. /\ f.e # Dispatcher
      /\ m \in Apps \cup {Own, Nobody} /\ (m # Nobody => m \in Att /\ f.e \in Way(m))
  BY <1>1, <1>2, Having
<1>4. <<>> \in Seq(Frame) /\ \A k \in DOMAIN <<>> : Sinks(<<>>[k])
  OBVIOUS
<1>5. shut' \subseteq Endpoints /\ (Dispatcher \in shut' => Dispatcher \in shut)
  BY <1>1, <1>2, <1>3, OverKinds
<1> HIDE DEF f
<1>6. CASE f.e \in shut \/ m = Nobody
  BY <1>1, <1>4, <1>5, <1>6, OverKinds, KeepsSinks
<1>7. CASE ~(f.e \in shut \/ m = Nobody)
  <2>1. ClosedOf(f.e, m) \in Frame /\ Sinks(ClosedOf(f.e, m))
    BY <1>3, <1>7, ClosedIs
  <2>2. <<ClosedOf(f.e, m)>> \in Seq(Frame) /\ \A k \in DOMAIN <<ClosedOf(f.e, m)>> : Sinks(<<ClosedOf(f.e, m)>>[k])
    BY <2>1
  <2>3. current[f.e] = m
    BY <1>3
  <2> HIDE DEF m
  <2> QED BY <1>1, <1>2, <1>3, <1>5, <1>7, <2>2, <2>3, OverKinds, LeavesSinks
<1> QED BY <1>6, <1>7

LEMMA CloseViewStep ==
  ASSUME LayersInv, NEW g \in Gs, CloseView(g), UNCHANGED setting
  PROVE  LayersNext
<1> DEFINE f == stack[g][1]
           m == current[f.e]
           c == IF m = Nobody THEN <<>> ELSE <<Call("closed", f.e, m)>>
<1>1. /\ Doing(g, "close") /\ f = Head(stack[g]) /\ Kind[f.e] = "view" /\ UNCHANGED <<current, disposers, over, result>>
      /\ shut' = shut \cup {f.e} /\ Go(g, c)
  <2>1. Doing(g, "close")
    BY DEF CloseView
  <2>2. f = Head(stack[g])
    BY <2>1, SinkingCall
  <2> QED BY <2>1, <2>2 DEF CloseView
<1>2. f.e \in Endpoints
  BY <1>1, SinkingCall
<1>3. /\ f.e # Dispatcher
      /\ m \in Apps \cup {Own, Nobody} /\ (m # Nobody => m \in Att)
  BY <1>1, <1>2, Having
<1>4. shut' \subseteq Endpoints /\ (Dispatcher \in shut' => Dispatcher \in shut)
  BY <1>1, <1>2, <1>3, OverKinds
<1> HIDE DEF f, m
<1>5. c \in Seq(Frame) /\ \A k \in DOMAIN c : Sinks(c[k])
  <2>1. CASE m = Nobody
    BY <2>1
  <2>2. CASE m # Nobody
    <3>1. Call("closed", f.e, m) \in Frame /\ Call("closed", f.e, m).op = "closed" /\ Call("closed", f.e, m).n = m
      BY <1>2, <1>3 DEF Call, Frame
    <3>2. Sinks(Call("closed", f.e, m))
      BY <1>3, <2>2, <3>1 DEF Sinks
    <3> QED BY <2>2, <3>1, <3>2
  <2> QED BY <2>1, <2>2
<1> HIDE DEF c
<1> QED BY <1>1, <1>4, <1>5, OverKinds, KeepsSinks

LEMMA TellStep ==
  ASSUME LayersInv, NEW g \in Gs, Tell(g), UNCHANGED setting
  PROVE  LayersNext
<1>1. Doing(g, "tell") /\ Go(g, <<>>) /\ UNCHANGED <<current, shut, disposers, over, result>>
  BY DEF Tell
<1>2. <<>> \in Seq(Frame) /\ \A k \in DOMAIN <<>> : Sinks(<<>>[k])
  OBVIOUS
<1> QED BY <1>1, <1>2, OverKinds, KeepsSinks

LEMMA Concatenated ==
  ASSUME NEW F, NEW a \in Seq(F), NEW b \in Seq(F)
  PROVE  a \o b \in Seq(F) /\ CallsIn(a \o b) = CallsIn(a) \cup CallsIn(b)
<1>1. /\ a \o b \in Seq(F)
      /\ \A k \in DOMAIN a : k \in DOMAIN (a \o b) /\ (a \o b)[k] = a[k]
      /\ \A k \in DOMAIN b : Len(a) + k \in DOMAIN (a \o b) /\ (a \o b)[Len(a) + k] = b[k]
      /\ \A k \in DOMAIN (a \o b) : k \in Nat /\ k # 0 /\
           (IF k <= Len(a) THEN k \in DOMAIN a ELSE k - Len(a) \in DOMAIN b)
  BY Prepended
<1>2. ASSUME NEW k \in DOMAIN (a \o b)
      PROVE  (a \o b)[k] \in CallsIn(a) \cup CallsIn(b)
  <2>1. CASE k <= Len(a)
    BY <1>1, <2>1 DEF CallsIn
  <2>2. CASE ~(k <= Len(a))
    <3>1. k - Len(a) \in DOMAIN b /\ k \in Nat /\ Len(a) \in Nat
      BY <1>1, <2>2
    <3>2. PICK j \in DOMAIN b : j = k - Len(a)
      BY <3>1
    <3>3. Len(a) + j = k
      BY <3>1, <3>2
    <3>4. (a \o b)[k] = b[j]
      BY <1>1, <3>3
    <3> QED BY <3>4 DEF CallsIn
  <2> QED BY <2>1, <2>2
<1>3. CallsIn(a \o b) \subseteq CallsIn(a) \cup CallsIn(b)
  BY <1>2 DEF CallsIn
<1>4. CallsIn(a) \subseteq CallsIn(a \o b)
  BY <1>1 DEF CallsIn
<1>5. CallsIn(b) \subseteq CallsIn(a \o b)
  BY <1>1 DEF CallsIn
<1> QED BY <1>1, <1>3, <1>4, <1>5

\* Each registration is told, in some order.
LEMMA OrderedCloses ==
  ASSUME LayersInv, NEW R, R \subseteq {r \in Routes : current[r] # Nobody}, NEW s \in Orders(R)
  PROVE  /\ [k \in DOMAIN s |-> ClosedOf(s[k], current[s[k]])] \in Seq(Frame)
         /\ \A x \in CallsIn([k \in DOMAIN s |-> ClosedOf(s[k], current[s[k]])]) : Sinks(x)
<1>1. IsFiniteSet(R)
  BY RoutingAssumption, FS_Subset
<1>2. PICK c \in Nat : c = Cardinality(R)
  BY <1>1, FS_CardinalityType
<1>3. s \in [1 .. c -> R]
  BY <1>2 DEF Orders
<1>4. ASSUME NEW r \in R
      PROVE  ClosedOf(r, current[r]) \in Frame /\ Sinks(ClosedOf(r, current[r]))
  <2>1. r \in Endpoints /\ current[r] # Nobody
    BY DEF Routes, Exact
  <2>2. current[r] \in Att /\ r \in Way(current[r])
    BY <2>1 DEF LayersInv, EndpointsInv, Held
  <2> QED BY <2>2, ClosedIs
<1> DEFINE q == [k \in DOMAIN s |-> ClosedOf(s[k], current[s[k]])]
<1>5. \A k \in 1 .. c : s[k] \in R
  BY <1>3
<1>6. q \in [1 .. c -> Frame]
  BY <1>3, <1>4, <1>5
<1>7. \A k \in DOMAIN q : Sinks(q[k])
  BY <1>3, <1>4, <1>5
<1> HIDE DEF q
<1>8. q \in Seq(Frame)
  BY <1>6
<1>9. \A x \in CallsIn(q) : Sinks(x)
  BY <1>7 DEF CallsIn
<1> QED BY <1>8, <1>9 DEF q

LEMMA CloseDispatcherStep ==
  ASSUME LayersInv, NEW g \in Gs, CloseDispatcher(g), UNCHANGED setting
  PROVE  LayersNext
<1> DEFINE f == stack[g][1]
           d == Dispatcher
           routes == {r \in Routes : current[r] # Nobody}
           telling(s) == [k \in DOMAIN s |-> ClosedOf(s[k], current[s[k]])]
           ends == IF setting.owns THEN <<Call("close", Below(d)[1], Own)>> ELSE <<>>
<1>1. /\ Doing(g, "close") /\ f.e = d /\ f.op = "close" /\ UNCHANGED <<over, result>>
      /\ shut' = shut \cup {d} /\ disposers' = Forgotten(d, Own)
      /\ IF d \in shut THEN Go(g, <<>>) /\ UNCHANGED current
         ELSE /\ current' = [e \in Endpoints |-> IF e \in Routes THEN Nobody ELSE current[e]]
              /\ \E s \in Orders(routes) : Go(g, Detaches(d, Own) \o telling(s) \o ends)
  <2>1. Doing(g, "close")
    BY DEF CloseDispatcher
  <2>2. f = Head(stack[g]) /\ f.op = "close"
    BY <2>1, SinkingCall
  <2>3. /\ Head(stack[g]).e = d /\ UNCHANGED <<over, result>>
        /\ shut' = shut \cup {d} /\ disposers' = Forgotten(d, Own)
    BY DEF CloseDispatcher
  <2>4. IF d \in shut THEN Go(g, <<>>) /\ UNCHANGED current
        ELSE /\ current' = [e \in Endpoints |-> IF e \in Routes THEN Nobody ELSE current[e]]
             /\ \E s \in Orders(routes) : Go(g, Detaches(d, Own) \o telling(s) \o ends)
    BY DEF CloseDispatcher
  <2> QED BY <2>1, <2>2, <2>3, <2>4
<1>2. /\ Shaped(current, shut, disposers, over, result) /\ Disposing(current, shut, disposers, stack, result)
      /\ setting \in Surroundings /\ Stacked(stack)
  BY DEF LayersInv, EndpointsInv
<1>3. /\ stack[g] # <<>> /\ g \in Endpoints /\ "close" \notin Climbing /\ d \in Endpoints /\ Own \in Apps \cup {Own, Nobody}
      /\ Sinks(f) /\ Below(d) # <<>>
  <2>1. stack[g] # <<>> /\ g \in Endpoints /\ "close" \notin Climbing
    BY <1>1, SinkingCall
  <2>2. Sinks(f)
    BY <2>1, Whose
  <2> QED BY <1>1, <2>1, <2>2, TheDispatcher DEF Sinks
<1> HIDE DEF f, telling, ends
<1>4. disposers' = disposers \ ({d} \X {Own} \X DOMAIN Below(d))
  BY <1>1 DEF Forgotten
<1>5. \A n, i : <<d, n, i>> \in disposers => n = Own /\ i \in DOMAIN Below(d)
  <2> SUFFICES ASSUME NEW n, NEW i, <<d, n, i>> \in disposers
               PROVE  n = Own /\ i \in DOMAIN Below(d)
    OBVIOUS
  <2>1. d \in Hops(n) /\ i \in DOMAIN Below(d) /\ n \in Att
    BY <1>2 DEF Disposing, Shaped
  <2>2. d \notin Way(n)
    BY <1>2, <2>1, WayKinds
  <2> QED BY <2>1, <2>2 DEF Hops
<1>6. CASE d \in shut
  <2>1. \A n, i : <<d, n, i>> \notin disposers
    BY <1>2, <1>6 DEF Disposing
  <2>2. disposers' = disposers
    BY <1>4, <2>1
  <2>3. <<>> \in Seq(Frame) /\ \A k \in DOMAIN <<>> : Sinks(<<>>[k])
    OBVIOUS
  <2> QED BY <1>1, <1>6, <2>2, <2>3, OverKinds, KeepsSinks
<1>7. CASE d \notin shut
  <2>1. PICK s \in Orders(routes) : Go(g, Detaches(d, Own) \o telling(s) \o ends)
    BY <1>1, <1>7
  <2>2. PICK a \in Seq(Frame) : a = Detaches(d, Own) /\ \A x \in CallsIn(a) : Sinks(x)
    <3>1. Detaches(d, Own) \in Seq(Frame) /\ \A k \in DOMAIN Detaches(d, Own) : Sinks(Detaches(d, Own)[k])
      BY <1>3, DetachFacts
    <3> QED BY <3>1 DEF CallsIn
  <2>3. PICK b \in Seq(Frame) : b = telling(s) /\ \A x \in CallsIn(b) : Sinks(x)
    BY OrderedCloses DEF telling
  <2>4. PICK c \in Seq(Frame) : c = ends /\ \A x \in CallsIn(c) : Sinks(x)
    <3>1. CASE setting.owns
      <4>1. Below(d) \in Seq(Endpoints)
        BY <1>2, <1>3, Composed
      <4>2. 1 \in DOMAIN Below(d)
        BY <1>3, <4>1
      <4>3. Below(d)[1] \in Endpoints /\ Below(d)[1] # Dispatcher
        BY <1>2, <1>3, <4>2, Child, TheDispatcher
      <4>4. PICK x \in Frame : x = Call("close", Below(d)[1], Own)
        BY <4>3 DEF Call, Frame
      <4>5. x.op = "close" /\ x.e = Below(d)[1]
        BY <4>4 DEF Call
      <4>6. Sinks(x)
        BY <4>3, <4>5 DEF Sinks
      <4>7. ends = <<x>>
        BY <3>1, <4>4 DEF ends
      <4>8. <<x>> \in Seq(Frame) /\ \A y \in CallsIn(<<x>>) : y = x
        BY DEF CallsIn
      <4> QED BY <4>6, <4>7, <4>8
    <3>2. CASE ~setting.owns
      <4>1. ends = <<>>
        BY <3>2 DEF ends
      <4>2. <<>> \in Seq(Frame) /\ \A y \in CallsIn(<<>>) : FALSE
        BY DEF CallsIn
      <4> QED BY <4>1, <4>2
    <3> QED BY <3>1, <3>2
  <2>5. a \o b \in Seq(Frame) /\ CallsIn(a \o b) = CallsIn(a) \cup CallsIn(b)
    BY Concatenated
  <2>6. (a \o b) \o c \in Seq(Frame) /\ CallsIn((a \o b) \o c) = CallsIn(a) \cup CallsIn(b) \cup CallsIn(c)
    <3>1. PICK t \in Seq(Frame) : t = a \o b
      BY <2>5
    <3>2. t \o c \in Seq(Frame) /\ CallsIn(t \o c) = CallsIn(t) \cup CallsIn(c)
      BY Concatenated
    <3> QED BY <2>5, <3>1, <3>2
  <2>7. PICK C \in Seq(Frame) : C = (a \o b) \o c
    BY <2>6
  <2>8. CallsIn(C) = CallsIn(a) \cup CallsIn(b) \cup CallsIn(c)
    BY <2>6, <2>7
  <2>9. \A k \in DOMAIN C : Sinks(C[k])
    BY <2>2, <2>3, <2>4, <2>8 DEF CallsIn
  <2>10. Go(g, C)
    BY <2>1, <2>2, <2>3, <2>4, <2>7
  <2>11. Sunk(g, f) /\ \A k \in DOMAIN C : C[k] \in CallsIn(stack'[g])
    BY <1>1, <1>3, <2>9, <2>10, GoSinks DEF f
  <2>12. current' \in [Endpoints -> Apps \cup {Own, Nobody}]
         /\ \A p \in Endpoints : current'[p] = IF p \in Routes THEN Nobody ELSE current[p]
    BY <1>1, <1>2, <1>7 DEF Shaped
  <2>13. Shaped(current', shut', disposers', over', result')
    BY <1>1, <1>2, <1>3, <1>4, <2>12 DEF Shaped
  <2>14. ASSUME NEW u, NEW n, NEW i, <<u, n, i>> \in disposers'
         PROVE  IF u = Dispatcher THEN u \notin shut' ELSE current'[u] = n
    <3>1. <<u, n, i>> \in disposers /\ u # d
      <4>1. <<u, n, i>> \in disposers
        BY <1>4, <2>14
      <4>2. u = d => <<u, n, i>> \in {d} \X {Own} \X DOMAIN Below(d)
        BY <1>5, <4>1
      <4> QED BY <1>4, <2>14, <4>1, <4>2
    <3>2. current[u] = n /\ u \in Endpoints
      BY <1>2, <3>1 DEF Disposing, Shaped
    <3>3. u \notin Routes
      <4>1. i \in DOMAIN Below(u)
        BY <1>2, <3>1 DEF Disposing
      <4>2. u \in Routes => Below(u) = <<>>
        BY <1>2, Composed DEF Routes, Exact
      <4> QED BY <4>1, <4>2
    <3> QED BY <2>12, <3>1, <3>2, <3>3
  <2>15. ASSUME NEW u, NEW n, NEW i, <<u, n, i>> \in disposers, <<u, n, i>> \notin disposers'
         PROVE  Leaving(stack', Below(u)[i], n)
    <3>1. u = d /\ n = Own /\ i \in DOMAIN Below(d)
      BY <1>4, <2>15
    <3>2. PICK k \in DOMAIN a : a[k].op = "detach" /\ a[k].n = Own /\ a[k].e = Below(d)[i]
      <4>1. Below(d) \in Seq(Endpoints) /\ disposers \subseteq Endpoints \X Att \X Nat
        BY <1>2, <1>3, Composed DEF Shaped
      <4>2. <<d, Own, i>> \in disposers
        BY <2>15, <3>1
      <4>3. \A j \in DOMAIN Below(d) : <<d, Own, j>> \in disposers =>
              \E k \in DOMAIN Detaches(d, Own) :
                Detaches(d, Own)[k].op = "detach" /\ Detaches(d, Own)[k].n = Own /\ Detaches(d, Own)[k].e = Below(d)[j]
        BY <1>3, <4>1, DetachesAre
      <4> QED BY <2>2, <3>1, <4>2, <4>3
    <3>3. a[k] \in CallsIn(C)
      BY <2>8 DEF CallsIn
    <3>4. a[k] \in CallsIn(stack'[g])
      BY <2>11, <3>3 DEF CallsIn
    <3> QED BY <3>1, <3>2, <3>4 DEF Leaving
  <2>16. disposers' \subseteq disposers /\ \A p \in Endpoints : current'[p] = current[p] \/ current'[p] = Nobody
    BY <1>4, <2>12
  <2>17. Shed
    BY <2>13, <2>14, <2>15, <2>16 DEF Shed
  <2>18. g \in Apps \cup {Own} => stack[g] # <<>> /\ f = stack[g][1]
    BY <1>3 DEF f
  <2> QED BY <1>1, <1>3, <2>11, <2>17, <2>18, Sinking
<1> QED BY <1>6, <1>7

LEMMA CloseRootStep ==
  ASSUME LayersInv, NEW g \in Gs, CloseRoot(g), UNCHANGED setting
  PROVE  LayersNext
<1> DEFINE f == stack[g][1]
           m == current[f.e]
           rest == [stack EXCEPT ![g] = Tail(stack[g])]
<1>1. /\ Doing(g, "close") /\ f.op = "close" /\ Kind[f.e] = "root" /\ UNCHANGED <<disposers, over, result>>
      /\ shut' = shut \cup {f.e}
      /\ IF f.e \in shut \/ m = Nobody THEN stack' = rest /\ UNCHANGED current
         ELSE /\ current' = [current EXCEPT ![f.e] = Nobody]
              /\ stack' = [rest EXCEPT ![f.e] = Append(rest[f.e], ClosedOf(f.e, m))]
  <2>1. Doing(g, "close")
    BY DEF CloseRoot
  <2>2. f = Head(stack[g]) /\ f.op = "close"
    BY <2>1, SinkingCall
  <2> QED BY <2>1, <2>2 DEF CloseRoot
<1>2. /\ f.e \in Endpoints /\ f.e \in Gs /\ stack[g] # <<>> /\ stack[g] \in Seq(Frame) /\ g \in Endpoints /\ "close" \notin Climbing
      /\ g \notin Apps \cup {Own}
  BY <1>1, SinkingCall, Whose DEF Gs
<1>3. /\ f.e # Dispatcher
      /\ m \in Apps \cup {Own, Nobody} /\ (m # Nobody => m \in Att /\ f.e \in Way(m))
  BY <1>1, <1>2, Having
<1>4. shut' \subseteq Endpoints /\ (Dispatcher \in shut' => Dispatcher \in shut)
  BY <1>1, <1>2, <1>3, OverKinds
<1>5. CASE f.e \in shut \/ m = Nobody
  <2>1. <<>> \in Seq(Frame) /\ \A k \in DOMAIN <<>> : Sinks(<<>>[k])
    OBVIOUS
  <2>2. <<>> \o Tail(stack[g]) = Tail(stack[g])
    BY <1>2, Rest
  <2>3. Go(g, <<>>)
    BY <1>1, <1>5, <2>2 DEF Go
  <2> HIDE DEF f
  <2> QED BY <1>1, <1>4, <1>5, <2>1, <2>3, OverKinds, KeepsSinks
<1>6. CASE ~(f.e \in shut \/ m = Nobody)
  <2>1. PICK x \in Frame : x = ClosedOf(f.e, m) /\ Sinks(x)
    BY <1>3, <1>6, ClosedIs
  <2>2. Stacked(stack) /\ stack \in [Gs -> Seq(Frame)] /\ Tail(stack[g]) \in Seq(Frame)
    BY <1>2, Rest DEF LayersInv, EndpointsInv, Stacked
  <2>3. \A k \in DOMAIN Tail(stack[g]) : Sinks(Tail(stack[g])[k]) /\ Tail(stack[g])[k] \in CallsIn(stack[g])
    <3>1. \A k \in DOMAIN stack[g] : Sinks(stack[g][k]) /\ stack[g][k] \in CallsIn(stack[g])
      BY <1>2, <2>2 DEF Stacked, CallsIn
    <3> QED BY <1>2, <3>1, Rest
  <2>4. Stacked(rest)
    BY <1>2, <2>2, <2>3, StackedOne
  <2>5. rest \in [Gs -> Seq(Frame)] /\ rest[f.e] \in Seq(Frame) /\ \A k \in DOMAIN rest[f.e] : Sinks(rest[f.e][k])
    <3> HIDE DEF rest
    <3> QED BY <1>2, <2>4 DEF Stacked
  <2>6. PICK T \in Seq(Frame) : /\ T = Append(rest[f.e], x)
                                /\ \A k \in DOMAIN T : T[k] = x \/ \E j \in DOMAIN rest[f.e] : T[k] = rest[f.e][j]
                                /\ \A k \in DOMAIN rest[f.e] : k \in DOMAIN T /\ T[k] = rest[f.e][k]
    <3>1. PICK r \in Seq(Frame) : r = rest[f.e]
      BY <2>5
    <3>2. Append(r, x) \in Seq(Frame)
      OBVIOUS
    <3>3. \A k \in DOMAIN Append(r, x) : Append(r, x)[k] = x \/ (k \in DOMAIN r /\ Append(r, x)[k] = r[k])
      OBVIOUS
    <3>4. \A k \in DOMAIN r : k \in DOMAIN Append(r, x) /\ Append(r, x)[k] = r[k]
      OBVIOUS
    <3> HIDE DEF rest
    <3> QED BY <3>1, <3>2, <3>3, <3>4
  <2>7. stack' = [rest EXCEPT ![f.e] = T] /\ current' = [current EXCEPT ![f.e] = Nobody]
    BY <1>1, <1>6, <2>1, <2>6
  <2>8. \A k \in DOMAIN T : Sinks(T[k])
    BY <2>1, <2>5, <2>6
  <2>9. \A h \in Gs : h # g => rest[h] = stack[h]
    BY <2>2
  <2>10. \A y \in CallsIn(stack[g]) : y = f \/ y \in CallsIn(rest[g])
    <3>1. rest[g] = Tail(stack[g])
      BY <2>2
    <3>2. \A k \in DOMAIN stack[g] : k # 1 => k - 1 \in DOMAIN Tail(stack[g]) /\ Tail(stack[g])[k - 1] = stack[g][k]
      BY <1>2, Rest
    <3> QED BY <3>1, <3>2 DEF CallsIn
  <2>11. f.e \notin Apps \cup {Own}
    BY <1>2, TheDispatcher
  <2> HIDE DEF rest, f
  <2>12. Stacked(stack')
    BY <1>2, <2>4, <2>7, <2>8, <2>11, StackedOne
  <2>13. stack'[f.e] = T /\ \A h \in Gs : h # f.e => stack'[h] = rest[h]
    BY <1>2, <2>5, <2>7
  <2>14. \A h \in Gs : \A y \in CallsIn(rest[h]) : y \in CallsIn(stack'[h])
    <3> SUFFICES ASSUME NEW h \in Gs, NEW y \in CallsIn(rest[h])
                 PROVE  y \in CallsIn(stack'[h])
      OBVIOUS
    <3>1. PICK k \in DOMAIN rest[h] : rest[h][k] = y
      BY DEF CallsIn
    <3> QED BY <2>6, <2>13, <3>1 DEF CallsIn
  <2>15. \A h \in Apps \cup {Own} : h # g => stack'[h] = stack[h]
    BY <2>9, <2>11, <2>13 DEF Gs
  <2>16. \A h \in Gs : \A y \in CallsIn(stack[h]) : (h = g /\ y = f) \/ y \in CallsIn(stack'[h])
    BY <2>9, <2>10, <2>14
  <2>17. Sunk(g, f)
    BY <1>2, <2>12, <2>15, <2>16 DEF Sunk
  <2>18. /\ Shaped(current, shut, disposers, over, result) /\ Disposing(current, shut, disposers, stack, result)
         /\ setting \in Surroundings
    BY DEF LayersInv, EndpointsInv
  <2>19. current' \in [Endpoints -> Apps \cup {Own, Nobody}]
         /\ \A p \in Endpoints : current'[p] = IF p = f.e THEN Nobody ELSE current[p]
    BY <1>3, <2>7, <2>18 DEF Shaped
  <2>20. Shaped(current', shut', disposers', over', result')
    BY <1>1, <1>4, <2>18, <2>19 DEF Shaped
  <2>21. \A u, n, i : <<u, n, i>> \in disposers' => IF u = Dispatcher THEN u \notin shut' ELSE current'[u] = n
    <3> SUFFICES ASSUME NEW u, NEW n, NEW i, <<u, n, i>> \in disposers
                 PROVE  IF u = Dispatcher THEN u \notin shut' ELSE current'[u] = n
      BY <1>1
    <3>1. /\ u \in Endpoints /\ i \in DOMAIN Below(u)
          /\ IF u = Dispatcher THEN u \notin shut ELSE current[u] = n
      BY <2>18 DEF Disposing, Shaped
    <3>2. u # f.e
      <4>1. Below(f.e) = <<>>
        BY <1>1, <1>2, <2>18, Composed
      <4> QED BY <3>1, <4>1
    <3> QED BY <1>4, <2>19, <3>1, <3>2
  <2>22. Shed
    BY <1>1, <2>19, <2>20, <2>21 DEF Shed
  <2> QED BY <1>1, <1>2, <2>17, <2>22, Sinking
<1> QED BY <1>5, <1>6

LEMMA CloseStep ==
  ASSUME LayersInv, NEW e \in Endpoints, Close(e), UNCHANGED setting
  PROVE  LayersNext
<1> DEFINE T == <<Call("close", e, Nobody)>>
           f == Call("close", e, Nobody)
<1>1. /\ stack[e] = <<>> /\ (e = Dispatcher => Attached(Own)) /\ stack' = [stack EXCEPT ![e] = T]
      /\ UNCHANGED <<current, shut, disposers, over, result>>
  BY DEF Close
<1>2. /\ Shaped(current, shut, disposers, over, result) /\ Stacked(stack) /\ stack \in [Gs -> Seq(Frame)] /\ e \in Gs
      /\ e \notin Apps \cup {Own}
  BY TheDispatcher DEF LayersInv, EndpointsInv, Stacked, Gs
<1>3. f \in Frame /\ f.op = "close" /\ f.e = e
  BY DEF Call, Frame
<1>4. Sinks(f)
  <2>1. e = Dispatcher => Own \in Att
    BY <1>1, <1>2 DEF Attached, Shaped
  <2>2. e = Dispatcher => Below(Dispatcher) # <<>>
    BY <2>1, EntryIs DEF LayersInv
  <2> QED BY <1>3, <2>2 DEF Sinks
<1> HIDE DEF f
<1>5. T = <<f>>
  BY DEF f
<1> HIDE DEF T
<1>6. T \in Seq(Frame) /\ \A k \in DOMAIN T : Sinks(T[k])
  BY <1>3, <1>4, <1>5
<1>7. Stacked(stack')
  BY <1>1, <1>2, <1>6, StackedOne
<1>8. \A h \in Gs : h # e => stack'[h] = stack[h]
  BY <1>1, <1>2
<1>9. \A x \in CallsIn(stack[e]) : FALSE
  BY <1>1 DEF CallsIn
<1>10. Sunk(e, f)
  BY <1>2, <1>7, <1>8, <1>9 DEF Sunk, Gs
<1>11. Shed
  BY <1>1, OverKinds, NothingShed
<1>12. f.op \notin Climbing /\ f.op # "detach"
  BY <1>3 DEF Climbing
<1> QED BY <1>1, <1>2, <1>10, <1>11, <1>12, Sinking

\* A goroutine g of an attachment left the call f of Receive at its top, or had
\* none, for what is above the rest.
Climbed(g, f) ==
  /\ \A h \in Gs : h # g => stack'[h] = stack[h]
  /\ \A x \in CallsIn(stack[g]) : x = f \/ x \in CallsIn(stack'[g])
  /\ Stacked(stack')

LEMMA GoClimbs ==
  ASSUME LayersInv, NEW g \in Gs, stack[g] # <<>>, NEW c \in Seq(Frame), Go(g, c),
         g \in Att, Line(c \o Tail(stack[g]), g)
  PROVE  /\ Climbed(g, stack[g][1]) /\ \A k \in DOMAIN c : c[k] \in CallsIn(stack'[g])
         /\ stack'[g] = c \o Tail(stack[g])
         /\ \A x \in CallsIn(stack'[g]) : x \in CallsIn(Tail(stack[g])) \/ x \in CallsIn(c)
<1> DEFINE T == c \o Tail(stack[g])
<1>1. /\ stack \in [Gs -> Seq(Frame)] /\ Stacked(stack) /\ setting \in Surroundings /\ stack[g] \in Seq(Frame)
      /\ Tail(stack[g]) \in Seq(Frame)
  BY Rest DEF LayersInv, EndpointsInv, Stacked
<1>2. T \in Seq(Frame) /\ CallsIn(T) = CallsIn(c) \cup CallsIn(Tail(stack[g]))
  <2>1. PICK U \in Seq(Frame) : U = Tail(stack[g])
    BY <1>1
  <2>2. c \o U \in Seq(Frame) /\ CallsIn(c \o U) = CallsIn(c) \cup CallsIn(U)
    BY Concatenated
  <2> QED BY <2>1, <2>2
<1>3. /\ \A k \in DOMAIN c : c[k] \in CallsIn(T)
      /\ \A x \in CallsIn(stack[g]) : x = stack[g][1] \/ x \in CallsIn(T)
  <2>1. \A k \in DOMAIN c : c[k] \in CallsIn(c)
    BY DEF CallsIn
  <2>2. \A k \in DOMAIN stack[g] : k # 1 => stack[g][k] \in CallsIn(Tail(stack[g]))
    <3>1. \A k \in DOMAIN stack[g] : k # 1 => k - 1 \in DOMAIN Tail(stack[g]) /\ Tail(stack[g])[k - 1] = stack[g][k]
      BY <1>1, Rest
    <3> QED BY <3>1 DEF CallsIn
  <2>3. \A x \in CallsIn(stack[g]) : x = stack[g][1] \/ x \in CallsIn(Tail(stack[g]))
    BY <2>2 DEF CallsIn
  <2> QED BY <1>2, <2>1, <2>3
<1>4. stack' = [stack EXCEPT ![g] = T]
  BY DEF Go
<1>5. g \notin Endpoints
  BY <1>1, EntryIs, TheDispatcher
<1>6. Line(T, g)
  OBVIOUS
<1> HIDE DEF T
<1>7. Stacked(stack')
  BY <1>1, <1>2, <1>4, <1>5, <1>6, StackedOne
<1>8. stack'[g] = T /\ \A h \in Gs : h # g => stack'[h] = stack[h]
  BY <1>1, <1>4
<1>9. Climbed(g, stack[g][1])
  BY <1>3, <1>7, <1>8 DEF Climbed
<1> QED BY <1>2, <1>3, <1>8, <1>9 DEF T

\* What such a step has to see to.
LEMMA Climbs ==
  ASSUME LayersInv, NEW g \in Att, NEW f, f.op # "detach", Climbed(g, f),
         Shaped(current', shut', disposers', over', result'), UNCHANGED shut,
         Held(current'), disposers \subseteq disposers',
         \A h \in Gs : h # g => result'[h] = result[h],
         \A p \in Endpoints : current'[p] = current[p] \/ current'[p] = g \/ (current[p] = g /\ current'[p] = Nobody),
         Disposing(current', shut', disposers', stack', result'), Awaiting(disposers', stack'),
         \A e \in Way(g) : current'[e] = g /\
           (current[e] = g => Arriving(stack, e, g) \/ Arrived(stack, result, e, g)) =>
             Covered(disposers', stack', result', e, g)
  PROVE  LayersNext
<1>1. ASSUME NEW n \in Att, NEW e \in Way(n), current'[e] = n
      PROVE  Covered(disposers', stack', result', e, n)
  <2>0. n \in Apps \cup {Own} /\ n \in Gs /\ g \in Gs /\ n # Nobody /\ e \in Endpoints
    BY EntryIs, WayKinds, TheDispatcher DEF Gs, LayersInv
  <2>1. ASSUME Leaving(stack, e, n)
        PROVE  Covered(disposers', stack', result', e, n)
    <3>0. PICK h \in Gs : \E x \in CallsIn(stack[h]) : x.op = "detach" /\ x.e = e /\ x.n = n
      BY <2>1 DEF Leaving
    <3>1. PICK x \in CallsIn(stack[h]) : x.op = "detach" /\ x.e = e /\ x.n = n
      BY <3>0
    <3>2. x \in CallsIn(stack'[h])
      BY <3>1 DEF Climbed
    <3> QED BY <3>1, <3>2 DEF Covered, Leaving
  <2>2. Disposed(disposers, e, n) => Disposed(disposers', e, n)
    BY DEF Disposed
  <2>3. CASE n # g
    <3>1. current[e] = n
      BY <1>1, <2>0, <2>3
    <3>2. Covered(disposers, stack, result, e, n)
      BY <3>1 DEF LayersInv, EndpointsInv, Keeping
    <3>3. stack'[n] = stack[n] /\ result'[n] = result[n]
      BY <2>0, <2>3 DEF Climbed
    <3> QED BY <2>1, <2>2, <3>2, <3>3 DEF Covered, Arriving, Arrived
  <2>4. CASE n = g
    <3>1. CASE current[e] = g => Arriving(stack, e, g) \/ Arrived(stack, result, e, g)
      BY <1>1, <2>4, <3>1
    <3>2. CASE ~(current[e] = g => Arriving(stack, e, g) \/ Arrived(stack, result, e, g))
      <4>1. Covered(disposers, stack, result, e, n)
        BY <2>4, <3>2 DEF LayersInv, EndpointsInv, Keeping
      <4> QED BY <2>1, <2>2, <2>4, <3>2, <4>1 DEF Covered
    <3> QED BY <3>1, <3>2
  <2> QED BY <2>3, <2>4
<1>2. Keeping(current', disposers', stack', result')
  BY <1>1 DEF Keeping
<1> QED BY <1>2 DEF LayersNext, EndpointsInv, Climbed

\* Endpoints and detach functions stay, and so does what others do.
LEMMA NothingClimbs ==
  ASSUME LayersInv, NEW g \in Att, NEW f, f.op # "detach", Climbed(g, f), UNCHANGED <<current, shut, disposers, over>>,
         \A h \in Gs : h # g => result'[h] = result[h],
         result' \in [Gs -> {"", "none", "ok", "closed", "exists", "detached"}],
         g = Own => stack[Own] # <<>> \/ result[Own] # "ok",
         \A x \in CallsIn(stack'[g]) : x.op = "await" /\ Kind[x.e] # "mount" =>
           x \in CallsIn(stack[g]) \/ \A i : <<x.e, g, i>> \notin disposers,
         \A e \in Way(g) : current[e] = g /\ (Arriving(stack, e, g) \/ Arrived(stack, result, e, g)) =>
             Covered(disposers, stack', result', e, g)
  PROVE  LayersNext
<1>1. /\ Shaped(current, shut, disposers, over, result) /\ Stacked(stack) /\ Held(current)
      /\ Disposing(current, shut, disposers, stack, result) /\ Awaiting(disposers, stack) /\ setting \in Surroundings
  BY DEF LayersInv, EndpointsInv
<1>2. Own \in Gs /\ g \in Gs
  BY EntryIs, <1>1 DEF Gs
<1>3. Shaped(current', shut', disposers', over', result')
  <2>1. \A n \in Apps \cup {Own} : result'[n] # "none" => n \in Att
    BY <1>1 DEF Shaped, Gs
  <2> QED BY <1>1, <2>1 DEF Shaped
<1>4. Disposing(current', shut', disposers', stack', result')
  <2>1. CASE g = Own
    BY <1>1, <2>1 DEF Disposing
  <2>2. CASE g # Own
    BY <1>1, <1>2, <2>2 DEF Disposing, Climbed
  <2> QED BY <2>1, <2>2
<1>5. Awaiting(disposers', stack')
  <2> SUFFICES ASSUME NEW n \in Att, NEW x \in CallsIn(stack'[n]), x.op = "await", Kind[x.e] # "mount", NEW i
               PROVE  <<x.e, n, i>> \notin disposers
    BY DEF Awaiting
  <2>1. n \in Gs
    BY <1>1, EntryIs DEF Gs
  <2>2. CASE x \in CallsIn(stack[n])
    BY <1>1, <2>2 DEF Awaiting
  <2>3. CASE x \notin CallsIn(stack[n])
    BY <2>1, <2>3 DEF Climbed
  <2> QED BY <2>2, <2>3
<1>6. Held(current')
  BY <1>1 DEF Held
<1>7. \A e \in Way(g) : current'[e] = g /\
           (current[e] = g => Arriving(stack, e, g) \/ Arrived(stack, result, e, g)) =>
             Covered(disposers', stack', result', e, g)
  OBVIOUS
<1> QED BY <1>3, <1>4, <1>5, <1>6, <1>7, Climbs

\* Whose call of Receive is under way, and who awaits it.
LEMMA ClimbingCall ==
  ASSUME LayersInv, NEW g \in Gs, NEW op \in Climbing, Doing(g, op)
  PROVE  /\ stack[g] # <<>> /\ stack[g] \in Seq(Frame) /\ Head(stack[g]) = stack[g][1] /\ stack[g][1] \in Frame
         /\ stack[g][1].op = op /\ stack[g][1].op \in Climbing /\ stack[g][1].op # "detach"
         /\ g \in Att /\ g \in Apps \cup {Own} /\ stack[g][1].n = g /\ g # Nobody
         /\ Rises(stack[g][1], g) /\ Line(stack[g], g) /\ Line(Tail(stack[g]), g)
         /\ stack[g][1].e \in Endpoints /\ stack[g][1] \in CallsIn(stack[g])
         /\ Tail(stack[g]) \in Seq(Frame) /\ \A x \in CallsIn(Tail(stack[g])) : x \in CallsIn(stack[g])
<1>1. stack[g] # <<>> /\ Head(stack[g]).op = op
  BY DEF Doing
<1>2. /\ stack[g] \in Seq(Frame) /\ Head(stack[g]) = stack[g][1] /\ stack[g][1] \in Frame
      /\ stack[g][1] \in CallsIn(stack[g])
      /\ g \in Apps \cup {Own} => g \in Att /\ Line(stack[g], g) /\ Rises(stack[g][1], g)
      /\ g \in Endpoints => Sinks(stack[g][1])
  BY <1>1, Whose
<1>3. g \in Apps \cup {Own}
  BY <1>1, <1>2 DEF Sinks, Gs, Climbing
<1>4. stack[g][1].e \in Endpoints
  BY <1>2, FrameParts
<1>5. Line(Tail(stack[g]), g)
  BY <1>1, <1>2, <1>3, LineRest
<1>6. Tail(stack[g]) \in Seq(Frame) /\ \A k \in DOMAIN Tail(stack[g]) : k + 1 \in DOMAIN stack[g] /\ Tail(stack[g])[k] = stack[g][k + 1]
  BY <1>1, <1>2, Rest
<1>7. \A x \in CallsIn(Tail(stack[g])) : x \in CallsIn(stack[g])
  BY <1>6 DEF CallsIn
<1>8. stack[g][1].op # "detach" /\ g # Nobody
  BY <1>1, <1>2, <1>3, TheDispatcher DEF Climbing
<1> QED BY <1>1, <1>2, <1>3, <1>4, <1>5, <1>6, <1>7, <1>8 DEF Rises

\* When the topmost call returned, its caller awaits it, or is the application.
LEMMA Returned ==
  ASSUME LayersInv, NEW g \in Gs, NEW op \in Climbing, Doing(g, op), stack'[g] = Tail(stack[g]), result'[g] = "ok",
         stack[g][1].e \in Way(g)
  PROVE  Arrived(stack', result', stack[g][1].e, g)
<1> DEFINE f == stack[g][1]
           T == Tail(stack[g])
<1>1. stack[g] # <<>> /\ stack[g] \in Seq(Frame) /\ f.op \in Climbing /\ g \in Att /\ Line(stack[g], g) /\ 1 \in DOMAIN stack[g]
  BY ClimbingCall, Rest
<1>0. /\ Len(T) = Len(stack[g]) - 1 /\ Len(stack[g]) \in Nat \ {0} /\ T \in Seq(Frame)
      /\ \A k \in DOMAIN T : k + 1 \in DOMAIN stack[g] /\ T[k] = stack[g][k + 1]
  BY <1>1, Rest
<1> HIDE DEF T
<1>2. IF 1 = Len(stack[g]) THEN f.e = Top(g) ELSE Awaits(stack[g][1 + 1], f.e)
  BY <1>1 DEF Line, Awaited
<1>3. CASE T = <<>>
  <2>1. Len(stack[g]) = 1
    BY <1>0, <1>3
  <2>2. g # Own
    BY <1>1, <1>2, <2>1, WayHops DEF Top, LayersInv
  <2> QED BY <1>2, <1>3, <2>1, <2>2 DEF Top, Arrived, T
<1>4. CASE T # <<>>
  <2>1. 1 \in DOMAIN T /\ Len(T) # 0
    BY <1>0, <1>4
  <2>2. Len(stack[g]) # 1 /\ T[1] = stack[g][1 + 1]
    BY <1>0, <2>1
  <2> QED BY <1>2, <1>4, <2>2 DEF Arrived, T
<1> QED BY <1>3, <1>4

LEMMA LineOne ==
  ASSUME NEW n, NEW f \in Frame, Rises(f, n), f.op \in Climbing => f.e = Top(n)
  PROVE  <<f>> \in Seq(Frame) /\ Line(<<f>>, n) /\ \A x \in CallsIn(<<f>>) : x = f
<1>1. <<f>> \in Seq(Frame) /\ \A k \in DOMAIN <<f>> : k = 1 /\ <<f>>[k] = f
  OBVIOUS
<1>2. Len(<<f>>) = 1
  OBVIOUS
<1> QED BY <1>1, <1>2 DEF Line, Awaited, Distinct, CallsIn

LEMMA AttachStep ==
  ASSUME LayersInv, NEW n \in Apps, Attach(n), UNCHANGED setting
  PROVE  LayersNext
<1> DEFINE f == Call("receive", Entry(n), n)
           T == <<f>>
<1>1. /\ setting.at[n] # "nowhere" /\ stack[n] = <<>> /\ result[n] = "none" /\ stack' = [stack EXCEPT ![n] = T]
      /\ UNCHANGED <<current, shut, disposers, over, result>>
  BY DEF Attach
<1>2. /\ Shaped(current, shut, disposers, over, result) /\ Stacked(stack) /\ stack \in [Gs -> Seq(Frame)] /\ n \in Gs
      /\ n \in Att /\ n # Own /\ n \notin Endpoints /\ setting \in Surroundings
  BY <1>1, TheDispatcher DEF LayersInv, EndpointsInv, Stacked, Gs, Att
<1>3. Entry(n) \in Endpoints /\ Entry(n) \in Way(n) /\ Entry(n) = Top(n)
  BY <1>2, EntryIs DEF Top
<1>4. f \in Frame /\ f.op = "receive" /\ f.e = Entry(n) /\ f.n = n /\ f.i = 1
  BY <1>3 DEF Call, Frame, Climbing
<1> HIDE DEF f
<1>5. Rises(f, n)
  BY <1>3, <1>4 DEF Rises, Climbing
<1>6. T \in Seq(Frame) /\ Line(T, n) /\ \A x \in CallsIn(T) : x = f
  BY <1>3, <1>4, <1>5, LineOne
<1> HIDE DEF T
<1>7. Stacked(stack')
  BY <1>1, <1>2, <1>6, StackedOne
<1>8. stack'[n] = T /\ \A h \in Gs : h # n => stack'[h] = stack[h]
  BY <1>1, <1>2
<1>9. \A x \in CallsIn(stack[n]) : FALSE
  BY <1>1 DEF CallsIn
<1>10. Climbed(n, f)
  BY <1>7, <1>8, <1>9 DEF Climbed
<1>11. \A x \in CallsIn(stack'[n]) : x.op # "await"
  BY <1>4, <1>6, <1>8
<1>12. \A e : ~Arriving(stack, e, n) /\ ~Arrived(stack, result, e, n)
  BY <1>1, <1>9 DEF Arriving, Arrived
<1>13. result' \in [Gs -> {"", "none", "ok", "closed", "exists", "detached"}]
  BY <1>1, <1>2 DEF Shaped
<1> QED BY <1>1, <1>2, <1>4, <1>10, <1>11, <1>12, <1>13, NothingClimbs

LEMMA DetachAppStep ==
  ASSUME LayersInv, NEW n \in Apps, DetachApp(n), UNCHANGED setting
  PROVE  LayersNext
<1> DEFINE f == Call("detach", Entry(n), n)
           T == <<f>>
<1>1. /\ stack[n] = <<>> /\ result[n] = "ok" /\ stack' = [stack EXCEPT ![n] = T]
      /\ result' = [result EXCEPT ![n] = "detached"]
      /\ UNCHANGED <<current, shut, disposers, over>>
  BY DEF DetachApp, Attached
<1>2. /\ Shaped(current, shut, disposers, over, result) /\ Stacked(stack) /\ stack \in [Gs -> Seq(Frame)] /\ n \in Gs
      /\ n # Own /\ n \notin Endpoints /\ setting \in Surroundings
  BY <1>1, TheDispatcher DEF LayersInv, EndpointsInv, Stacked, Gs
<1>3. n \in Att /\ result \in [Gs -> {"", "none", "ok", "closed", "exists", "detached"}]
  BY <1>1, <1>2 DEF Shaped
<1>4. Entry(n) \in Endpoints
  BY <1>2, <1>3, EntryIs
<1>5. f \in Frame /\ f.op = "detach" /\ f.e = Entry(n) /\ f.n = n
  BY <1>4 DEF Call, Frame
<1> HIDE DEF f
<1>6. Rises(f, n)
  BY <1>5 DEF Rises, Climbing
<1>7. T \in Seq(Frame) /\ Line(T, n) /\ \A x \in CallsIn(T) : x = f
  BY <1>5, <1>6, LineOne DEF Climbing
<1>8. f \in CallsIn(T)
  BY <1>7 DEF CallsIn
<1> HIDE DEF T
<1>9. Stacked(stack')
  BY <1>1, <1>2, <1>3, <1>7, StackedOne
<1>10. stack'[n] = T /\ \A h \in Gs : h # n => stack'[h] = stack[h]
  BY <1>1, <1>2
<1>11. \A x \in CallsIn(stack[n]) : FALSE
  BY <1>1 DEF CallsIn
<1> DEFINE any == [op |-> "receive"]
<1>12. Climbed(n, any) /\ any.op # "detach"
  BY <1>9, <1>10, <1>11 DEF Climbed
<1>13. \A x \in CallsIn(stack'[n]) : x.op # "await"
  BY <1>5, <1>7, <1>10
<1>14. ASSUME NEW e, Arriving(stack, e, n) \/ Arrived(stack, result, e, n)
       PROVE  Covered(disposers, stack', result', e, n)
  <2>1. e = Entry(n)
    BY <1>1, <1>11, <1>14 DEF Arriving, Arrived
  <2>2. Leaving(stack', e, n)
    BY <1>2, <1>5, <1>8, <1>10, <2>1 DEF Leaving
  <2> QED BY <2>2 DEF Covered
<1>15. /\ result' \in [Gs -> {"", "none", "ok", "closed", "exists", "detached"}]
       /\ \A h \in Gs : h # n => result'[h] = result[h]
  BY <1>1, <1>3
<1> HIDE DEF any
<1> QED BY <1>1, <1>2, <1>3, <1>12, <1>13, <1>14, <1>15, NothingClimbs

LEMMA Pair ==
  ASSUME NEW f \in Frame, NEW h \in Frame
  PROVE  <<f>> \o <<h>> = <<f, h>>
<1>1. PICK a \in Seq(Frame) : a = <<f>> /\ Len(a) = 1 /\ a[1] = f
  <2>1. <<f>> \in Seq(Frame) /\ Len(<<f>>) = 1 /\ <<f>>[1] = f
    OBVIOUS
  <2> QED BY <2>1
<1>2. PICK b \in Seq(Frame) : b = <<h>> /\ Len(b) = 1 /\ b[1] = h
  <2>1. <<h>> \in Seq(Frame) /\ Len(<<h>>) = 1 /\ <<h>>[1] = h
    OBVIOUS
  <2> QED BY <2>1
<1>3. PICK c \in Seq(Frame) : c = a \o b /\ Len(c) = 2 /\ c[1] = f /\ c[2] = h
  <2>1. a \o b \in Seq(Frame) /\ Len(a \o b) = 2
    BY <1>1, <1>2
  <2>2. (a \o b)[1] = f
    BY <1>1, <1>2
  <2>3. (a \o b)[2] = h
    BY <1>1, <1>2
  <2> QED BY <2>1, <2>2, <2>3
<1>4. <<f, h>> \in Seq(Frame) /\ Len(<<f, h>>) = 2 /\ <<f, h>>[1] = f /\ <<f, h>>[2] = h
  OBVIOUS
<1>5. \A k \in 1 .. Len(c) : k = 1 \/ k = 2
  BY <1>3
<1>6. \A k \in 1 .. Len(c) : c[k] = <<f, h>>[k]
  BY <1>3, <1>4, <1>5
<1>7. c = <<f, h>>
  BY <1>3, <1>4, <1>6, SeqEqual
<1> QED BY <1>1, <1>2, <1>3, <1>7

LEMMA NewDispatcherStep ==
  ASSUME LayersInv, NewDispatcher, UNCHANGED setting
  PROVE  LayersNext
<1> DEFINE f == Call("receive", Entry(Own), Own)
           h == Call("await", Dispatcher, Own)
           T == <<f, h>>
<1>1. /\ Below(Dispatcher) # <<>> /\ stack[Own] = <<>> /\ result[Own] = "none" /\ stack' = [stack EXCEPT ![Own] = T]
      /\ UNCHANGED <<current, shut, disposers, over, result>>
  BY DEF NewDispatcher
<1>2. /\ Shaped(current, shut, disposers, over, result) /\ Stacked(stack) /\ stack \in [Gs -> Seq(Frame)] /\ Own \in Gs
      /\ Own \in Att /\ Own \notin Endpoints /\ setting \in Surroundings /\ Disposing(current, shut, disposers, stack, result)
  BY <1>1, TheDispatcher DEF LayersInv, EndpointsInv, Stacked, Gs, Att
<1>3. /\ Entry(Own) \in Endpoints /\ Entry(Own) = Below(Dispatcher)[1] /\ 1 \in DOMAIN Below(Dispatcher)
      /\ Dispatcher \in Endpoints /\ Dispatcher = Top(Own) /\ Dispatcher \in Hops(Own)
  BY <1>2, EntryIs, TheDispatcher DEF Top, Hops
<1>4. f \in Frame /\ f.op = "receive" /\ f.e = Entry(Own) /\ f.n = Own /\ f.i = 1
  BY <1>3 DEF Call, Frame, Climbing
<1>5. h \in Frame /\ h.op = "await" /\ h.e = Dispatcher /\ h.n = Own /\ h.i = 1
  BY <1>3 DEF Call, Frame, Climbing
<1> HIDE DEF f, h
<1>6. Rises(h, Own)
  BY <1>3, <1>5 DEF Rises, Climbing
<1>7. PICK S \in Seq(Frame) : S = <<h>> /\ Line(S, Own) /\ \A x \in CallsIn(S) : x = h
  BY <1>3, <1>5, <1>6, LineOne
<1>8. S # <<>> /\ S[1] = h /\ <<f>> \o S = T /\ T \in Seq(Frame) /\ \A k \in DOMAIN T : T[k] = f \/ T[k] = h
  <2>1. S # <<>> /\ S[1] = h
    BY <1>7
  <2>2. <<f>> \o <<h>> = <<f, h>>
    BY <1>4, <1>5, Pair
  <2>3. T \in Seq(Frame) /\ \A k \in DOMAIN T : T[k] = f \/ T[k] = h
    BY <1>4, <1>5
  <2> QED BY <1>7, <2>1, <2>2, <2>3
<1>9. Line(<<f>> \o S, Own)
  BY <1>2, <1>3, <1>4, <1>5, <1>7, <1>8, LineReceives
<1>10. Line(T, Own) /\ \A x \in CallsIn(T) : x = f \/ x = h
  BY <1>8, <1>9 DEF CallsIn
<1>11. T \in Seq(Frame)
  BY <1>8
<1> HIDE DEF T
<1>12. Stacked(stack')
  BY <1>1, <1>2, <1>10, <1>11, StackedOne
<1>13. stack'[Own] = T /\ \A j \in Gs : j # Own => stack'[j] = stack[j]
  BY <1>1, <1>2
<1>14. \A x \in CallsIn(stack[Own]) : FALSE
  BY <1>1 DEF CallsIn
<1>15. Climbed(Own, f) /\ f.op # "detach"
  BY <1>4, <1>12, <1>13, <1>14 DEF Climbed
<1>16. \A e : ~Arriving(stack, e, Own) /\ ~Arrived(stack, result, e, Own)
  BY <1>1, <1>14 DEF Arriving, Arrived
<1>17. \A i : <<Dispatcher, Own, i>> \notin disposers
  BY <1>1, <1>2 DEF Disposing
<1>18. \A x \in CallsIn(stack'[Own]) : x.op = "await" /\ Kind[x.e] # "mount" => \A i : <<x.e, Own, i>> \notin disposers
  BY <1>4, <1>5, <1>10, <1>13, <1>17
<1>19. result' \in [Gs -> {"", "none", "ok", "closed", "exists", "detached"}]
  BY <1>1, <1>2 DEF Shaped
<1> QED BY <1>1, <1>2, <1>15, <1>16, <1>18, <1>19, NothingClimbs
LEMMA NoCalls == <<>> \in Seq(Frame) /\ \A x \in CallsIn(<<>>) : FALSE
<1>1. \A k \in DOMAIN <<>> : FALSE
  OBVIOUS
<1> QED BY <1>1 DEF CallsIn

\* The call returns, or a Receive that got nothing does.
LEMMA BackStep ==
  ASSUME LayersInv, NEW g \in Gs, NEW op \in {"receive", "next", "return"}, Doing(g, op),
         NEW r \in {"", "none", "ok", "closed", "exists", "detached"}, Back(g, r),
         UNCHANGED <<current, shut, disposers, over>>,
         op = "next" => r = "ok" \/ current[stack[g][1].e] # g
  PROVE  LayersNext
<1> DEFINE f == stack[g][1]
           T == Tail(stack[g])
<1>0. op \in Climbing /\ op # "await"
  BY DEF Climbing
<1>1. /\ stack[g] # <<>> /\ f.op = op /\ f.op # "detach" /\ g \in Att /\ g \in Apps \cup {Own} /\ Rises(f, g)
      /\ Line(T, g) /\ T \in Seq(Frame) /\ \A x \in CallsIn(T) : x \in CallsIn(stack[g])
  BY <1>0, ClimbingCall
<1>2. <<>> \o T = T /\ <<>> \in Seq(Frame) /\ \A x \in CallsIn(<<>>) : FALSE
  <2>1. PICK U \in Seq(Frame) : U = T
    BY <1>1
  <2>2. <<>> \o U = U
    BY ConcatEmptySeq
  <2> QED BY <2>1, <2>2, NoCalls
<1>3. Go(g, <<>>) /\ result' = [result EXCEPT ![g] = r]
  BY DEF Back
<1>4. Climbed(g, f) /\ stack'[g] = T
  BY <1>1, <1>2, <1>3, GoClimbs
<1>5. /\ result \in [Gs -> {"", "none", "ok", "closed", "exists", "detached"}] /\ setting \in Surroundings
  BY DEF LayersInv, EndpointsInv, Shaped
<1>6. /\ result' \in [Gs -> {"", "none", "ok", "closed", "exists", "detached"}] /\ result'[g] = r
      /\ \A h \in Gs : h # g => result'[h] = result[h]
  BY <1>3, <1>5
<1>7. op = "next" => f.e \in Way(g)
  BY <1>1 DEF Rises
<1>8. ASSUME NEW e \in Way(g), current[e] = g, Arriving(stack, e, g) \/ Arrived(stack, result, e, g)
      PROVE  Covered(disposers, stack', result', e, g)
  <2>1. ~Arrived(stack, result, e, g)
    BY <1>0, <1>1 DEF Arrived, Awaits
  <2>2. PICK x \in CallsIn(stack[g]) : x.op \in {"next", "await"} /\ x.e = e
    BY <1>8, <2>1 DEF Arriving
  <2>3. CASE x \in CallsIn(stack'[g])
    BY <2>2, <2>3 DEF Covered, Arriving
  <2>4. CASE x \notin CallsIn(stack'[g])
    <3>1. x = f
      BY <1>4, <2>4 DEF Climbed
    <3>2. op = "next" /\ e = f.e
      BY <1>0, <1>1, <2>2, <3>1
    <3>3. r = "ok"
      BY <1>7, <1>8, <3>2
    <3>4. Arrived(stack', result', f.e, g)
      BY <1>0, <1>4, <1>6, <1>7, <3>2, <3>3, Returned
    <3> QED BY <3>2, <3>4 DEF Covered
  <2> QED BY <2>3, <2>4
<1>9. \A x \in CallsIn(stack'[g]) : x \in CallsIn(stack[g])
  BY <1>1, <1>4
<1> HIDE DEF f, T
<1> QED BY <1>1, <1>4, <1>6, <1>8, <1>9, NothingClimbs

LEMMA ReturnStep ==
  ASSUME LayersInv, NEW g \in Gs, Return(g), UNCHANGED setting
  PROVE  LayersNext
<1>1. Doing(g, "return") /\ Back(g, Head(stack[g]).returns) /\ UNCHANGED <<current, shut, disposers, over>>
  BY DEF Return
<1>2. Head(stack[g]) \in Frame
  BY <1>1, ClimbingCall DEF Climbing
<1>3. Head(stack[g]).returns \in {"", "none", "closed", "exists", "detached"}
  BY <1>2, FrameParts
<1> QED BY <1>1, <1>3, BackStep

\* The topmost call awaits a Receive at one of its children.
Descends(n, S, a, b, c) ==
  /\ n \in Att /\ Line(S, n) /\ S # <<>> /\ S[1].op \in Climbing /\ a \in Frame /\ b \in Frame /\ c = <<a, b>>
  /\ b.op = "await" /\ b.e = S[1].e /\ Rises(b, n)
  /\ a.op = "receive" /\ a.n = n /\ a.i = 1 /\ a.e = Below(b.e)[b.i]
Goes(n, S, a, b, c) ==
  /\ c \in Seq(Frame) /\ Line(c \o Tail(S), n)
  /\ \A x \in CallsIn(c) : x = a \/ x = b
  /\ \E k \in DOMAIN c : c[k] = b

LEMMA Pushes ==
  ASSUME setting \in Surroundings, NEW n, NEW S, NEW a, NEW b, NEW c, Descends(n, S, a, b, c)
  PROVE  Goes(n, S, a, b, c)
<1> USE DEF Descends, Goes
<1> DEFINE T == Tail(S)
           U == <<b>> \o T
<1>1. T \in Seq(Frame)
  BY Rest DEF Line
<1>2. b.op \in Climbing
  BY DEF Climbing
<1>3. Line(U, n)
  BY <1>2, LineGoesOn
<1> HIDE DEF T
<1>4. <<b>> \in Seq(Frame) /\ <<a>> \in Seq(Frame)
  OBVIOUS
<1>5. U # <<>> /\ U[1] = b
  <2>1. PICK B \in Seq(Frame) : B = <<b>> /\ Len(B) = 1 /\ B[1] = b
    <3>1. <<b>> \in Seq(Frame) /\ Len(<<b>>) = 1 /\ <<b>>[1] = b
      OBVIOUS
    <3> QED BY <3>1
  <2>2. B \o T \in Seq(Frame) /\ Len(B \o T) # 0 /\ (B \o T)[1] = B[1]
    BY <1>1, <2>1
  <2> QED BY <2>1, <2>2
<1>6. (<<a>> \o <<b>>) \o T = <<a>> \o U
  BY <1>1, <1>4, ConcatAssociative
<1> HIDE DEF U
<1>7. Line(<<a>> \o U, n)
  BY <1>3, <1>5, LineReceives
<1>8. <<a, b>> \in Seq(Frame) /\ \A k \in DOMAIN <<a, b>> : (k = 1 \/ k = 2) /\ (<<a, b>>[k] = a \/ <<a, b>>[k] = b)
  OBVIOUS
<1>9. \A x \in CallsIn(<<a, b>>) : x = a \/ x = b
  BY <1>8 DEF CallsIn
<1>10. 2 \in DOMAIN <<a, b>> /\ <<a, b>>[2] = b
  OBVIOUS
<1> QED BY <1>6, <1>7, <1>8, <1>9, <1>10, Pair DEF T

\* A Receive takes the endpoint.
LEMMA ReceiveClaims ==
  ASSUME LayersInv, NEW g \in Gs, Doing(g, "receive"), NEW c \in Seq(Frame), Go(g, c),
         Line(c \o Tail(stack[g]), g), NEW u, u = stack[g][1].e, current[u] = Nobody,
         current' = [current EXCEPT ![u] = g], UNCHANGED <<shut, disposers, over>>,
         \A h \in Gs : h # g => result'[h] = result[h],
         result' \in [Gs -> {"", "none", "ok", "closed", "exists", "detached"}],
         \A x \in CallsIn(c) : x.op = "await" => x.e = u, Covered(disposers', stack', result', u, g)
  PROVE  LayersNext
<1> DEFINE f == stack[g][1]
<1>0. "receive" \in Climbing
  BY DEF Climbing
<1>1. /\ stack[g] # <<>> /\ f.op = "receive" /\ f.op # "detach" /\ g \in Att /\ g \in Apps \cup {Own} /\ g # Nobody
      /\ u \in Way(g) /\ \A x \in CallsIn(Tail(stack[g])) : x \in CallsIn(stack[g])
  BY <1>0, ClimbingCall DEF Rises
<1>2. /\ Climbed(g, f) /\ \A x \in CallsIn(stack'[g]) : x \in CallsIn(Tail(stack[g])) \/ x \in CallsIn(c)
  BY <1>1, GoClimbs
<1>3. /\ Shaped(current, shut, disposers, over, result) /\ Held(current) /\ setting \in Surroundings
      /\ Disposing(current, shut, disposers, stack, result) /\ Awaiting(disposers, stack)
  BY DEF LayersInv, EndpointsInv
<1>4. u \in Endpoints /\ u # Dispatcher
  BY <1>1, <1>3, WayKinds
<1> HIDE DEF f
<1>5. /\ current'[u] = g /\ \A q \in Endpoints : q # u => current'[q] = current[q]
      /\ current' \in [Endpoints -> Apps \cup {Own, Nobody}]
  BY <1>1, <1>3, <1>4 DEF Shaped
<1>7. Shaped(current', shut', disposers', over', result')
  <2>1. \A n \in Apps \cup {Own} : result'[n] # "none" => n \in Att
    BY <1>1, <1>3 DEF Shaped, Gs
  <2> QED BY <1>3, <1>5, <2>1 DEF Shaped
<1>8. Held(current')
  BY <1>1, <1>3, <1>4, <1>5 DEF Held
<1>9. Disposing(current', shut', disposers', stack', result')
  <2> SUFFICES ASSUME NEW v, NEW n, NEW i, <<v, n, i>> \in disposers
               PROVE  /\ v \in Hops(n) /\ i \in DOMAIN Below(v)
                      /\ IF v = Dispatcher THEN v \notin shut /\ stack'[Own] = <<>> /\ result'[Own] = "ok"
                         ELSE current'[v] = n
    BY DEF Disposing
  <2>1. /\ v \in Hops(n) /\ i \in DOMAIN Below(v)
        /\ IF v = Dispatcher THEN v \notin shut /\ stack[Own] = <<>> /\ result[Own] = "ok" ELSE current[v] = n
    BY <1>3 DEF Disposing
  <2>2. n \in Att /\ n # Nobody /\ v \in Endpoints /\ Own \in Gs
    BY <1>3, EntryIs, TheDispatcher DEF Shaped, Gs
  <2>3. CASE v = Dispatcher
    <3>1. g # Own
      BY <1>1, <2>1, <2>3
    <3> QED BY <1>2, <2>1, <2>2, <2>3, <3>1 DEF Climbed
  <2>4. CASE v # Dispatcher
    BY <1>5, <2>1, <2>2, <2>4
  <2> QED BY <2>3, <2>4
<1>10. Awaiting(disposers', stack')
  <2> SUFFICES ASSUME NEW n \in Att, NEW x \in CallsIn(stack'[n]), x.op = "await", Kind[x.e] # "mount",
                      NEW i, <<x.e, n, i>> \in disposers
               PROVE  FALSE
    BY DEF Awaiting
  <2>1. n \in Gs
    BY <1>3, EntryIs DEF Gs
  <2>2. CASE x \in CallsIn(stack[n])
    BY <1>3, <2>2 DEF Awaiting
  <2>3. CASE x \notin CallsIn(stack[n])
    <3>1. n = g
      BY <1>2, <2>1, <2>3 DEF Climbed
    <3>2. x.e = u
      BY <1>1, <1>2, <2>3, <3>1
    <3>3. <<u, g, i>> \in disposers
      BY <3>1, <3>2
    <3>4. current[u] = g
      BY <1>3, <1>4, <3>3 DEF Disposing
    <3> QED BY <1>1, <3>4
  <2> QED BY <2>2, <2>3
<1>11. ASSUME NEW e \in Way(g), current'[e] = g,
              current[e] = g => Arriving(stack, e, g) \/ Arrived(stack, result, e, g)
       PROVE  Covered(disposers', stack', result', e, g)
  <2>1. CASE e = u
    BY <2>1
  <2>2. CASE e # u
    <3>1. e \in Endpoints
      BY <1>1, <1>3, WayKinds
    <3>2. Arriving(stack, e, g) \/ Arrived(stack, result, e, g)
      BY <1>5, <1>11, <2>2, <3>1
    <3>3. ~Arrived(stack, result, e, g)
      BY <1>1 DEF Arrived, Awaits, f
    <3>4. PICK x \in CallsIn(stack[g]) : x.op \in {"next", "await"} /\ x.e = e
      BY <3>2, <3>3 DEF Arriving
    <3>5. x \in CallsIn(stack'[g])
      BY <1>1, <1>2, <3>4 DEF Climbed
    <3> QED BY <3>4, <3>5 DEF Covered, Arriving
  <2> QED BY <2>1, <2>2
<1>12. \A q \in Endpoints : current'[q] = current[q] \/ current'[q] = g \/ (current[q] = g /\ current'[q] = Nobody)
  BY <1>5
<1> QED BY <1>1, <1>2, <1>7, <1>8, <1>9, <1>10, <1>11, <1>12, Climbs

LEMMA ReceiveStep ==
  ASSUME LayersInv, NEW g \in Gs, Receive(g), UNCHANGED setting
  PROVE  LayersNext
<1> DEFINE f == stack[g][1]
           u == f.e
<1>0. Doing(g, "receive") /\ "receive" \in Climbing /\ UNCHANGED <<shut, disposers, over>>
  BY DEF Receive, Climbing
<1>1. /\ stack[g] # <<>> /\ stack[g] \in Seq(Frame) /\ Head(stack[g]) = f /\ f \in Frame /\ f.op = "receive"
      /\ f.op \in Climbing /\ g \in Att /\ f.n = g /\ g # Nobody /\ u \in Way(g) /\ u \in Endpoints /\ f.i = 1
      /\ Line(stack[g], g) /\ Line(Tail(stack[g]), g) /\ Tail(stack[g]) \in Seq(Frame)
  BY <1>0, ClimbingCall DEF Rises
<1>2. setting \in Surroundings /\ result \in [Gs -> {"", "none", "ok", "closed", "exists", "detached"}]
  BY DEF LayersInv, EndpointsInv, Shaped
<1>3. Kind[u] \in {"root", "exact", "prefix", "through", "mount", "view"}
  BY <1>1, <1>2, WayKinds, RoutingAssumption
<1> HIDE DEF f
<1>4. IF Closed(u) \/ current[u] # Nobody
        THEN Back(g, IF Closed(u) THEN "closed" ELSE "exists") /\ UNCHANGED current
        ELSE /\ current' = [current EXCEPT ![u] = g]
             /\ CASE Kind[u] \in {"root", "exact", "prefix"} -> Back(g, "ok")
                  [] Kind[u] \in {"through", "view"} ->
                       /\ Go(g, <<Call("receive", Below(u)[1], g), [f EXCEPT !.op = "await"]>>)
                       /\ UNCHANGED result
                  [] Kind[u] = "mount" -> Go(g, <<[f EXCEPT !.op = "next"]>>) /\ UNCHANGED result
  BY <1>1 DEF Receive
<1>5. CASE Closed(u) \/ current[u] # Nobody
  BY <1>0, <1>4, <1>5, BackStep
<1>6. CASE ~(Closed(u) \/ current[u] # Nobody)
  <2>1. current[u] = Nobody /\ current' = [current EXCEPT ![u] = g]
    BY <1>4, <1>6
  <2>c. ASSUME NEW c, c \in Seq(Frame), Go(g, c), Line(c \o Tail(stack[g]), g),
               \A x \in CallsIn(c) : x.op = "await" => x.e = u, Covered(disposers', stack', result', u, g),
               \A h \in Gs : h # g => result'[h] = result[h],
               result' \in [Gs -> {"", "none", "ok", "closed", "exists", "detached"}]
        PROVE  LayersNext
    <3>1. u = stack[g][1].e
      BY DEF f
    <3> HIDE DEF u
    <3> QED BY <1>0, <2>1, <2>c, <3>1, ReceiveClaims, ZenonT(60)
  <2>2. CASE Kind[u] \in {"root", "exact", "prefix"}
    <3>1. Go(g, <<>>) /\ result' = [result EXCEPT ![g] = "ok"]
      BY <1>4, <1>6, <2>2 DEF Back
    <3>2. <<>> \o Tail(stack[g]) = Tail(stack[g])
      BY <1>1, ConcatEmptySeq
    <3>3. stack'[g] = Tail(stack[g]) /\ result'[g] = "ok"
      <4>1. stack \in [Gs -> Seq(Frame)]
        BY DEF LayersInv, EndpointsInv, Stacked
      <4> QED BY <1>2, <3>1, <3>2, <4>1 DEF Go
    <3>4. Arrived(stack', result', u, g)
      BY <1>0, <1>1, <3>3, Returned DEF f
    <3>5. Covered(disposers', stack', result', u, g)
      BY <3>4 DEF Covered
    <3>6. /\ \A h \in Gs : h # g => result'[h] = result[h]
          /\ result' \in [Gs -> {"", "none", "ok", "closed", "exists", "detached"}]
      BY <1>2, <3>1
    <3> DEFINE c == <<>>
    <3>7. Go(g, c) /\ Line(c \o Tail(stack[g]), g)
      BY <1>1, <3>1, <3>2
    <3>8. c \in Seq(Frame) /\ \A x \in CallsIn(c) : x.op = "await" => x.e = u
      BY NoCalls
    <3> HIDE DEF c, u
    <3> QED BY <2>c, <3>5, <3>6, <3>7, <3>8
  <2>3. CASE Kind[u] \in {"through", "view"}
    <3> DEFINE a == Call("receive", Below(u)[1], g)
               b == [f EXCEPT !.op = "await"]
               c == <<a, b>>
    <3>1. Go(g, c) /\ UNCHANGED result
      BY <1>4, <1>6, <2>3
    <3>2. u # Dispatcher /\ 1 \in DOMAIN Below(u)
      BY <1>1, <1>2, <2>3, WayKinds, TheDispatcher
    <3>3. Below(u)[1] \in Endpoints /\ u \in Hops(g)
      BY <1>1, <1>2, <3>2, Child, WayHops
    <3>4. b \in Frame /\ b.op = "await" /\ b.e = u /\ b.n = g /\ b.i = 1
      BY <1>1 DEF Frame, Climbing
    <3>5. a \in Frame /\ a.op = "receive" /\ a.n = g /\ a.i = 1 /\ a.e = Below(u)[1]
      BY <1>1, <1>2, <3>3, EntryIs DEF Call, Frame, Climbing
    <3>0. c = <<a, b>>
      OBVIOUS
    <3> HIDE DEF a, b, c
    <3>6. Rises(b, g)
      BY <3>2, <3>3, <3>4 DEF Rises, Climbing
    <3> Descends(g, stack[g], a, b, c)
      BY <1>1, <3>0, <3>4, <3>5, <3>6 DEF Descends, f
    <3>7. /\ c \in Seq(Frame) /\ Line(c \o Tail(stack[g]), g)
          /\ \A x \in CallsIn(c) : x = a \/ x = b
          /\ \E k \in DOMAIN c : c[k] = b
      <4> Goes(g, stack[g], a, b, c)
        BY <1>2, Pushes
      <4> QED BY DEF Goes
    <3>8. b \in CallsIn(stack'[g])
      BY <1>1, <3>1, <3>7, GoClimbs
    <3>9. Covered(disposers', stack', result', u, g)
      BY <3>4, <3>8 DEF Covered, Arriving
    <3>10. \A x \in CallsIn(c) : x.op = "await" => x.e = u
      BY <3>4, <3>5, <3>7
    <3>11. /\ \A h \in Gs : h # g => result'[h] = result[h]
           /\ result' \in [Gs -> {"", "none", "ok", "closed", "exists", "detached"}]
      BY <1>2, <3>1
    <3> HIDE DEF u
    <3> QED BY <2>c, <3>1, <3>7, <3>9, <3>10, <3>11
  <2>4. CASE Kind[u] = "mount"
    <3> DEFINE b == [f EXCEPT !.op = "next"]
               c == <<b>>
    <3>1. Go(g, c) /\ UNCHANGED result
      BY <1>4, <1>6, <2>4
    <3>2. b \in Frame /\ b.op = "next" /\ b.e = u /\ b.n = g /\ b.i = 1
      BY <1>1 DEF Frame, Climbing
    <3> HIDE DEF b
    <3>0. c = <<b>>
      OBVIOUS
    <3> HIDE DEF c
    <3>3. Rises(b, g) /\ b.op \in Climbing
      BY <1>1, <2>4, <3>2 DEF Rises, Climbing
    <3>4. Line(<<b>> \o Tail(stack[g]), g)
      BY <1>1, <3>2, <3>3, LineGoesOn DEF f
    <3>5. c \in Seq(Frame) /\ \A k \in DOMAIN c : k = 1 /\ c[k] = b
      BY <3>0, <3>2
    <3>6. 1 \in DOMAIN c /\ c[1] = b /\ Line(c \o Tail(stack[g]), g)
      BY <3>0, <3>4
    <3>7. b \in CallsIn(stack'[g])
      BY <1>1, <3>1, <3>5, <3>6, GoClimbs
    <3>8. Covered(disposers', stack', result', u, g)
      BY <3>2, <3>7 DEF Covered, Arriving
    <3>9. \A x \in CallsIn(c) : x.op = "await" => x.e = u
      BY <3>2, <3>5 DEF CallsIn
    <3>10. /\ \A h \in Gs : h # g => result'[h] = result[h]
           /\ result' \in [Gs -> {"", "none", "ok", "closed", "exists", "detached"}]
      BY <1>2, <3>1
    <3>11. c \in Seq(Frame) /\ Line(c \o Tail(stack[g]), g)
      BY <3>5, <3>6
    <3> HIDE DEF u
    <3> QED BY <2>c, <3>1, <3>8, <3>9, <3>10, <3>11
  <2> QED BY <1>3, <2>2, <2>3, <2>4
<1> QED BY <1>5, <1>6

LEMMA NextChildStep ==
  ASSUME LayersInv, NEW g \in Gs, NextChild(g), UNCHANGED setting
  PROVE  LayersNext
<1> DEFINE f == stack[g][1]
           u == f.e
<1>0. Doing(g, "next") /\ "next" \in Climbing /\ UNCHANGED <<current, shut, disposers, over>>
  BY DEF NextChild, Climbing
<1>1. /\ stack[g] # <<>> /\ stack[g] \in Seq(Frame) /\ Head(stack[g]) = f /\ f \in Frame /\ f.op = "next"
      /\ f.op \in Climbing /\ f.op # "detach" /\ g \in Att /\ f.n = g /\ u \in Way(g) /\ u \in Endpoints
      /\ Line(stack[g], g) /\ Line(Tail(stack[g]), g) /\ Tail(stack[g]) \in Seq(Frame)
      /\ Kind[u] = "mount" /\ f.i # 0 /\ f.i \in Nat /\ \A x \in CallsIn(Tail(stack[g])) : x \in CallsIn(stack[g])
  <2>1. /\ stack[g] # <<>> /\ stack[g] \in Seq(Frame) /\ Head(stack[g]) = f /\ f \in Frame /\ f.op = "next"
        /\ f.op \in Climbing /\ f.op # "detach" /\ g \in Att /\ f.n = g /\ u \in Endpoints /\ Rises(f, g)
        /\ Line(stack[g], g) /\ Line(Tail(stack[g]), g) /\ Tail(stack[g]) \in Seq(Frame)
        /\ \A x \in CallsIn(Tail(stack[g])) : x \in CallsIn(stack[g])
    BY <1>0, ClimbingCall
  <2> HIDE DEF f
  <2>2. u \in Way(g) /\ Kind[u] = "mount" /\ f.i # 0
    BY <2>1 DEF Rises
  <2>3. f.i \in Nat
    BY <2>1, FrameParts
  <2> QED BY <2>1, <2>2, <2>3
<1>2. setting \in Surroundings /\ result \in [Gs -> {"", "none", "ok", "closed", "exists", "detached"}]
  BY DEF LayersInv, EndpointsInv, Shaped
<1> HIDE DEF f
<1>4. IF current[u] # g THEN Back(g, "closed")
      ELSE IF f.i > Len(Below(u)) THEN Back(g, "ok")
      ELSE /\ Go(g, <<Call("receive", Below(u)[f.i], g), [f EXCEPT !.op = "await"]>>)
           /\ UNCHANGED result
  BY <1>1 DEF NextChild
<1>5. CASE current[u] # g
  BY <1>0, <1>4, <1>5, BackStep DEF f
<1>6. CASE current[u] = g /\ f.i > Len(Below(u))
  BY <1>0, <1>4, <1>6, BackStep
<1>7. CASE current[u] = g /\ ~(f.i > Len(Below(u)))
  <2> DEFINE a == Call("receive", Below(u)[f.i], g)
             b == [f EXCEPT !.op = "await"]
             c == <<a, b>>
  <2>1. Go(g, c) /\ UNCHANGED result
    BY <1>4, <1>7
  <2>2. u # Dispatcher /\ f.i \in DOMAIN Below(u)
    <3>1. PICK B \in Seq(Endpoints) : B = Below(u)
      BY <1>1, <1>2, Composed
    <3>2. f.i \in DOMAIN B
      BY <1>1, <1>7, <3>1
    <3> QED BY <1>1, <3>1, <3>2, TheDispatcher
  <2>3. Below(u)[f.i] \in Endpoints /\ u \in Hops(g)
    BY <1>1, <1>2, <2>2, Child, WayHops
  <2>4. b \in Frame /\ b.op = "await" /\ b.e = u /\ b.n = g /\ b.i = f.i
    BY <1>1 DEF Frame, Climbing
  <2>5. a \in Frame /\ a.op = "receive" /\ a.n = g /\ a.i = 1 /\ a.e = Below(u)[f.i]
    BY <1>1, <1>2, <2>3, EntryIs DEF Call, Frame, Climbing
  <2>0. c = <<a, b>>
    OBVIOUS
  <2> HIDE DEF a, b, c
  <2>6. Rises(b, g)
    BY <2>2, <2>3, <2>4 DEF Rises, Climbing
  <2> Descends(g, stack[g], a, b, c)
    BY <1>1, <2>0, <2>4, <2>5, <2>6 DEF Descends, f
  <2>7. /\ c \in Seq(Frame) /\ Line(c \o Tail(stack[g]), g)
        /\ \A x \in CallsIn(c) : x = a \/ x = b
        /\ \E k \in DOMAIN c : c[k] = b
    <3> Goes(g, stack[g], a, b, c)
      BY <1>2, Pushes
    <3> QED BY DEF Goes
  <2>8. /\ Climbed(g, f) /\ b \in CallsIn(stack'[g])
        /\ \A x \in CallsIn(stack'[g]) : x \in CallsIn(Tail(stack[g])) \/ x \in CallsIn(c)
    BY <1>1, <2>1, <2>7, GoClimbs DEF f
  <2>9. ASSUME NEW e \in Way(g), Arriving(stack, e, g) \/ Arrived(stack, result, e, g)
        PROVE  Covered(disposers, stack', result', e, g)
    <3>1. ~Arrived(stack, result, e, g)
      BY <1>1 DEF Arrived, Awaits, f
    <3>2. PICK x \in CallsIn(stack[g]) : x.op \in {"next", "await"} /\ x.e = e
      BY <2>9, <3>1 DEF Arriving
    <3>3. x \in CallsIn(stack'[g]) \/ (e = u /\ b \in CallsIn(stack'[g]))
      BY <2>8, <3>2 DEF Climbed
    <3> QED BY <2>4, <3>2, <3>3 DEF Covered, Arriving
  <2>10. \A x \in CallsIn(stack'[g]) : x.op = "await" /\ Kind[x.e] # "mount" => x \in CallsIn(stack[g])
    BY <1>1, <2>4, <2>5, <2>7, <2>8
  <2> QED BY <1>0, <1>1, <1>2, <2>1, <2>8, <2>9, <2>10, NothingClimbs
<1> QED BY <1>5, <1>6, <1>7
\* Who awaits, and which child.
LEMMA AwaitingCall ==
  ASSUME LayersInv, NEW g \in Gs, Doing(g, "await")
  PROVE  LET f == stack[g][1] IN
         /\ stack[g] # <<>> /\ stack[g] \in Seq(Frame) /\ Head(stack[g]) = f /\ f \in Frame /\ f.op = "await"
         /\ f.op \in Climbing /\ f.op # "detach" /\ f \in CallsIn(stack[g])
         /\ g \in Att /\ g \in Gs /\ g \in Apps \cup {Own} /\ f.n = g /\ g # Nobody
         /\ f.e \in Hops(g) /\ f.e \in Endpoints /\ f.i \in DOMAIN Below(f.e) /\ f.i \in Nat
         /\ Below(f.e)[f.i] \in Endpoints /\ Kind[f.e] \in {"through", "mount", "view", "dispatcher"}
         /\ f.e # Dispatcher => f.e \in Way(g) /\ Kind[f.e] # "dispatcher"
         /\ f.e = Dispatcher => g = Own /\ Tail(stack[g]) = <<>> /\ f.e \notin Way(g) /\ Kind[f.e] = "dispatcher"
         /\ Line(stack[g], g) /\ Line(Tail(stack[g]), g) /\ Tail(stack[g]) \in Seq(Frame)
         /\ \A x \in CallsIn(Tail(stack[g])) : x \in CallsIn(stack[g])
<1> DEFINE f == stack[g][1]
           u == f.e
<1>0. "await" \in Climbing
  BY DEF Climbing
<1>1. /\ stack[g] # <<>> /\ stack[g] \in Seq(Frame) /\ Head(stack[g]) = f /\ f \in Frame /\ f.op = "await"
      /\ f.op \in Climbing /\ f.op # "detach" /\ f \in CallsIn(stack[g])
      /\ g \in Att /\ g \in Apps \cup {Own} /\ f.n = g /\ g # Nobody
      /\ u \in Hops(g) /\ u \in Endpoints /\ f.i \in DOMAIN Below(u)
      /\ Line(stack[g], g) /\ Line(Tail(stack[g]), g) /\ Tail(stack[g]) \in Seq(Frame)
      /\ \A x \in CallsIn(Tail(stack[g])) : x \in CallsIn(stack[g])
  BY <1>0, ClimbingCall DEF Rises
<1>2. setting \in Surroundings
  BY DEF LayersInv
<1> HIDE DEF f
<1>3. Below(u)[f.i] \in Endpoints /\ f.i \in Nat
  BY <1>1, <1>2, Child
<1>4. Kind[u] \in {"through", "mount", "view", "dispatcher"}
  <2>1. Kind[u] \notin {"root", "exact", "prefix"}
    <3>1. Kind[u] \in {"root", "exact", "prefix"} => Below(u) = <<>>
      BY <1>1, <1>2, Composed
    <3> QED BY <1>1, <3>1
  <2> QED BY <1>1, <2>1, RoutingAssumption
<1>5. u # Dispatcher => u \in Way(g) /\ Kind[u] # "dispatcher"
  BY <1>1, TheDispatcher DEF Hops
<1>6. ASSUME u = Dispatcher
      PROVE  g = Own /\ Tail(stack[g]) = <<>> /\ u \notin Way(g) /\ Kind[u] = "dispatcher"
  <2>1. u \notin Way(g) /\ Kind[u] = "dispatcher"
    BY <1>1, <1>2, <1>6, WayKinds, TheDispatcher
  <2>2. g = Own
    BY <1>1, <1>6, <2>1 DEF Hops
  <2>3. Tail(stack[g]) = <<>>
    <3> SUFFICES ASSUME Tail(stack[g]) # <<>>
                 PROVE  FALSE
      OBVIOUS
    <3>0. Len(Tail(stack[g])) = Len(stack[g]) - 1 /\ Len(stack[g]) \in Nat \ {0} /\ 1 \in DOMAIN stack[g]
      BY <1>1, Rest
    <3>1. PICK T \in Seq(Frame) : T = Tail(stack[g])
      BY <1>1
    <3>2. Len(T) # 0 /\ Len(T) \in Nat
      BY <3>1
    <3>3. 1 # Len(stack[g]) /\ 2 \in DOMAIN stack[g]
      BY <1>1, <3>0, <3>1, <3>2
    <3>4. Awaits(stack[g][1 + 1], u)
      BY <1>1, <3>0, <3>3 DEF Line, Awaited, f
    <3>5. Rises(stack[g][2], g)
      BY <1>1, <3>3 DEF Line
    <3>6. 1 + 1 = 2
      OBVIOUS
    <3>7. /\ stack[g][2].e \in Hops(g) /\ stack[g][2].i \in DOMAIN Below(stack[g][2].e)
          /\ Below(stack[g][2].e)[stack[g][2].i] = u
      BY <3>4, <3>5, <3>6 DEF Rises, Awaits
    <3>8. Top(g) = u
      BY <1>6, <2>2 DEF Top
    <3> QED BY <1>1, <1>2, <3>7, <3>8, TopFirst
  <2> QED BY <2>1, <2>2, <2>3
<1> QED BY <1>1, <1>3, <1>4, <1>5, <1>6 DEF f

\* The Receive below succeeded while the claim stands.
LEMMA KeepsStep ==
  ASSUME LayersInv, NEW g \in Gs, NEW f, f = stack[g][1], Doing(g, "await"), result[g] = "ok", Stands(f),
         disposers' = disposers \cup {<<f.e, f.n, f.i>>},
         Go(g, IF Kind[f.e] = "mount" THEN <<[f EXCEPT !.op = "next", !.i = @ + 1]>> ELSE <<>>),
         UNCHANGED <<setting, current, shut, over, result>>
  PROVE  LayersNext
<1> DEFINE u == f.e
           i == f.i
           b == [f EXCEPT !.op = "next", !.i = @ + 1]
           c == IF Kind[f.e] = "mount" THEN <<b>> ELSE <<>>
           T == Tail(stack[g])
<1>1. /\ stack[g] # <<>> /\ f \in Frame /\ f.op = "await" /\ f.op \in Climbing /\ f.op # "detach"
      /\ g \in Att /\ g \in Gs /\ g \in Apps \cup {Own} /\ f.n = g /\ g # Nobody
      /\ u \in Hops(g) /\ u \in Endpoints /\ i \in DOMAIN Below(u) /\ i \in Nat
      /\ u # Dispatcher => u \in Way(g) /\ Kind[u] # "dispatcher"
      /\ u = Dispatcher => g = Own /\ T = <<>> /\ u \notin Way(g) /\ Kind[u] = "dispatcher"
      /\ Line(stack[g], g) /\ Line(T, g) /\ T \in Seq(Frame) /\ \A x \in CallsIn(T) : x \in CallsIn(stack[g])
  BY AwaitingCall
<1>2. /\ Shaped(current, shut, disposers, over, result) /\ Held(current) /\ setting \in Surroundings
      /\ Disposing(current, shut, disposers, stack, result) /\ Awaiting(disposers, stack)
  BY DEF LayersInv, EndpointsInv
<1>3. b \in Frame /\ b.op = "next" /\ b.e = u /\ b.n = g /\ b.i = i + 1 /\ b.i # 0
  <2>1. PICK j \in Nat : j = i + 1 /\ j # 0
    BY <1>1
  <2>2. PICK a \in Frame : a = [f EXCEPT !.op = "next"] /\ a.op = "next" /\ a.e = u /\ a.n = g /\ a.i = i
    <3>1. [f EXCEPT !.op = "next"] \in Frame
      BY <1>1 DEF Frame, Climbing
    <3> QED BY <1>1, <3>1 DEF Frame
  <2>3. b = [a EXCEPT !.i = j]
    BY <1>1, <2>1, <2>2 DEF Frame
  <2>4. [a EXCEPT !.i = j] \in Frame
    BY <2>1, <2>2 DEF Frame
  <2>5. [a EXCEPT !.i = j].op = a.op /\ [a EXCEPT !.i = j].e = a.e /\ [a EXCEPT !.i = j].n = a.n /\ [a EXCEPT !.i = j].i = j
    BY <2>1, <2>2 DEF Frame
  <2> HIDE DEF b
  <2> QED BY <2>1, <2>2, <2>3, <2>4, <2>5
<1>4. Kind[u] = "mount" => c = <<b>>
  OBVIOUS
<1>5. Kind[u] # "mount" => c = <<>>
  OBVIOUS
<1>6. Go(g, c) /\ \A h \in Gs : h # g => result'[h] = result[h]
  OBVIOUS
<1> HIDE DEF b, c
<1>7. ASSUME Kind[u] = "mount"
      PROVE  /\ c \in Seq(Frame) /\ Line(c \o T, g) /\ (\A x \in CallsIn(c) : x = b)
             /\ \E k \in DOMAIN c : c[k] = b
  <2>1. u # Dispatcher /\ Rises(b, g) /\ b.op \in Climbing
    BY <1>1, <1>3, <1>7 DEF Rises, Climbing
  <2>2. Line(<<b>> \o T, g)
    BY <1>1, <1>3, <2>1, LineGoesOn
  <2>3. c \in Seq(Frame) /\ \A k \in DOMAIN c : k = 1 /\ c[k] = b
    <3>1. <<b>> \in Seq(Frame) /\ \A k \in DOMAIN <<b>> : k = 1 /\ <<b>>[k] = b
      BY <1>3
    <3> QED BY <1>4, <1>7, <3>1
  <2>4. 1 \in DOMAIN c
    BY <1>4, <1>7
  <2>5. \A x \in CallsIn(c) : x = b
    BY <2>3 DEF CallsIn
  <2> QED BY <1>4, <1>7, <2>2, <2>3, <2>4, <2>5
<1>8. ASSUME Kind[u] # "mount"
      PROVE  c \in Seq(Frame) /\ c \o T = T /\ \A x \in CallsIn(c) : x = b
  <2>1. <<>> \o T = T
    BY <1>1, ConcatEmptySeq
  <2> QED BY <1>5, <1>8, <2>1, NoCalls
<1>9. c \in Seq(Frame) /\ Line(c \o T, g) /\ \A x \in CallsIn(c) : x = b
  BY <1>1, <1>7, <1>8
<1>10. /\ Climbed(g, f) /\ (\A k \in DOMAIN c : c[k] \in CallsIn(stack'[g])) /\ stack'[g] = c \o T
       /\ \A x \in CallsIn(stack'[g]) : x \in CallsIn(T) \/ x \in CallsIn(c)
  BY <1>1, <1>6, <1>9, GoClimbs
<1> HIDE DEF T
<1>11. Shaped(current', shut', disposers', over', result')
  <2>1. disposers' \subseteq Endpoints \X Att \X Nat
    <3>1. f.e \in Endpoints /\ f.n \in Att /\ f.i \in Nat
      BY <1>1
    <3>2. <<f.e, f.n, f.i>> \in Endpoints \X Att \X Nat
      BY <3>1
    <3>3. disposers \subseteq Endpoints \X Att \X Nat
      BY <1>2 DEF Shaped
    <3> QED BY <3>2, <3>3
  <2> QED BY <1>2, <2>1 DEF Shaped
<1>12. Held(current')
  BY <1>2
<1>13. Disposing(current', shut', disposers', stack', result')
  <2> SUFFICES ASSUME NEW v, NEW n, NEW j, <<v, n, j>> \in disposers'
               PROVE  /\ v \in Hops(n) /\ j \in DOMAIN Below(v)
                      /\ IF v = Dispatcher THEN v \notin shut /\ stack'[Own] = <<>> /\ result'[Own] = "ok"
                         ELSE current[v] = n
    BY DEF Disposing
  <2>1. CASE <<v, n, j>> \in disposers
    <3>1. /\ v \in Hops(n) /\ j \in DOMAIN Below(v)
          /\ IF v = Dispatcher THEN v \notin shut /\ stack[Own] = <<>> /\ result[Own] = "ok"
             ELSE current[v] = n
      BY <1>2, <2>1 DEF Disposing
    <3>2. v = Dispatcher => stack'[Own] = stack[Own]
      BY <1>1, <1>10, <3>1 DEF Climbed, Gs
    <3> QED BY <3>1, <3>2
  <2>2. CASE <<v, n, j>> \notin disposers
    <3>1. v = u /\ n = g /\ j = i
      BY <1>1, <2>2
    <3>2. v = Dispatcher => v \notin shut /\ stack'[Own] = <<>> /\ result'[Own] = "ok"
      <4> SUFFICES ASSUME u = Dispatcher
                   PROVE  u \notin shut /\ stack'[Own] = <<>> /\ result'[Own] = "ok"
        BY <3>1
      <4>1. c \o T = T /\ g = Own /\ T = <<>>
        BY <1>1, <1>8 DEF T
      <4> QED BY <1>10, <4>1 DEF Stands
    <3>3. v # Dispatcher => current[v] = n
      BY <1>1, <3>1 DEF Stands
    <3> QED BY <1>1, <3>1, <3>2, <3>3
  <2> QED BY <2>1, <2>2
<1>14. Awaiting(disposers', stack')
  <2> SUFFICES ASSUME NEW n \in Att, NEW x \in CallsIn(stack'[n]), x.op = "await", Kind[x.e] # "mount",
                      NEW j, <<x.e, n, j>> \in disposers'
               PROVE  FALSE
    BY DEF Awaiting
  <2>1. n \in Gs
    BY <1>2, EntryIs DEF Gs
  <2>2. x \in CallsIn(stack[n]) /\ (n = g => x \in CallsIn(T))
    BY <1>1, <1>3, <1>9, <1>10, <2>1 DEF Climbed, T
  <2>3. <<x.e, n, j>> \notin disposers
    BY <1>2, <2>2 DEF Awaiting
  <2>4. n = g /\ x.e = u
    BY <1>1, <2>3
  <2> QED BY <1>1, <2>2, <2>4, TopOnce DEF Climbing, T
<1>15. ASSUME NEW e \in Way(g), Arriving(stack, e, g) \/ Arrived(stack, result, e, g)
       PROVE  Covered(disposers', stack', result', e, g)
  <2>1. CASE Arrived(stack, result, e, g)
    <3>1. Below(u)[i] = e
      BY <1>1, <2>1 DEF Arrived, Awaits
    <3>2. <<u, g, i>> \in disposers'
      BY <1>1
    <3> QED BY <1>1, <3>1, <3>2 DEF Covered, Disposed
  <2>2. CASE Arriving(stack, e, g)
    <3>1. PICK x \in CallsIn(stack[g]) : x.op \in {"next", "await"} /\ x.e = e
      BY <2>2 DEF Arriving
    <3>2. CASE x \in CallsIn(stack'[g])
      BY <3>1, <3>2 DEF Covered, Arriving
    <3>3. CASE x \notin CallsIn(stack'[g])
      <4>1. e = u
        BY <1>10, <3>1, <3>3 DEF Climbed
      <4>2. CASE Kind[u] = "mount"
        <5>1. b \in CallsIn(stack'[g])
          BY <1>7, <1>10, <4>2
        <5> QED BY <1>3, <4>1, <5>1 DEF Covered, Arriving
      <4>3. CASE Kind[u] # "mount"
        <5>1. stack'[g] = Tail(stack[g]) /\ result'[g] = "ok"
          BY <1>8, <1>10, <4>3 DEF T
        <5>2. "await" \in Climbing /\ stack[g][1].e \in Way(g)
          BY <4>1 DEF Climbing
        <5>3. Arrived(stack', result', u, g)
          BY <5>1, <5>2, Returned
        <5> QED BY <4>1, <5>3 DEF Covered
      <4> QED BY <4>2, <4>3
    <3> QED BY <3>2, <3>3
  <2> QED BY <1>15, <2>1, <2>2
<1>16. \A e \in Way(g) : current'[e] = g /\
           (current[e] = g => Arriving(stack, e, g) \/ Arrived(stack, result, e, g)) =>
             Covered(disposers', stack', result', e, g)
  BY <1>15
<1> QED BY <1>1, <1>6, <1>10, <1>11, <1>12, <1>13, <1>14, <1>16, Climbs
\* The calls that undo it, before its own return.
Undone(n, late, undo, b, T, c) ==
  c \in Seq(Frame) /\ CallsIn(c) = CallsIn(late) \cup CallsIn(undo) \cup {b} /\ Line(c \o T, n)

LEMMA Regrouped ==
  ASSUME NEW d \in Seq(Frame), NEW b \in Frame, NEW T \in Seq(Frame)
  PROVE  (d \o <<b>>) \o T = d \o (<<b>> \o T)
<1>1. <<b>> \in Seq(Frame)
  OBVIOUS
<1> QED BY <1>1, ConcatAssociative

LEMMA UndoneCalls ==
  ASSUME NEW n, NEW late \in Seq(Frame), NEW undo \in Seq(Frame), NEW b \in Frame, NEW T \in Seq(Frame),
         \A x \in CallsIn(late) \cup CallsIn(undo) : x.op = "detach" /\ x.n = n, Line(<<b>> \o T, n),
         NEW c, c = (late \o undo) \o <<b>>
  PROVE  Undone(n, late, undo, b, T, c)
<1> DEFINE d == late \o undo
<1>1. d \in Seq(Frame) /\ CallsIn(d) = CallsIn(late) \cup CallsIn(undo)
  BY Concatenated
<1> HIDE DEF d
<1>2. \A k \in DOMAIN d : d[k].op = "detach" /\ d[k].n = n
  BY <1>1 DEF CallsIn
<1>3. <<b>> \in Seq(Frame) /\ CallsIn(<<b>>) = {b}
  <2>1. <<b>> \in Seq(Frame) /\ 1 \in DOMAIN <<b>> /\ \A k \in DOMAIN <<b>> : <<b>>[k] = b
    OBVIOUS
  <2> QED BY <2>1 DEF CallsIn
<1>4. PICK B \in Seq(Frame) : B = <<b>> /\ CallsIn(B) = {b}
  BY <1>3
<1>5. d \o B \in Seq(Frame) /\ CallsIn(d \o B) = CallsIn(d) \cup CallsIn(B)
  BY <1>1, Concatenated
<1>6. (d \o <<b>>) \o T = d \o (<<b>> \o T)
  BY <1>1, Regrouped
<1>7. Line(d \o (B \o T), n)
  BY <1>1, <1>2, <1>4, LineDetaches
<1>8. c = d \o B
  BY <1>4 DEF d
<1> QED BY <1>1, <1>4, <1>5, <1>6, <1>7, <1>8 DEF Undone

\* It failed, or came too late: what was made below is detached, a mount
\* detaches its other children, and the caller gets the failure.
LEMMA DropsStep ==
  ASSUME LayersInv, NEW g \in Gs, NEW f, f = stack[g][1], Doing(g, "await"), ~(result[g] = "ok" /\ Stands(f)),
         NEW late, late = IF result[g] = "ok" THEN <<Call("detach", Below(f.e)[f.i], f.n)>> ELSE <<>>,
         NEW undo, undo = IF Kind[f.e] = "mount" THEN <<Call("detach", f.e, f.n)>> ELSE <<>>,
         Go(g, late \o undo \o
               <<[f EXCEPT !.op = "return", !.returns = IF result[g] = "ok" THEN "closed" ELSE result[g]]>>),
         current' = IF Stands(f) /\ Kind[f.e] \in {"through", "view"}
                      THEN [current EXCEPT ![f.e] = Nobody] ELSE current,
         UNCHANGED <<setting, disposers, shut, over, result>>
  PROVE  LayersNext
<1> DEFINE u == f.e
           i == f.i
           o == IF result[g] = "ok" THEN "closed" ELSE result[g]
           b == [f EXCEPT !.op = "return", !.returns = o]
           d == late \o undo
           c == d \o <<b>>
           T == Tail(stack[g])
<1>1. /\ stack[g] # <<>> /\ f \in Frame /\ f.op = "await" /\ f.op \in Climbing /\ f.op # "detach"
      /\ g \in Att /\ g \in Gs /\ g \in Apps \cup {Own} /\ f.n = g /\ g # Nobody
      /\ u \in Hops(g) /\ u \in Endpoints /\ i \in DOMAIN Below(u) /\ i \in Nat /\ Below(u)[i] \in Endpoints
      /\ Kind[u] \in {"through", "mount", "view", "dispatcher"} /\ f \in CallsIn(stack[g])
      /\ u # Dispatcher => u \in Way(g) /\ Kind[u] # "dispatcher"
      /\ u = Dispatcher => g = Own /\ T = <<>> /\ u \notin Way(g) /\ Kind[u] = "dispatcher"
      /\ Line(stack[g], g) /\ Line(T, g) /\ T \in Seq(Frame) /\ \A x \in CallsIn(T) : x \in CallsIn(stack[g])
  BY AwaitingCall
<1>2. /\ Shaped(current, shut, disposers, over, result) /\ Held(current) /\ setting \in Surroundings
      /\ Disposing(current, shut, disposers, stack, result) /\ Awaiting(disposers, stack)
  BY DEF LayersInv, EndpointsInv
<1>3. o \in {"", "none", "closed", "exists", "detached"}
  <2>1. result[g] \in {"", "none", "ok", "closed", "exists", "detached"}
    BY <1>1, <1>2 DEF Shaped
  <2> QED BY <2>1
<1> HIDE DEF o
<1>4. b \in Frame /\ b.op = "return" /\ b.e = u /\ b.n = g
  <2>1. PICK a \in Frame : a = [f EXCEPT !.op = "return"] /\ a.op = "return" /\ a.e = u /\ a.n = g
    <3>1. [f EXCEPT !.op = "return"] \in Frame
      BY <1>1 DEF Frame, Climbing
    <3> QED BY <1>1, <3>1 DEF Frame
  <2>2. b = [a EXCEPT !.returns = o]
    BY <1>1, <2>1 DEF Frame
  <2>3. [a EXCEPT !.returns = o] \in Frame
    BY <1>3, <2>1 DEF Frame
  <2> QED BY <2>1, <2>2, <2>3 DEF Frame
<1> HIDE DEF b
<1>5. Line(<<b>> \o T, g)
  <2>1. Rises(b, g) /\ b.op \in Climbing
    BY <1>1, <1>4 DEF Rises, Climbing
  <2> QED BY <1>1, <1>4, <2>1, LineGoesOn
<1>6. ASSUME NEW e \in Endpoints
      PROVE  LET s == <<Call("detach", e, g)>> IN
             s \in Seq(Frame) /\ (\A x \in CallsIn(s) : x.op = "detach" /\ x.n = g)
             /\ \E x \in CallsIn(s) : x.op = "detach" /\ x.e = e /\ x.n = g
  <2> DEFINE x == Call("detach", e, g)
  <2>1. x \in Frame /\ x.op = "detach" /\ x.e = e /\ x.n = g
    BY <1>1 DEF Call, Frame
  <2> HIDE DEF x
  <2>2. <<x>> \in Seq(Frame) /\ 1 \in DOMAIN <<x>> /\ \A k \in DOMAIN <<x>> : <<x>>[k] = x
    BY <2>1
  <2>3. CallsIn(<<x>>) = {x}
    BY <2>2 DEF CallsIn
  <2> QED BY <2>1, <2>2, <2>3 DEF x
<1>7. /\ late \in Seq(Frame) /\ (\A x \in CallsIn(late) : x.op = "detach" /\ x.n = g)
      /\ result[g] = "ok" => \E x \in CallsIn(late) : x.op = "detach" /\ x.e = Below(u)[i] /\ x.n = g
  <2>1. CASE result[g] = "ok"
    <3>1. late = <<Call("detach", Below(u)[i], g)>>
      BY <1>1, <2>1
    <3> QED BY <1>1, <1>6, <3>1, SMTT(30)
  <2>2. CASE result[g] # "ok"
    <3>1. late = <<>>
      BY <2>2
    <3> QED BY <2>2, <3>1, NoCalls
  <2> QED BY <2>1, <2>2
<1>8. /\ undo \in Seq(Frame) /\ (\A x \in CallsIn(undo) : x.op = "detach" /\ x.n = g)
      /\ Kind[u] = "mount" => \E x \in CallsIn(undo) : x.op = "detach" /\ x.e = u /\ x.n = g
  <2>1. CASE Kind[u] = "mount"
    <3>1. undo = <<Call("detach", u, g)>>
      BY <1>1, <2>1
    <3> QED BY <1>1, <1>6, <3>1, SMTT(30)
  <2>2. CASE Kind[u] # "mount"
    <3>1. undo = <<>>
      BY <2>2
    <3> QED BY <2>2, <3>1, NoCalls
  <2> QED BY <2>1, <2>2
<1>9. \A x \in CallsIn(late) \cup CallsIn(undo) : x.op = "detach" /\ x.n = g
  BY <1>7, <1>8
<1>10. c = (late \o undo) \o <<b>>
  OBVIOUS
<1>15. Go(g, c)
  BY DEF b, o
<1> HIDE DEF c, d
<1>12. Undone(g, late, undo, b, T, c)
  <2> HIDE DEF T
  <2>1. late \in Seq(Frame) /\ undo \in Seq(Frame) /\ b \in Frame /\ T \in Seq(Frame) /\ Line(<<b>> \o T, g)
    BY <1>1, <1>4, <1>5, <1>7, <1>8
  <2> QED BY <1>9, <1>10, <2>1, UndoneCalls, Zenon
<1>13. c \in Seq(Frame) /\ CallsIn(c) = CallsIn(late) \cup CallsIn(undo) \cup {b} /\ Line(c \o T, g)
  BY <1>12 DEF Undone
<1>16. /\ Climbed(g, f) /\ (\A x \in CallsIn(c) : x \in CallsIn(stack'[g]))
       /\ \A x \in CallsIn(stack'[g]) : x \in CallsIn(T) \/ x \in CallsIn(c)
  <2>1. /\ Climbed(g, f) /\ (\A k \in DOMAIN c : c[k] \in CallsIn(stack'[g]))
        /\ \A x \in CallsIn(stack'[g]) : x \in CallsIn(T) \/ x \in CallsIn(c)
    BY <1>1, <1>13, <1>15, GoClimbs
  <2> QED BY <2>1 DEF CallsIn
<1> HIDE DEF T
<1>17. \A x \in CallsIn(c) : x.op # "await"
  BY <1>4, <1>9, <1>13
<1>18. /\ current' \in [Endpoints -> Apps \cup {Own, Nobody}]
       /\ \A q \in Endpoints : current'[q] = current[q] \/
            (q = u /\ current[q] = g /\ current'[q] = Nobody /\ Kind[u] \in {"through", "view"})
       /\ Stands(f) /\ Kind[u] \in {"through", "view"} => current'[u] = Nobody
  <2>1. CASE Stands(f) /\ Kind[u] \in {"through", "view"}
    <3>1. current[u] = g
      BY <1>1, <2>1, TheDispatcher DEF Stands
    <3>2. current' = [current EXCEPT ![u] = Nobody]
      BY <2>1
    <3> QED BY <1>1, <1>2, <2>1, <3>1, <3>2 DEF Shaped
  <2>2. CASE ~(Stands(f) /\ Kind[u] \in {"through", "view"})
    <3>1. current' = current
      BY <2>2
    <3> QED BY <1>2, <2>2, <3>1 DEF Shaped
  <2> QED BY <2>1, <2>2
<1>19. Shaped(current', shut', disposers', over', result')
  BY <1>2, <1>18 DEF Shaped
<1>20. Held(current')
  BY <1>2, <1>18 DEF Held
<1>21. Disposing(current', shut', disposers', stack', result')
  <2> SUFFICES ASSUME NEW v, NEW n, NEW j, <<v, n, j>> \in disposers
               PROVE  /\ v \in Hops(n) /\ j \in DOMAIN Below(v)
                      /\ IF v = Dispatcher THEN v \notin shut /\ stack'[Own] = <<>> /\ result'[Own] = "ok"
                         ELSE current'[v] = n
    BY DEF Disposing
  <2>1. /\ v \in Hops(n) /\ j \in DOMAIN Below(v)
        /\ IF v = Dispatcher THEN v \notin shut /\ stack[Own] = <<>> /\ result[Own] = "ok"
           ELSE current[v] = n
    BY <1>2 DEF Disposing
  <2>2. v = Dispatcher => stack'[Own] = stack[Own]
    BY <1>1, <1>16, <2>1 DEF Climbed, Gs
  <2>3. ASSUME v # Dispatcher
        PROVE  current'[v] = n
    <3>1. v \in Endpoints
      BY <1>2 DEF Shaped
    <3> SUFFICES ASSUME current'[v] # n
                 PROVE  FALSE
      OBVIOUS
    <3>2. v = u /\ n = g /\ Kind[u] # "mount"
      BY <1>18, <2>1, <2>3, <3>1
    <3> QED BY <1>1, <1>2, <3>2 DEF Awaiting
  <2> QED BY <2>1, <2>2, <2>3
<1>22. Awaiting(disposers', stack')
  <2> SUFFICES ASSUME NEW n \in Att, NEW x \in CallsIn(stack'[n]), x.op = "await", Kind[x.e] # "mount", NEW j
               PROVE  <<x.e, n, j>> \notin disposers
    BY DEF Awaiting
  <2>1. n \in Gs
    BY <1>2, EntryIs DEF Gs
  <2>2. x \in CallsIn(stack[n])
    BY <1>1, <1>16, <1>17, <2>1 DEF Climbed, T
  <2> QED BY <1>2, <2>2 DEF Awaiting
<1>23. ASSUME NEW e \in Way(g), current'[e] = g, current[e] = g,
              Arriving(stack, e, g) \/ Arrived(stack, result, e, g)
       PROVE  Covered(disposers', stack', result', e, g)
  <2>1. CASE Arrived(stack, result, e, g)
    <3>1. Below(u)[i] = e /\ result[g] = "ok"
      BY <1>1, <2>1 DEF Arrived, Awaits
    <3>2. PICK x \in CallsIn(late) : x.op = "detach" /\ x.e = e /\ x.n = g
      BY <1>7, <3>1
    <3>3. x \in CallsIn(stack'[g])
      BY <1>13, <1>16
    <3> QED BY <1>1, <3>2, <3>3 DEF Covered, Leaving
  <2>2. CASE Arriving(stack, e, g)
    <3>1. PICK x \in CallsIn(stack[g]) : x.op \in {"next", "await"} /\ x.e = e
      BY <2>2 DEF Arriving
    <3>2. CASE x \in CallsIn(stack'[g])
      BY <3>1, <3>2 DEF Covered, Arriving
    <3>3. CASE x \notin CallsIn(stack'[g])
      <4>1. e = u
        BY <1>16, <3>1, <3>3 DEF Climbed
      <4>2. u # Dispatcher
        BY <1>1, <4>1
      <4>3. CASE Kind[u] = "mount"
        <5>1. PICK y \in CallsIn(undo) : y.op = "detach" /\ y.e = e /\ y.n = g
          BY <1>8, <4>1, <4>3
        <5>2. y \in CallsIn(stack'[g])
          BY <1>13, <1>16
        <5> QED BY <1>1, <5>1, <5>2 DEF Covered, Leaving
      <4>4. CASE Kind[u] # "mount"
        <5>1. Kind[u] \in {"through", "view"}
          BY <1>1, <4>2, <4>4
        <5>2. <<u, g, i>> \notin over
          BY <1>2, <4>4 DEF Shaped
        <5>3. Stands(f)
          BY <1>1, <1>23, <4>1, <4>2, <5>2 DEF Stands
        <5> QED BY <1>1, <1>18, <1>23, <4>1, <4>2, <5>1, <5>3
      <4> QED BY <4>3, <4>4
    <3> QED BY <3>2, <3>3
  <2> QED BY <1>23, <2>1, <2>2
<1>24. ASSUME NEW e \in Way(g), current'[e] = g,
              current[e] = g => Arriving(stack, e, g) \/ Arrived(stack, result, e, g)
       PROVE  Covered(disposers', stack', result', e, g)
  <2>1. e \in Endpoints
    BY <1>1, <1>2, WayKinds
  <2>2. current[e] = g
    BY <1>1, <1>18, <1>24, <2>1
  <2> QED BY <1>23, <1>24, <2>2
<1>25. /\ \A q \in Endpoints : current'[q] = current[q] \/ current'[q] = g \/ (current[q] = g /\ current'[q] = Nobody)
       /\ \A h \in Gs : h # g => result'[h] = result[h]
  BY <1>18
<1> QED BY <1>1, <1>16, <1>19, <1>20, <1>21, <1>22, <1>24, <1>25, Climbs

LEMMA ReceivedStep ==
  ASSUME LayersInv, NEW g \in Gs, Received(g), UNCHANGED setting
  PROVE  LayersNext
<1>1. PICK f : f = stack[g][1] /\ Head(stack[g]) = f
  BY AwaitingCall DEF Received
<1>2. Doing(g, "await") /\ UNCHANGED <<shut, over, result>>
  BY DEF Received
<1>3. CASE result[g] = "ok" /\ Stands(f)
  BY <1>1, <1>2, <1>3, KeepsStep DEF Received
<1>4. CASE ~(result[g] = "ok" /\ Stands(f))
  BY <1>1, <1>2, <1>4, DropsStep DEF Received
<1> QED BY <1>3, <1>4
-----------------------------------------------------------------------------
(* Of every behaviour.                                                     *)

LEMMA LayeringStep ==
  ASSUME LayersInv, Layering
  PROVE  LayersInv'
<1>1. UNCHANGED setting
  BY DEF Layering
<1>2. DOMAIN stack = Gs
  BY DEF LayersInv, EndpointsInv, Stacked
<1>3. CASE NewDispatcher
  BY <1>1, <1>3, NewDispatcherStep, LayersCarry
<1>4. ASSUME NEW n \in Apps, Attach(n)
      PROVE  LayersInv'
  BY <1>1, <1>4, AttachStep, LayersCarry
<1>5. ASSUME NEW n \in Apps, DetachApp(n)
      PROVE  LayersInv'
  BY <1>1, <1>5, DetachAppStep, LayersCarry
<1>6. ASSUME NEW e \in Endpoints, Close(e)
      PROVE  LayersInv'
  BY <1>1, <1>6, CloseStep, LayersCarry
<1>7. ASSUME NEW g \in Gs, Step(g)
      PROVE  LayersInv'
  <2>1. CASE Receive(g)
    BY <1>1, <2>1, ReceiveStep, LayersCarry
  <2>2. CASE NextChild(g)
    BY <1>1, <2>2, NextChildStep, LayersCarry
  <2>3. CASE Received(g)
    BY <1>1, <2>3, ReceivedStep, LayersCarry
  <2>4. CASE Return(g)
    BY <1>1, <2>4, ReturnStep, LayersCarry
  <2>5. CASE Detach(g)
    BY <1>1, <2>5, DetachStep, LayersCarry
  <2>6. CASE OriginEnds(g)
    BY <1>1, <2>6, OriginEndsStep, LayersCarry
  <2>7. CASE RouteEnds(g)
    BY <1>1, <2>7, RouteEndsStep, LayersCarry
  <2>8. CASE ChildEnds(g)
    BY <1>1, <2>8, ChildEndsStep, LayersCarry
  <2>9. CASE CloseLayer(g)
    BY <1>1, <2>9, CloseLayerStep, LayersCarry
  <2>10. CASE CloseView(g)
    BY <1>1, <2>10, CloseViewStep, LayersCarry
  <2>11. CASE CloseDispatcher(g)
    BY <1>1, <2>11, CloseDispatcherStep, LayersCarry
  <2>12. CASE CloseRoot(g)
    BY <1>1, <2>12, CloseRootStep, LayersCarry
  <2>13. CASE Tell(g)
    BY <1>1, <2>13, TellStep, LayersCarry
  <2> QED
    BY <1>7, <2>1, <2>2, <2>3, <2>4, <2>5, <2>6, <2>7, <2>8, <2>9, <2>10, <2>11, <2>12, <2>13 DEF Step
<1> QED BY <1>2, <1>3, <1>4, <1>5, <1>6, <1>7 DEF Layering

LEMMA OtherSteps ==
  ASSUME LayersInv, UNCHANGED <<setting, layerVars>>
  PROVE  LayersInv'
<1>1. LayersNext
  BY DEF LayersInv, LayersNext, layerVars
<1> QED BY <1>1, LayersCarry

LEMMA LayersStep == LayersInv /\ [RouteNext]_allVars => LayersInv'
<1> SUFFICES ASSUME LayersInv, [RouteNext]_allVars
             PROVE  LayersInv'
  OBVIOUS
<1>1. CASE Layering
  BY <1>1, LayeringStep
<1>2. CASE Requesting \/ Cancel
  <2>1. UNCHANGED <<setting, layerVars>>
    BY <1>2, Zenon DEF Requesting, Start, Dispatch, CaptureRoute, Give, ReadyRoute, Cancel
  <2> QED BY <2>1, OtherSteps
<1>3. CASE Lifecycle(Settles \/ DeliveryEnds \/ (Alone /\ Participating))
  BY <1>3, OtherSteps DEF Lifecycle
<1>4. ASSUME NEW i \in 0 .. Captures, Lifecycle(Idle(i)) \/ \E k \in Slots : ~Alone /\ PushControl(i, k)
      PROVE  LayersInv'
  <2>1. UNCHANGED <<setting, layerVars>>
    BY <1>4, Zenon DEF Lifecycle, PushControl
  <2> QED BY <2>1, OtherSteps
<1>5. CASE UNCHANGED allVars
  BY <1>5, OtherSteps DEF allVars
<1> QED BY <1>1, <1>2, <1>3, <1>4, <1>5 DEF RouteNext

LEMMA LayersInit == RouteInit => LayersInv
<1> SUFFICES ASSUME RouteInit
             PROVE  LayersInv
  OBVIOUS
<1>1. /\ setting \in Surroundings /\ current = [p \in Endpoints |-> Nobody] /\ shut = {} /\ disposers = {} /\ over = {}
      /\ stack = [g \in Gs |-> <<>>] /\ result = [g \in Gs |-> "none"]
  BY DEF RouteInit, Gs
<1>2. Shaped(current, shut, disposers, over, result)
  BY <1>1 DEF Shaped, Gs
<1>3. <<>> \in Seq(Frame) /\ \A k \in DOMAIN <<>> : FALSE
  OBVIOUS
<1>4. \A n : Line(<<>>, n)
  BY <1>3 DEF Line, Awaited, Distinct
<1>5. \A g \in Gs : stack[g] = <<>>
  BY <1>1
<1>6. stack \in [Gs -> Seq(Frame)]
  BY <1>1, <1>3
<1>7. Stacked(stack)
  BY <1>3, <1>4, <1>5, <1>6 DEF Stacked, Gs
<1>8. \A p \in Endpoints : current[p] = Nobody
  BY <1>1
<1>9. Held(current) /\ Disposing(current, shut, disposers, stack, result) /\ Awaiting(disposers, stack)
  BY <1>1, <1>8 DEF Held, Disposing, Awaiting
<1>10. Keeping(current, disposers, stack, result)
  <2> SUFFICES ASSUME NEW n \in Att, NEW e \in Way(n)
               PROVE  current[e] # n
    BY DEF Keeping
  <2>1. e \in Endpoints /\ n # Nobody
    BY <1>1, WayKinds, EntryIs, TheDispatcher
  <2> QED BY <1>8, <2>1
<1> QED BY <1>1, <1>2, <1>7, <1>9, <1>10 DEF LayersInv, EndpointsInv

\* When nobody is in a call that concerns it, an attachment is the application's
\* own or its detach function is kept by the one layer above.
LEMMA LayersHold == LayersInv => NothingHeldInVain
<1> SUFFICES ASSUME LayersInv, NEW e \in Endpoints, current[e] # Nobody, Quiet(current[e])
             PROVE  LET n == current[e] IN
                    IF e = Entry(n)
                      THEN result[n] = "ok" /\ (n = Own => Dispatcher \notin shut /\ <<Dispatcher, n, 1>> \in disposers)
                      ELSE \E u \in Layers : \E i \in DOMAIN Below(u) :
                             Below(u)[i] = e /\ current[u] = n /\ <<u, n, i>> \in disposers
  BY DEF NothingHeldInVain
<1>1. PICK n : n = current[e]
  OBVIOUS
<1>2. /\ setting \in Surroundings /\ n \in Att /\ e \in Way(n) /\ n \in Apps \cup {Own}
      /\ Disposing(current, shut, disposers, stack, result) /\ Stacked(stack)
  BY <1>1, EntryIs DEF LayersInv, EndpointsInv, Held
<1>3. \A g \in Gs : \A x \in CallsIn(stack[g]) : x.n # n
  BY <1>1, <1>2 DEF Quiet, Stacked, CallsIn
<1>4. stack[n] = <<>>
  <2> SUFFICES ASSUME stack[n] # <<>>
               PROVE  FALSE
    OBVIOUS
  <2>1. n \in Gs
    BY <1>2 DEF Gs
  <2>2. stack[n][1] \in CallsIn(stack[n]) /\ Rises(stack[n][1], n)
    BY <1>2, <2>1, Whose
  <2> QED BY <1>3, <2>1, <2>2 DEF Rises
<1>5. Covered(disposers, stack, result, e, n)
  BY <1>1, <1>2 DEF LayersInv, EndpointsInv, Keeping
<1>6. ~Leaving(stack, e, n)
  BY <1>3 DEF Leaving
<1>7. ~Arriving(stack, e, n)
  BY <1>4 DEF Arriving, CallsIn
<1>8. CASE Arrived(stack, result, e, n)
  BY <1>1, <1>2, <1>4, <1>8 DEF Arrived
<1>9. CASE Disposed(disposers, e, n)
  <2>1. PICK u \in Endpoints : \E i \in DOMAIN Below(u) : <<u, n, i>> \in disposers /\ Below(u)[i] = e
    BY <1>9 DEF Disposed
  <2>2. PICK i \in DOMAIN Below(u) : <<u, n, i>> \in disposers /\ Below(u)[i] = e
    BY <2>1
  <2>3. /\ u \in Hops(n)
        /\ IF u = Dispatcher THEN u \notin shut /\ stack[Own] = <<>> /\ result[Own] = "ok" ELSE current[u] = n
    BY <1>2, <2>2 DEF Disposing
  <2>4. CASE u = Dispatcher
    <3>1. n = Own
      <4>1. u \notin Way(n)
        BY <1>2, <2>4, WayKinds
      <4> QED BY <2>3, <4>1 DEF Hops
    <3>2. 1 \in DOMAIN Below(Dispatcher) /\ Entry(n) = Below(Dispatcher)[1]
      BY <1>2, <3>1, EntryIs
    <3>3. i = 1
      <4>1. PICK b \in Seq(Endpoints) : b = Below(Dispatcher) /\ Len(b) <= 1
        BY <1>2, TheDispatcher, Composed
      <4> QED BY <2>2, <2>4, <4>1
    <3> QED BY <1>1, <2>2, <2>3, <2>4, <3>1, <3>2, <3>3
  <2>5. CASE u # Dispatcher
    <3>1. e # Entry(n)
      <4>1. CASE n = Own
        <5>1. /\ 1 \in DOMAIN Below(Dispatcher) /\ Entry(n) = Below(Dispatcher)[1] /\ Dispatcher \in Hops(n)
          BY <1>2, <4>1, EntryIs, TheDispatcher DEF Hops
        <5> QED BY <1>2, <2>2, <2>3, <2>5, <5>1, HopsApart
      <4>2. CASE n # Own
        BY <1>2, <2>2, <2>3, <4>2, TopFirst DEF Top
      <4> QED BY <4>1, <4>2
    <3>2. Kind[u] \notin {"root", "exact", "prefix"}
      <4>1. Kind[u] \in {"root", "exact", "prefix"} => Below(u) = <<>>
        BY <1>2, Composed
      <4> QED BY <2>2, <4>1
    <3>3. u \in Layers
      BY <2>5, <3>2, TheDispatcher, RoutingAssumption DEF Layers
    <3> QED BY <1>1, <2>2, <2>3, <2>5, <3>1, <3>3
  <2> QED BY <2>4, <2>5
<1> QED BY <1>5, <1>6, <1>7, <1>8, <1>9 DEF Covered

LEMMA LayersAlways == RouteSpec => []LayersInv
BY LayersInit, LayersStep, PTL DEF RouteSpec

\* Whatever Receive, detach, Closed and Close race each other through however
\* many Through, Mount, Dispatcher and Select endpoints, in every composition:
\* when the calls about an attachment have returned, no endpoint has it that
\* nobody above will detach. A Receive that failed, or whose claim was lost
\* while it was below, leaves nothing behind.
THEOREM RoutingHoldsNothingInVain == RouteSpec => []NothingHeldInVain
BY LayersAlways, LayersHold, PTL
-----------------------------------------------------------------------------
(* The request.  An attachment that is gone, which nobody has and no call  *)
(* concerns, stays away.                                                    *)

Free(c, m) == c \in Seq(CallsIn(c)) /\ \A x \in CallsIn(c) : x.n # m
Gone(m) ==
  /\ m \in Apps /\ result[m] = "detached"
  /\ \A p \in Endpoints : current[p] # m
  /\ \A g \in Gs : Free(stack[g], m)

LEMMA FreeOf ==
  ASSUME NEW F, NEW c \in Seq(F), NEW m, \A k \in DOMAIN c : c[k].n # m
  PROVE  Free(c, m)
<1>1. \A x \in CallsIn(c) : x.n # m
  BY DEF CallsIn
<1>2. \A k \in DOMAIN c : c[k] \in CallsIn(c)
  BY DEF CallsIn
<1>3. c \in Seq(CallsIn(c))
  <2> DEFINE V == CallsIn(c)
  <2> HIDE DEF V
  <2>1. \A k \in 1 .. Len(c) : c[k] \in V
    BY <1>2 DEF V
  <2>2. Len(c) \in Nat /\ c = [k \in 1 .. Len(c) |-> c[k]]
    OBVIOUS
  <2>3. c \in Seq(V)
    BY <2>1, <2>2
  <2> QED BY <2>3 DEF V
<1> QED BY <1>1, <1>3 DEF Free

LEMMA FreeNone ==
  ASSUME NEW m
  PROVE  Free(<<>>, m)
<1>1. <<>> \in Seq({}) /\ \A k \in DOMAIN <<>> : <<>>[k].n # m
  OBVIOUS
<1> QED BY <1>1, FreeOf

LEMMA FreeOne ==
  ASSUME NEW m, NEW x, x.n # m
  PROVE  Free(<<x>>, m)
<1>1. <<x>> \in Seq({x}) /\ \A k \in DOMAIN <<x>> : <<x>>[k].n # m
  OBVIOUS
<1> QED BY <1>1, FreeOf

LEMMA FreeTwo ==
  ASSUME NEW m, NEW x, NEW y, x.n # m, y.n # m
  PROVE  Free(<<x, y>>, m)
<1>1. <<x, y>> \in Seq({x, y}) /\ \A k \in DOMAIN <<x, y>> : <<x, y>>[k].n # m
  OBVIOUS
<1> QED BY <1>1, FreeOf

\* A call of n concerns nobody else.
LEMMA FreeCall ==
  ASSUME NEW m, NEW op, NEW e, NEW n, n # m
  PROVE  Free(<<Call(op, e, n)>>, m)
<1>1. Call(op, e, n).n # m
  BY DEF Call
<1> DEFINE x == Call(op, e, n)
<1> HIDE DEF x
<1>2. Free(<<x>>, m)
  BY <1>1, FreeOne DEF x
<1> QED BY <1>2 DEF x

LEMMA FreeBoth ==
  ASSUME NEW m, NEW a, NEW b, Free(a, m), Free(b, m)
  PROVE  Free(a \o b, m)
<1> DEFINE F == CallsIn(a) \cup CallsIn(b)
<1>1. \A x \in F : x.n # m
  BY DEF Free
<1>2. a \in Seq(F) /\ b \in Seq(F)
  <2>1. CallsIn(a) \subseteq F /\ CallsIn(b) \subseteq F /\ a \in Seq(CallsIn(a)) /\ b \in Seq(CallsIn(b))
    BY DEF Free
  <2> HIDE DEF F
  <2> QED BY <2>1
<1> HIDE DEF F
<1>3. a \o b \in Seq(F)
  BY <1>2, Concatenated
<1>4. \A k \in DOMAIN (a \o b) : (a \o b)[k] \in F
  BY <1>3
<1> QED BY <1>1, <1>3, <1>4, FreeOf

LEMMA FreeTail ==
  ASSUME NEW m, NEW S, Free(S, m), S # <<>>
  PROVE  Free(Tail(S), m) /\ Head(S).n # m
<1>1. PICK F : S \in Seq(F) /\ \A x \in F : x.n # m
  BY DEF Free
<1>2. Tail(S) \in Seq(F) /\ Head(S) \in F
  BY <1>1
<1>3. \A k \in DOMAIN Tail(S) : Tail(S)[k] \in F
  BY <1>2
<1> QED BY <1>1, <1>2, <1>3, FreeOf

LEMMA FreeDetaches ==
  ASSUME LayersInv, NEW e \in Endpoints, NEW n \in Apps \cup {Own, Nobody}, NEW m, n # m
  PROVE  Free(Detaches(e, n), m)
<1>1. Detaches(e, n) \in Seq(Frame) /\ \A k \in DOMAIN Detaches(e, n) : Detaches(e, n)[k].n = n
  BY DetachFacts
<1> QED BY <1>1, FreeOf

LEMMA ClosedIsOf ==
  ASSUME NEW n, NEW e
  PROVE  ClosedOf(e, n).n = n
BY DEF ClosedOf, Call

\* Whoever is gone is in no call, and nobody else's steps concern it.
LEMMA GoneIdle ==
  ASSUME LayersInv, NEW m, Gone(m)
  PROVE  /\ stack[m] = <<>> /\ m \in Gs /\ m \notin {Own, Nobody} /\ m \notin Endpoints
         /\ \A g \in Gs : stack[g] # <<>> =>
              g # m /\ Head(stack[g]) \in Frame /\ Head(stack[g]).n # m /\ Free(Tail(stack[g]), m)
<1>1. m \in Apps /\ m \in Gs /\ m \notin {Own, Nobody} /\ m \notin Endpoints
  BY TheDispatcher DEF Gone, Gs
<1>2. stack[m] = <<>>
  <2> SUFFICES ASSUME stack[m] # <<>>
               PROVE  FALSE
    OBVIOUS
  <2>1. stack[m][1].n = m /\ stack[m][1] \in CallsIn(stack[m])
    BY <1>1, Whose DEF Rises
  <2> QED BY <1>1, <2>1 DEF Gone, Free
<1>3. ASSUME NEW g \in Gs, stack[g] # <<>>
      PROVE  Head(stack[g]) \in Frame /\ Head(stack[g]).n # m /\ Free(Tail(stack[g]), m)
  BY <1>3, Whose, FreeTail DEF Gone
<1> QED BY <1>1, <1>2, <1>3

\* A step of goroutine g, to calls that do not concern it either.
LEMMA GoneMoves ==
  ASSUME LayersInv, NEW m, Gone(m), NEW g \in Gs, stack[g] # <<>>, NEW c, Free(c, m), Go(g, c),
         UNCHANGED result \/ \E r : result' = [result EXCEPT ![g] = r],
         \A p \in Endpoints : current'[p] # m
  PROVE  Gone(m)'
<1>1. g # m /\ m \in Gs /\ Free(Tail(stack[g]), m)
  BY GoneIdle
<1>2. stack \in [Gs -> Seq(Frame)] /\ result \in [Gs -> {"", "none", "ok", "closed", "exists", "detached"}]
  BY DEF LayersInv, EndpointsInv, Stacked, Shaped
<1>3. result'[m] = result[m]
  BY <1>1, <1>2
<1>4. Free(c \o Tail(stack[g]), m)
  BY <1>1, FreeBoth
<1>5. \A h \in Gs : stack'[h] = IF h = g THEN c \o Tail(stack[g]) ELSE stack[h]
  BY <1>2 DEF Go
<1>6. \A h \in Gs : Free(stack'[h], m)
  BY <1>4, <1>5 DEF Gone
<1> QED BY <1>3, <1>6 DEF Gone, Free, CallsIn

LEMMA GoneGivenUp ==
  ASSUME LayersInv, NEW m, Gone(m), NEW q, NEW v, v # m, current' = [current EXCEPT ![q] = v]
  PROVE  \A p \in Endpoints : current'[p] # m
<1>1. PICK cur \in [Endpoints -> Apps \cup {Own, Nobody}] : cur = current
  BY DEF LayersInv, EndpointsInv, Shaped
<1>2. \A p \in Endpoints : current'[p] = IF p = q THEN v ELSE cur[p]
  BY <1>1
<1> QED BY <1>1, <1>2 DEF Gone
\* The steps of Receive.
LEMMA GoneAttaching ==
  ASSUME LayersInv, NEW m, Gone(m), NEW g \in Gs, Receive(g) \/ NextChild(g) \/ Received(g) \/ Return(g)
  PROVE  Gone(m)'
<1> DEFINE f == Head(stack[g])
<1>1. stack[g] # <<>>
  BY DEF Receive, NextChild, Received, Return, Doing
<1>2. f \in Frame /\ f.n # m
  BY <1>1, GoneIdle
<1> HIDE DEF f
<1>3. \A p \in Endpoints : current[p] # m
  BY DEF Gone
<1>4. Nobody # m
  BY GoneIdle
<1>5. Free(<<>>, m)
  BY FreeNone
<1>6. ASSUME NEW r, Back(g, r), \A p \in Endpoints : current'[p] # m
      PROVE  Gone(m)'
  BY <1>1, <1>5, <1>6, GoneMoves DEF Back
<1>7. ASSUME NEW c, Free(c, m), Go(g, c), UNCHANGED result, \A p \in Endpoints : current'[p] # m
      PROVE  Gone(m)'
  BY <1>1, <1>7, GoneMoves
<1>8. [f EXCEPT !.op = "await"].n = f.n /\ [f EXCEPT !.op = "next"].n = f.n
        /\ [f EXCEPT !.op = "next", !.i = @ + 1].n = f.n /\ \A r : [f EXCEPT !.op = "return", !.returns = r].n = f.n
  BY <1>2 DEF Frame
<1> DEFINE waits == [f EXCEPT !.op = "await"]
           next == [f EXCEPT !.op = "next"]
           below(i) == Call("receive", Below(f.e)[i], f.n)
<1>9. \A i : Free(<<below(i), waits>>, m)
  <2> SUFFICES ASSUME NEW i
               PROVE  Free(<<below(i), waits>>, m)
    OBVIOUS
  <2>1. below(i).n # m /\ waits.n # m
    BY <1>2, <1>8 DEF Call
  <2> HIDE DEF below, waits
  <2> QED BY <2>1, FreeTwo
<1>n. Free(<<next>>, m)
  <2>1. next.n # m
    BY <1>2, <1>8
  <2> HIDE DEF next
  <2> QED BY <2>1, FreeOne
<1>10. CASE Receive(g)
  <2>1. CASE Closed(f.e) \/ current[f.e] # Nobody
    <3>1. UNCHANGED current /\ \E r : Back(g, r)
      BY <1>10, <2>1 DEF Receive, f
    <3> QED BY <1>3, <1>6, <3>1
  <2>2. CASE ~(Closed(f.e) \/ current[f.e] # Nobody)
    <3>1. current' = [current EXCEPT ![f.e] = f.n]
      BY <1>10, <2>2 DEF Receive, f
    <3>2. \A p \in Endpoints : current'[p] # m
      BY <1>2, <3>1, GoneGivenUp
    <3>3. \/ Back(g, "ok")
          \/ Go(g, <<below(1), waits>>) /\ UNCHANGED result
          \/ Go(g, <<next>>) /\ UNCHANGED result
      <4>1. Kind[f.e] \in {"root", "exact", "prefix", "through", "mount", "view"}
        <5>1. Doing(g, "receive") /\ "receive" \in Climbing
          BY <1>10 DEF Receive, Climbing
        <5>2. f = stack[g][1] /\ Rises(f, g) /\ f.op = "receive" /\ g \in Att
          BY <5>1, ClimbingCall DEF f
        <5>3. f.e \in Way(g) /\ setting \in Surroundings
          BY <5>2 DEF Rises, LayersInv
        <5> QED BY <5>2, <5>3, WayKinds, RoutingAssumption
      <4> QED BY <1>10, <2>2, <4>1 DEF Receive, f
    <3> HIDE DEF below, waits, next
    <3> QED BY <1>6, <1>7, <1>9, <1>n, <3>2, <3>3
  <2> QED BY <2>1, <2>2
<1>11. CASE NextChild(g)
  <2>1. /\ UNCHANGED current
        /\ \/ Back(g, "closed") \/ Back(g, "ok")
           \/ Go(g, <<below(f.i), waits>>) /\ UNCHANGED result
    BY <1>11 DEF NextChild, f
  <2> HIDE DEF below, waits, next
  <2>2. CASE Back(g, "closed") \/ Back(g, "ok")
    BY <1>3, <1>6, <2>1, <2>2
  <2>3. CASE Go(g, <<below(f.i), waits>>) /\ UNCHANGED result
    BY <1>3, <1>7, <1>9, <2>1, <2>3
  <2> QED BY <2>1, <2>2, <2>3
<1>12. CASE Received(g)
  <2> DEFINE late == IF result[g] = "ok" THEN <<Call("detach", Below(f.e)[f.i], f.n)>> ELSE <<>>
             undo == IF Kind[f.e] = "mount" THEN <<Call("detach", f.e, f.n)>> ELSE <<>>
             back == [f EXCEPT !.op = "return", !.returns = IF result[g] = "ok" THEN "closed" ELSE result[g]]
             on == IF Kind[f.e] = "mount" THEN <<[f EXCEPT !.op = "next", !.i = @ + 1]>> ELSE <<>>
             more == [f EXCEPT !.op = "next", !.i = @ + 1]
  <2>1. /\ UNCHANGED result /\ (Go(g, on) \/ Go(g, late \o undo \o <<back>>))
        /\ UNCHANGED current \/ current' = [current EXCEPT ![f.e] = Nobody]
    BY <1>12 DEF Received, f
  <2>2. Free(late, m) /\ Free(undo, m) /\ Free(<<back>>, m) /\ Free(on, m)
    <3>1. Free(late, m)
      BY <1>2, <1>5, FreeCall
    <3>2. Free(undo, m)
      BY <1>2, <1>5, FreeCall
    <3>3. back.n # m /\ more.n # m
      BY <1>2, <1>8
    <3>4. Free(<<back>>, m) /\ Free(<<more>>, m)
      <4> HIDE DEF back, more
      <4> QED BY <3>3, FreeOne
    <3>5. on = <<more>> \/ on = <<>>
      OBVIOUS
    <3> HIDE DEF late, undo, back, more, on
    <3> QED BY <1>5, <3>1, <3>2, <3>4, <3>5
  <2> HIDE DEF late, undo, back, on
  <2>3. Free(late \o undo \o <<back>>, m)
    BY <2>2, FreeBoth
  <2>4. \A p \in Endpoints : current'[p] # m
    <3>1. CASE UNCHANGED current
      BY <1>3, <3>1
    <3>2. CASE current' = [current EXCEPT ![f.e] = Nobody]
      BY <1>4, <3>2, GoneGivenUp
    <3> QED BY <2>1, <3>1, <3>2
  <2> QED BY <1>7, <2>1, <2>2, <2>3, <2>4
<1>13. CASE Return(g)
  BY <1>3, <1>6, <1>13 DEF Return
<1> QED BY <1>10, <1>11, <1>12, <1>13

\* The steps of detach, Closed and Close.
LEMMA GoneEnding ==
  ASSUME LayersInv, NEW m, Gone(m), NEW g \in Gs,
         Detach(g) \/ OriginEnds(g) \/ RouteEnds(g) \/ ChildEnds(g) \/ CloseLayer(g) \/ CloseView(g) \/ Tell(g)
  PROVE  Gone(m)'
<1> DEFINE f == Head(stack[g])
           w == current[f.e]
<1>1. stack[g] # <<>>
  BY DEF Detach, OriginEnds, RouteEnds, ChildEnds, CloseLayer, CloseView, Tell, Doing
<1>2. f \in Frame /\ f.n # m /\ f.e \in Endpoints /\ f.n \in Apps \cup {Own, Nobody}
  BY <1>1, GoneIdle, FrameParts
<1> HIDE DEF f
<1>3. (\A p \in Endpoints : current[p] # m) /\ Nobody # m
  BY GoneIdle DEF Gone
<1>4. w # m /\ w \in Apps \cup {Own, Nobody}
  BY <1>2, <1>3 DEF w, LayersInv, EndpointsInv, Shaped
<1> HIDE DEF w
<1>5. Free(<<>>, m)
  BY FreeNone
<1>6. ASSUME NEW c, Free(c, m), Go(g, c), UNCHANGED <<current, result>>
      PROVE  Gone(m)'
  BY <1>1, <1>3, <1>6, GoneMoves
<1>7. ASSUME NEW n \in {f.n, w}, NEW c, Free(c, m), Go(g, Detaches(f.e, n) \o c), UNCHANGED result, Leaves(f.e, n)
      PROVE  Gone(m)'
  <2>1. \A p \in Endpoints : current'[p] # m
    BY <1>3, <1>7, GoneGivenUp DEF Leaves
  <2>2. Free(Detaches(f.e, n) \o c, m)
    BY <1>2, <1>4, <1>7, FreeDetaches, FreeBoth
  <2> QED BY <1>1, <1>7, <2>1, <2>2, GoneMoves
<1>9. Free(<<ClosedOf(f.e, f.n)>>, m) /\ Free(<<ClosedOf(f.e, w)>>, m)
  BY <1>2, <1>4, ClosedIsOf, FreeOne
<1>10. CASE Detach(g)
  <2>1. UNCHANGED result /\ \/ Leaves(f.e, f.n) /\ Go(g, Detaches(f.e, f.n))
                            \/ Go(g, <<>>) /\ UNCHANGED current
    BY <1>10 DEF Detach, f
  <2>2. Detaches(f.e, f.n) \o <<>> = Detaches(f.e, f.n)
    <3>1. Detaches(f.e, f.n) \in Seq(Frame)
      BY <1>2, DetachFacts
    <3> QED BY <3>1
  <2> QED BY <1>5, <1>6, <1>7, <2>1, <2>2
<1>11. CASE OriginEnds(g)
  <2> DEFINE c == IF w = f.n THEN <<ClosedOf(f.e, w)>> ELSE <<>>
  <2>1. UNCHANGED result /\ \/ Leaves(f.e, w) /\ Go(g, Detaches(f.e, w) \o c)
                            \/ Go(g, <<>>) /\ UNCHANGED current
    BY <1>11 DEF OriginEnds, f, w
  <2>2. Free(c, m)
    BY <1>5, <1>9
  <2> QED BY <1>5, <1>6, <1>7, <2>1, <2>2
<1>12. CASE RouteEnds(g)
  <2>1. UNCHANGED result /\ \/ Leaves(f.e, f.n) /\ Go(g, Detaches(f.e, f.n) \o <<ClosedOf(f.e, f.n)>>)
                            \/ Go(g, <<>>) /\ UNCHANGED current
    BY <1>12 DEF RouteEnds, f
  <2> QED BY <1>5, <1>6, <1>7, <1>9, <2>1
<1>13. CASE ChildEnds(g)
  <2> DEFINE c == IF <<f.e, f.n, f.i>> \in disposers THEN <<Call("detach", Below(f.e)[f.i], f.n)>> ELSE <<>>
  <2>1. UNCHANGED result /\ \/ Leaves(f.e, f.n) /\ Go(g, Detaches(f.e, f.n) \o <<ClosedOf(f.e, f.n)>>)
                            \/ Go(g, <<>>) /\ UNCHANGED current
                            \/ Go(g, c) /\ UNCHANGED current
    BY <1>13 DEF ChildEnds, f
  <2>2. Free(c, m)
    BY <1>2, <1>5, FreeCall
  <2> HIDE DEF c
  <2> QED BY <1>5, <1>6, <1>7, <1>9, <2>1, <2>2
<1>14. CASE CloseLayer(g)
  <2>1. UNCHANGED result /\ \/ Leaves(f.e, w) /\ Go(g, Detaches(f.e, w) \o <<ClosedOf(f.e, w)>>)
                            \/ Go(g, <<>>) /\ UNCHANGED current
    BY <1>14 DEF CloseLayer, f, w
  <2> QED BY <1>5, <1>6, <1>7, <1>9, <2>1
<1>15. CASE CloseView(g)
  <2> DEFINE c == IF w = Nobody THEN <<>> ELSE <<Call("closed", f.e, w)>>
  <2>1. UNCHANGED <<current, result>> /\ Go(g, c)
    BY <1>15 DEF CloseView, f, w
  <2>2. Free(c, m)
    BY <1>4, <1>5, FreeCall
  <2> HIDE DEF c
  <2> QED BY <1>6, <2>1, <2>2
<1>16. CASE Tell(g)
  BY <1>5, <1>6, <1>16 DEF Tell
<1> QED BY <1>10, <1>11, <1>12, <1>13, <1>14, <1>15, <1>16

LEMMA GoneDispatcherCloses ==
  ASSUME LayersInv, NEW m, Gone(m), NEW g \in Gs, CloseDispatcher(g)
  PROVE  Gone(m)'
<1> DEFINE d == Dispatcher
           routes == {r \in Routes : current[r] # Nobody}
           telling(s) == [k \in DOMAIN s |-> ClosedOf(s[k], current[s[k]])]
           ends == IF setting.owns THEN <<Call("close", Below(d)[1], Own)>> ELSE <<>>
<1>1. stack[g] # <<>> /\ UNCHANGED result /\ d \in Endpoints
  BY TheDispatcher DEF CloseDispatcher, Doing
<1>2. (\A p \in Endpoints : current[p] # m) /\ Nobody # m /\ Own # m
  BY GoneIdle DEF Gone
<1>4. Free(<<>>, m) /\ Free(ends, m)
  BY <1>2, FreeNone, FreeCall
<1>5. CASE d \in shut
  <2>1. Go(g, <<>>) /\ UNCHANGED current
    BY <1>5 DEF CloseDispatcher
  <2> QED BY <1>1, <1>2, <1>4, <2>1, GoneMoves
<1>6. CASE d \notin shut
  <2>1. current' = [e \in Endpoints |-> IF e \in Routes THEN Nobody ELSE current[e]]
    BY <1>6 DEF CloseDispatcher
  <2>2. PICK s \in Orders(routes) : Go(g, Detaches(d, Own) \o telling(s) \o ends)
    BY <1>6 DEF CloseDispatcher
  <2>3. \A p \in Endpoints : current'[p] # m
    BY <1>2, <2>1
  <2>4. Free(telling(s), m)
    <3> DEFINE q == telling(s)
    <3>1. q \in Seq(Frame)
      BY OrderedCloses
    <3>2. \A k \in DOMAIN s : s[k] \in routes
      BY DEF Orders
    <3>3. \A k \in DOMAIN s : current[s[k]] # m
      BY <1>2, <3>2 DEF Routes, Exact
    <3>4. \A k \in DOMAIN q : q[k].n # m
      BY <3>3, ClosedIsOf
    <3> HIDE DEF q
    <3>5. Free(q, m)
      BY <3>1, <3>4, FreeOf
    <3> QED BY <3>5 DEF q
  <2>5. Free(Detaches(d, Own), m)
    BY <1>1, <1>2, FreeDetaches
  <2> DEFINE a == Detaches(d, Own)
             b == telling(s)
  <2> HIDE DEF a, b, ends
  <2>6. Free(a \o b \o ends, m)
    BY <1>4, <2>4, <2>5, FreeBoth DEF a, b
  <2>7. Go(g, a \o b \o ends)
    BY <2>2 DEF a, b
  <2> QED BY <1>1, <2>3, <2>6, <2>7, GoneMoves
<1> QED BY <1>5, <1>6

LEMMA GoneRootCloses ==
  ASSUME LayersInv, NEW m, Gone(m), NEW g \in Gs, CloseRoot(g)
  PROVE  Gone(m)'
<1> DEFINE f == Head(stack[g])
           w == current[f.e]
           told1 == <<ClosedOf(f.e, w)>>
<1>1. stack[g] # <<>> /\ UNCHANGED result
  BY DEF CloseRoot, Doing
<1>2. f \in Frame /\ f.n # m /\ f.e \in Endpoints /\ Free(Tail(stack[g]), m)
  BY <1>1, GoneIdle, FrameParts
<1>3. (\A p \in Endpoints : current[p] # m) /\ Nobody # m
  BY GoneIdle DEF Gone
<1>4. w # m
  BY <1>2, <1>3 DEF Endpoints
<1>5. Free(<<>>, m) /\ Free(told1, m)
  BY <1>4, ClosedIsOf, FreeNone, FreeOne
<1>6. PICK st \in [Gs -> Seq(Frame)] : st = stack
  BY DEF LayersInv, EndpointsInv, Stacked
<1>7. \A h \in Gs : Free(st[h], m)
  BY <1>6 DEF Gone
<1> DEFINE rest == [st EXCEPT ![g] = Tail(@)]
<1>8. rest \in [Gs -> Seq(Frame)] /\ \A h \in Gs : Free(rest[h], m)
  <2>1. Tail(st[g]) \in Seq(Frame)
    BY <1>1, <1>6
  <2>2. rest \in [Gs -> Seq(Frame)] /\ \A h \in Gs : rest[h] = IF h = g THEN Tail(st[g]) ELSE st[h]
    BY <2>1
  <2> HIDE DEF rest
  <2> QED BY <1>2, <1>6, <1>7, <2>2
<1>9. /\ stack' = rest \/ stack' = [rest EXCEPT ![f.e] = rest[f.e] \o told1]
      /\ UNCHANGED current \/ current' = [current EXCEPT ![f.e] = Nobody]
  <2>1. Append(rest[f.e], ClosedOf(f.e, w)) = rest[f.e] \o told1
    <3>1. rest[f.e] \in Seq(Frame)
      BY <1>2, <1>8 DEF Gs
    <3>2. PICK S \in Seq(Frame) : S = rest[f.e]
      BY <3>1
    <3> DEFINE x == ClosedOf(f.e, w)
    <3>3. Append(S, x) = S \o <<x>>
      <4> HIDE DEF x
      <4> QED OBVIOUS
    <3> QED BY <3>2, <3>3
  <2> QED BY <1>6, <2>1 DEF CloseRoot
<1> HIDE DEF rest, told1
<1>10. \A h \in Gs : Free(stack'[h], m)
  <2>1. Free(rest[f.e] \o told1, m)
    BY <1>2, <1>5, <1>8, FreeBoth DEF Gs
  <2> QED BY <1>8, <1>9, <2>1
<1>11. \A p \in Endpoints : current'[p] # m
  BY <1>3, <1>9, GoneGivenUp
<1> QED BY <1>1, <1>10, <1>11 DEF Gone, Free, CallsIn

\* What applications call concerns them, the dispatcher's own attachment or nobody.
LEMMA GoneCalled ==
  ASSUME LayersInv, NEW m, Gone(m), NEW g \in Gs, NEW c, Free(c, m), stack' = [stack EXCEPT ![g] = c],
         UNCHANGED current, UNCHANGED result \/ (g # m /\ \E r : result' = [result EXCEPT ![g] = r])
  PROVE  Gone(m)'
<1>1. stack \in [Gs -> Seq(Frame)] /\ result \in [Gs -> {"", "none", "ok", "closed", "exists", "detached"}] /\ m \in Gs
  BY GoneIdle DEF LayersInv, EndpointsInv, Stacked, Shaped
<1>2. result'[m] = result[m]
  BY <1>1
<1>3. \A h \in Gs : stack'[h] = IF h = g THEN c ELSE stack[h]
  BY <1>1
<1>4. \A h \in Gs : Free(stack'[h], m)
  BY <1>3 DEF Gone
<1> QED BY <1>2, <1>4 DEF Gone, Free, CallsIn

LEMMA GoneStays ==
  ASSUME LayersInv, NEW m, Gone(m), Layering
  PROVE  Gone(m)'
<1>0. /\ m \in Apps /\ result[m] = "detached" /\ m \notin {Own, Nobody}
      /\ Own \in Gs /\ (\A n \in Apps : n \in Gs) /\ \A e \in Endpoints : e \in Gs
  BY GoneIdle DEF Gone, Gs
<1>2. CASE NewDispatcher
  <2>1. /\ stack' = [stack EXCEPT ![Own] = <<Call("receive", Entry(Own), Own), Call("await", Dispatcher, Own)>>]
        /\ UNCHANGED <<current, result>>
    BY <1>2 DEF NewDispatcher
  <2>2. Free(<<Call("receive", Entry(Own), Own), Call("await", Dispatcher, Own)>>, m)
    <3> DEFINE x == Call("receive", Entry(Own), Own)
               y == Call("await", Dispatcher, Own)
    <3>1. x.n # m /\ y.n # m
      BY <1>0 DEF Call
    <3> HIDE DEF x, y
    <3>2. Free(<<x, y>>, m)
      BY <3>1, FreeTwo
    <3> QED BY <3>2 DEF x, y
  <2> QED BY <1>0, <2>1, <2>2, GoneCalled
<1>3. ASSUME NEW n \in Apps, Attach(n)
      PROVE  Gone(m)'
  <2>1. /\ stack' = [stack EXCEPT ![n] = <<Call("receive", Entry(n), n)>>]
        /\ UNCHANGED <<current, result>> /\ n # m
    BY <1>0, <1>3 DEF Attach
  <2>2. Free(<<Call("receive", Entry(n), n)>>, m)
    BY <2>1, FreeCall
  <2> QED BY <1>0, <2>1, <2>2, GoneCalled
<1>4. ASSUME NEW n \in Apps, DetachApp(n)
      PROVE  Gone(m)'
  <2>1. /\ stack' = [stack EXCEPT ![n] = <<Call("detach", Entry(n), n)>>]
        /\ UNCHANGED current /\ result' = [result EXCEPT ![n] = "detached"] /\ n # m
    BY <1>0, <1>4 DEF DetachApp, Attached
  <2>2. Free(<<Call("detach", Entry(n), n)>>, m)
    BY <2>1, FreeCall
  <2> QED BY <1>0, <2>1, <2>2, GoneCalled
<1>5. ASSUME NEW e \in Endpoints, Close(e)
      PROVE  Gone(m)'
  <2>1. stack' = [stack EXCEPT ![e] = <<Call("close", e, Nobody)>>] /\ UNCHANGED <<current, result>>
    BY <1>5 DEF Close
  <2>2. Free(<<Call("close", e, Nobody)>>, m)
    BY <1>0, FreeCall
  <2> QED BY <1>0, <2>1, <2>2, GoneCalled
<1>6. ASSUME NEW g \in DOMAIN stack, Step(g)
      PROVE  Gone(m)'
  <2>1. g \in Gs
    BY <1>6 DEF LayersInv, EndpointsInv, Stacked
  <2> QED BY <1>6, <2>1, GoneAttaching, GoneEnding, GoneDispatcherCloses, GoneRootCloses DEF Step
<1> QED BY <1>2, <1>3, <1>4, <1>5, <1>6 DEF Layering
\* Late ones are gone, and the request is not theirs; a dispatched request goes
\* where it was matched, is captured for that registration, and is latched when
\* it is done; what an application was given its push received.
RequestTyped ==
  /\ request \in [step : {"none", "sent", "started", "matched", "captured", "given", "done", "refused"},
                  by : Apps \cup {Own, Nobody}, to : Apps \cup {Own, Nobody}, late : SUBSET Apps]
  /\ owner \in [Slots -> Apps \cup {Own, Nobody}] /\ controlled \in [Apps -> Nat]
LateGone == \A m \in request.late : m # request.to /\ Gone(m)
RouteKept ==
  /\ At("started") \/ ((At("given") \/ At("done")) /\ request.by # Own) => request.to = request.by
  /\ At("matched") \/ At("captured") => request.by = Own
CaptureKept ==
  /\ notified # {} => latched
  /\ ~Alone /\ latched => At("done")
  /\ ~Alone /\ taken # 0 =>
       taken = 1 /\ request.by = Own /\ owner[1] = request.to /\ (At("captured") \/ At("given") \/ At("done"))
ControlsCounted == \A n \in Apps :
  IF Alone THEN controlled[n] = 0
  ELSE IF request.by = Own THEN controlled[n] = IF taken = 1 /\ n = request.to THEN received[1] ELSE 0
  ELSE controlled[n] = 0 \/ (At("done") /\ n = request.by /\ controlled[n] = 1)
RequestInv == RequestTyped /\ LateGone /\ RouteKept /\ CaptureKept /\ ControlsCounted

\* Who was detached before, with nothing under way, is gone.
LEMMA LateAreGone ==
  ASSUME LayersInv, NEW m \in Apps, Detached(m), Quiet(m)
  PROVE  Gone(m)
<1>1. m \notin {Own, Nobody} /\ result[m] = "detached" /\ setting \in Surroundings
  BY TheDispatcher DEF Detached, LayersInv
<1>2. \A g \in Gs : Free(stack[g], m)
  <2>1. stack \in [Gs -> Seq(Frame)]
    BY DEF LayersInv, EndpointsInv, Stacked
  <2>2. \A g \in Gs : \A k \in DOMAIN stack[g] : stack[g][k].n # m
    BY <2>1 DEF Quiet
  <2> QED BY <2>1, <2>2, FreeOf
<1>3. \A p \in Endpoints : current[p] # m
  <2> DEFINE S == {e \in Endpoints : current[e] = m}
  <2> SUFFICES ASSUME S # {}
               PROVE  FALSE
    OBVIOUS
  <2>1. PICK e \in S : \A u \in S : \A i \in DOMAIN Below(u) : Below(u)[i] # e
    <3> HIDE DEF S
    <3>1. S \subseteq Endpoints
      BY DEF S
    <3> QED BY <1>1, <3>1, Topmost
  <2>2. IF e = Entry(m)
          THEN result[m] = "ok"
          ELSE \E u \in Layers : \E i \in DOMAIN Below(u) : Below(u)[i] = e /\ current[u] = m
    <3>1. NothingHeldInVain
      BY LayersHold
    <3>2. e \in Endpoints /\ current[e] = m /\ m # Nobody /\ m # Own
      BY <1>1, <2>1
    <3> HIDE DEF S
    <3> QED BY <3>1, <3>2 DEF NothingHeldInVain
  <2>3. PICK u \in Layers : \E i \in DOMAIN Below(u) : Below(u)[i] = e /\ current[u] = m
    BY <1>1, <2>2
  <2>4. u \in S
    BY <2>3 DEF Layers
  <2> QED BY <2>1, <2>3, <2>4
<1> QED BY <1>1, <1>2, <1>3 DEF Gone

LEMMA GoneUntouched ==
  ASSUME NEW m, Gone(m), UNCHANGED <<setting, layerVars>>
  PROVE  Gone(m)'
BY DEF Gone, Free, CallsIn, layerVars

\* The endpoints leave the request alone.
LEMMA RequestUntouched ==
  ASSUME LayersInv, RequestInv, Layering \/ UNCHANGED allVars
  PROVE  RequestInv'
<1>1. UNCHANGED <<vars, requestVars>>
  BY DEF Layering, allVars
<1>2. UNCHANGED <<request, owner, controlled, taken, notified, latched, received>>
  BY <1>1 DEF requestVars, vars, captureVars, controlVars
<1>3. \A m \in request.late : Gone(m)'
  <2>1. CASE Layering
    BY <2>1, GoneStays DEF RequestInv, LateGone
  <2>2. CASE UNCHANGED allVars
    BY <2>2, GoneUntouched DEF RequestInv, LateGone, allVars
  <2> QED BY <2>1, <2>2
<1>4. LateGone'
  BY <1>2, <1>3 DEF RequestInv, LateGone
<1>5. RequestTyped' /\ RouteKept' /\ CaptureKept' /\ ControlsCounted'
  BY <1>2 DEF RequestInv, RequestTyped, RouteKept, CaptureKept, ControlsCounted, Alone, At
<1> QED BY <1>4, <1>5 DEF RequestInv

\* Steps of the request leave the endpoints alone.
LEMMA LateStay ==
  ASSUME RequestInv, UNCHANGED <<setting, layerVars>>, request'.late = request.late, request'.to \notin request.late
  PROVE  LateGone'
BY GoneUntouched DEF RequestInv, LateGone

LEMMA StartStep ==
  ASSUME LayersInv, RequestInv, Start
  PROVE  RequestInv'
<1> DEFINE n == current[setting.from]
           late == {m \in Apps : Detached(m) /\ Quiet(m) /\ Quiet(Own)}
<1>1. /\ At("sent") /\ UNCHANGED <<vars, setting, layerVars, owner, controlled>>
      /\ request' = [step |-> IF n = Nobody THEN "refused" ELSE "started", by |-> n, to |-> n, late |-> late]
  BY DEF Start
<1>2. UNCHANGED <<taken, notified, latched, received>>
  BY <1>1 DEF vars, captureVars, controlVars
<1>3. setting.from \in Endpoints
  BY CompositionAssumption DEF LayersInv
<1>4. n \in Apps \cup {Own, Nobody}
  BY <1>3 DEF LayersInv, EndpointsInv, Shaped
<1>5. \A m \in late : Gone(m) /\ m # n
  <2>1. \A m \in late : Gone(m)
    BY LateAreGone
  <2> QED BY <1>3, <2>1 DEF Gone
<1>6. late \subseteq Apps
  OBVIOUS
<1> HIDE DEF n, late
<1>7. request'.step \in {"refused", "started"} /\ request'.by = n /\ request'.to = n /\ request'.late = late
  BY <1>1
<1>8. RequestTyped'
  BY <1>1, <1>4, <1>6 DEF RequestInv, RequestTyped
<1>9. LateGone'
  BY <1>1, <1>5, <1>7, GoneUntouched DEF LateGone
<1>10. RouteKept'
  BY <1>7 DEF RouteKept, At
<1>11. taken = 0 /\ ~latched /\ \A k \in Apps : controlled[k] = 0
  <2>1. taken = 0 /\ ~latched
    BY <1>1 DEF RequestInv, CaptureKept, Alone, At
  <2> QED BY <1>1, <2>1 DEF RequestInv, ControlsCounted, Alone, At
<1>12. CaptureKept' /\ ControlsCounted'
  BY <1>1, <1>2, <1>7, <1>11 DEF RequestInv, CaptureKept, ControlsCounted, Alone, At
<1> QED BY <1>8, <1>9, <1>10, <1>12 DEF RequestInv

LEMMA MovesTo ==
  ASSUME RequestInv, NEW step \in {"matched", "captured", "given", "done", "refused"}, NEW to \in Apps \cup {Own, Nobody},
         Moves(step, to)
  PROVE  /\ request' \in [step : {"none", "sent", "started", "matched", "captured", "given", "done", "refused"},
                           by : Apps \cup {Own, Nobody}, to : Apps \cup {Own, Nobody}, late : SUBSET Apps]
         /\ request'.step = step /\ request'.to = to /\ request'.by = request.by /\ request'.late = request.late
<1>1. PICK r \in [step : {"none", "sent", "started", "matched", "captured", "given", "done", "refused"},
                  by : Apps \cup {Own, Nobody}, to : Apps \cup {Own, Nobody}, late : SUBSET Apps] : r = request
  BY DEF RequestInv, RequestTyped
<1>2. request' = [r EXCEPT !.step = step, !.to = to]
  BY <1>1 DEF Moves
<1>3. request' = [step |-> step, by |-> r.by, to |-> to, late |-> r.late]
  BY <1>1, <1>2
<1> QED BY <1>1, <1>3

LEMMA DispatchStep ==
  ASSUME LayersInv, RequestInv, Dispatch
  PROVE  RequestInv'
<1>1. /\ At("started") /\ request.by = Own /\ Moves(IF Match = Nobody THEN "refused" ELSE "matched", Match)
      /\ UNCHANGED <<vars, setting, layerVars, owner, controlled>>
  BY DEF Dispatch
<1>2. UNCHANGED <<taken, notified, latched, received>>
  BY <1>1 DEF vars, captureVars, controlVars
<1>3. Match = Nobody \/ \E r \in Endpoints : Match = current[r]
  <2> DEFINE routes == {r \in Routes : current[r] # Nobody /\ Matches(r)}
             best == {r \in routes : r \in Exact \/ \A w \in routes : w \notin Exact /\ Len(Path[w]) <= Len(Path[r])}
  <2>1. Match = IF best = {} THEN Nobody ELSE current[CHOOSE r \in best : TRUE]
    BY DEF Match
  <2>2. best \subseteq Endpoints
    BY DEF Routes, Exact
  <2> HIDE DEF best
  <2> QED BY <2>1, <2>2
<1>4. Match \in Apps \cup {Own, Nobody}
  BY <1>3 DEF LayersInv, EndpointsInv, Shaped
<1>5. Match \notin request.late
  <2> SUFFICES ASSUME Match \in request.late
               PROVE  FALSE
    OBVIOUS
  <2>1. Gone(Match) /\ Match # Nobody
    <3>1. Gone(Match)
      BY DEF RequestInv, LateGone
    <3> QED BY <3>1, GoneIdle
  <2> QED BY <1>3, <2>1 DEF Gone
<1>6. /\ request' \in [step : {"none", "sent", "started", "matched", "captured", "given", "done", "refused"},
                        by : Apps \cup {Own, Nobody}, to : Apps \cup {Own, Nobody}, late : SUBSET Apps]
      /\ request'.step \in {"refused", "matched"} /\ request'.to = Match
      /\ request'.by = request.by /\ request'.late = request.late
  BY <1>1, <1>4, MovesTo
<1>7. RequestTyped' /\ LateGone'
  BY <1>1, <1>5, <1>6, LateStay DEF RequestInv, RequestTyped
<1>8. RouteKept' /\ CaptureKept' /\ ControlsCounted'
  BY <1>1, <1>2, <1>6 DEF RequestInv, RouteKept, CaptureKept, ControlsCounted, Alone, At
<1> QED BY <1>7, <1>8 DEF RequestInv

\* What has been taken by whom says what has been received.
LEMMA NotTaken ==
  ASSUME Accounted, taken = 0
  PROVE  1 \in Slots /\ received[1] = 0
<1>1. ready = {} /\ notified = {}
  BY DEF Accounted, CapturesAccounted
<1>2. 1 \in Slots
  BY InvocationAssumption
<1> QED BY <1>1, <1>2 DEF Accounted, SinksAccounted

LEMMA CaptureRouteStep ==
  ASSUME LayersInv, Accounted, RequestInv, CaptureRoute
  PROVE  RequestInv'
<1>1. At("matched") /\ UNCHANGED <<setting, layerVars, controlled>>
  BY DEF CaptureRoute
<1>2. request.by = Own /\ taken = 0 /\ ~Alone /\ ~latched
  BY <1>1 DEF RequestInv, RouteKept, CaptureKept, Alone, At
<1>3. /\ request.to \in Apps \cup {Own, Nobody} /\ request.to \notin request.late
      /\ owner \in [Slots -> Apps \cup {Own, Nobody}] /\ controlled \in [Apps -> Nat]
  BY DEF RequestInv, RequestTyped, LateGone
<1>4. 1 \in Slots /\ received[1] = 0
  BY <1>2, NotTaken
<1>5. \A n \in Apps : controlled[n] = 0
  BY <1>2, <1>4 DEF RequestInv, ControlsCounted
<1>6. Nobody \notin request.late
  BY TheDispatcher DEF RequestInv, RequestTyped
<1>7. CASE (\E i \in Names : Capture(i)) /\ owner' = [owner EXCEPT ![taken + 1] = request.to] /\ Moves("captured", request.to)
  <2>1. taken' = 1 /\ UNCHANGED <<notified, latched, received>>
    BY <1>2, <1>7 DEF Capture, controlVars
  <2>2. /\ request' \in [step : {"none", "sent", "started", "matched", "captured", "given", "done", "refused"},
                          by : Apps \cup {Own, Nobody}, to : Apps \cup {Own, Nobody}, late : SUBSET Apps]
        /\ request'.step = "captured" /\ request'.to = request.to
        /\ request'.by = request.by /\ request'.late = request.late
    BY <1>3, <1>7, MovesTo
  <2>3. owner' = [owner EXCEPT ![1] = request.to]
    BY <1>2, <1>7
  <2>4. owner' \in [Slots -> Apps \cup {Own, Nobody}] /\ owner'[1] = request.to
    BY <1>3, <1>4, <2>3
  <2>5. RequestTyped' /\ LateGone'
    BY <1>1, <1>3, <2>2, <2>4, LateStay DEF RequestTyped
  <2>6. RouteKept' /\ CaptureKept' /\ ControlsCounted'
    BY <1>1, <1>2, <1>4, <1>5, <2>1, <2>2, <2>4 DEF RequestInv, RouteKept, CaptureKept, ControlsCounted, Alone, At
  <2> QED BY <2>5, <2>6 DEF RequestInv
<1>8. CASE Moves("refused", Nobody) /\ UNCHANGED <<vars, owner>>
  <2>1. UNCHANGED <<taken, notified, latched, received>>
    BY <1>8 DEF vars, captureVars, controlVars
  <2>2. /\ request' \in [step : {"none", "sent", "started", "matched", "captured", "given", "done", "refused"},
                          by : Apps \cup {Own, Nobody}, to : Apps \cup {Own, Nobody}, late : SUBSET Apps]
        /\ request'.step = "refused" /\ request'.to = Nobody
        /\ request'.by = request.by /\ request'.late = request.late
    BY <1>8, MovesTo
  <2>3. RequestTyped' /\ LateGone'
    BY <1>1, <1>3, <1>6, <1>8, <2>2, LateStay DEF RequestTyped
  <2>4. RouteKept' /\ CaptureKept' /\ ControlsCounted'
    BY <1>1, <1>2, <1>5, <2>1, <2>2 DEF RequestInv, RouteKept, CaptureKept, ControlsCounted, Alone, At
  <2> QED BY <2>3, <2>4 DEF RequestInv
<1> QED BY <1>7, <1>8 DEF CaptureRoute

LEMMA GiveStep ==
  ASSUME LayersInv, Accounted, RequestInv, Give \/ ReadyRoute
  PROVE  RequestInv'
<1>1. /\ UNCHANGED <<setting, layerVars, owner, controlled>> /\ UNCHANGED <<taken, received, latched>>
      /\ notified' = notified \/ control
      /\ \/ (At("captured") \/ (At("started") /\ request.by # Own)) /\ Moves("given", request.to)
         \/ At("given") /\ Moves("done", request.to)
  <2>1. CASE Give
    BY <2>1 DEF Give, vars, captureVars, controlVars
  <2>2. CASE ReadyRoute
    BY <2>2 DEF ReadyRoute, Ready, vars, captureVars, controlVars
  <2> QED BY <2>1, <2>2
<1>2. ~Alone /\ ~latched
  BY <1>1 DEF RequestInv, CaptureKept, Alone, At
<1>3. UNCHANGED notified
  BY <1>1, <1>2 DEF Accounted, PushesAccounted
<1>4. /\ request.to \in Apps \cup {Own, Nobody} /\ request.to \notin request.late
      /\ owner \in [Slots -> Apps \cup {Own, Nobody}] /\ controlled \in [Apps -> Nat]
  BY DEF RequestInv, RequestTyped, LateGone
<1>5. /\ request' \in [step : {"none", "sent", "started", "matched", "captured", "given", "done", "refused"},
                        by : Apps \cup {Own, Nobody}, to : Apps \cup {Own, Nobody}, late : SUBSET Apps]
      /\ request'.step = IF At("given") THEN "done" ELSE "given"
      /\ request'.to = request.to /\ request'.by = request.by /\ request'.late = request.late
  BY <1>1, <1>4, MovesTo DEF At
<1>6. RequestTyped' /\ LateGone'
  BY <1>1, <1>4, <1>5, LateStay DEF RequestTyped
<1>7. RouteKept'
  BY <1>1, <1>5 DEF RequestInv, RouteKept, At
<1>8. CaptureKept' /\ ControlsCounted'
  BY <1>1, <1>2, <1>3, <1>5 DEF RequestInv, CaptureKept, ControlsCounted, Alone, At
<1> QED BY <1>6, <1>7, <1>8 DEF RequestInv

LEMMA CancelStep ==
  ASSUME LayersInv, RequestInv, Cancel
  PROVE  RequestInv'
<1>1. At("done") /\ ~Alone /\ UNCHANGED <<setting, layerVars, request, owner>>
  BY DEF Cancel, At, Alone
<1>2. LateGone'
  BY <1>1, LateStay DEF RequestInv, LateGone
<1>3. CASE request.by = Own
  <2>1. UNCHANGED <<controlled, taken, received>> /\ latched'
    BY <1>3 DEF Cancel, LatchControl
  <2>2. RequestTyped' /\ RouteKept' /\ CaptureKept' /\ ControlsCounted'
    BY <1>1, <1>3, <2>1 DEF RequestInv, RequestTyped, RouteKept, CaptureKept, ControlsCounted, Alone, At
  <2> QED BY <1>2, <2>2 DEF RequestInv
<1>4. CASE request.by # Own
  <2>1. UNCHANGED <<taken, received, notified, latched>> /\ controlled' = [controlled EXCEPT ![request.by] = 1]
    BY <1>4 DEF Cancel, vars, captureVars, controlVars
  <2>2. controlled \in [Apps -> Nat]
    BY DEF RequestInv, RequestTyped
  <2>3. controlled' \in [Apps -> Nat] /\ \A n \in Apps : controlled'[n] = IF n = request.by THEN 1 ELSE controlled[n]
    BY <2>1, <2>2
  <2>4. ControlsCounted'
    BY <1>1, <1>4, <2>3 DEF RequestInv, ControlsCounted, Alone, At
  <2>5. RequestTyped' /\ RouteKept' /\ CaptureKept'
    BY <1>1, <2>1, <2>3 DEF RequestInv, RequestTyped, RouteKept, CaptureKept, Alone, At
  <2> QED BY <1>2, <2>4, <2>5 DEF RequestInv
<1> QED BY <1>3, <1>4

\* What else happens to the invocation: captures and latches of its own only
\* where there is no request.
LEMMA LifecycleStep ==
  ASSUME Accounted, RequestInv, UNCHANGED <<setting, layerVars, requestVars>>,
         \/ Alone /\ (Participating \/ \E i \in 0 .. Captures : \E k \in Slots : Push(i, k))
         \/ Settle \/ DispatchDone \/ \E i \in 0 .. Captures : Pushed(i)
  PROVE  RequestInv'
<1>1. UNCHANGED <<request, owner, controlled>>
  BY DEF requestVars
<1>2. LateGone'
  BY <1>1, LateStay DEF RequestInv, LateGone
<1>3. RequestTyped' /\ RouteKept'
  BY <1>1 DEF RequestInv, RequestTyped, RouteKept, At
<1>4. CASE Settle \/ DispatchDone \/ \E i \in 0 .. Captures : Pushed(i)
  <2>1. UNCHANGED <<taken, received, notified, latched>>
    BY <1>4 DEF Settle, DispatchDone, Pushed
  <2>2. CaptureKept' /\ ControlsCounted'
    BY <1>1, <2>1 DEF RequestInv, CaptureKept, ControlsCounted, Alone, At
  <2> QED BY <1>2, <1>3, <2>2 DEF RequestInv
<1>5. CASE Alone /\ (Participating \/ \E i \in 0 .. Captures : \E k \in Slots : Push(i, k))
  <2>1. (latched => latched') /\ (notified' = notified \/ control \/ latched')
    <3>1. ASSUME NEW n \in Names, Capture(n) \/ Ready(n) \/ Release(n)
          PROVE  UNCHANGED latched /\ (notified' = notified \/ control)
      BY <3>1 DEF Capture, Ready, Release, controlVars
    <3>2. ASSUME NEW b \in Bodies, Begin(b) \/ Done(b)
          PROVE  UNCHANGED <<latched, notified>>
      BY <3>2 DEF Begin, Done, captureVars, controlVars
    <3>3. ASSUME NEW i \in 0 .. Captures, NEW k \in Slots, Push(i, k)
          PROVE  UNCHANGED <<latched, notified>>
      BY <3>3 DEF Push, captureVars
    <3>4. LatchControl => latched'
      BY DEF LatchControl
    <3> QED BY <1>5, <3>1, <3>2, <3>3, <3>4 DEF Participating
  <2>2. notified' # {} => latched'
    BY <2>1 DEF RequestInv, CaptureKept, Accounted, PushesAccounted
  <2>3. CaptureKept' /\ ControlsCounted'
    BY <1>1, <1>5, <2>2 DEF RequestInv, CaptureKept, ControlsCounted, Alone, At
  <2> QED BY <1>2, <1>3, <2>3 DEF RequestInv
<1> QED BY <1>4, <1>5

LEMMA PushControlStep ==
  ASSUME Accounted, RequestInv, NEW i \in 0 .. Captures, NEW k \in Slots, ~Alone, PushControl(i, k)
  PROVE  RequestInv'
<1>1. /\ UNCHANGED <<setting, layerVars, request, owner>> /\ Push(i, k)
      /\ controlled' = [n \in Apps |-> IF n = owner[k] THEN controlled[n] + 1 ELSE controlled[n]]
  BY DEF PushControl, Sink
<1>2. UNCHANGED <<taken, notified, latched>> /\ received' = [received EXCEPT ![k] = @ + 1] /\ k \in left[i]
  BY <1>1 DEF Push, captureVars
<1>3. k \in 1 .. taken /\ taken \in 0 .. Captures
  BY <1>2 DEF Accounted, TypeOK, CapturesAccounted, PushesAccounted
<1>4. taken = 1 /\ request.by = Own /\ owner[1] = request.to
  BY <1>3 DEF RequestInv, CaptureKept
<1>5. k = 1
  BY <1>3, <1>4
<1>6. received \in [Slots -> Nat]
  BY DEF Accounted, TypeOK
<1>7. received'[1] = received[1] + 1 /\ received[1] \in Nat
  BY <1>2, <1>5, <1>6
<1>8. controlled \in [Apps -> Nat]
  BY DEF RequestInv, RequestTyped
<1>9. controlled' \in [Apps -> Nat]
  BY <1>1, <1>8
<1>10. \A n \in Apps : controlled'[n] = IF n = request.to THEN controlled[n] + 1 ELSE controlled[n]
  BY <1>1, <1>4, <1>5
<1>11. ControlsCounted'
  BY <1>1, <1>2, <1>4, <1>7, <1>10 DEF RequestInv, ControlsCounted, Alone, At
<1>12. LateGone'
  BY <1>1, LateStay DEF RequestInv, LateGone
<1>13. RequestTyped' /\ RouteKept' /\ CaptureKept'
  BY <1>1, <1>2, <1>9 DEF RequestInv, RequestTyped, RouteKept, CaptureKept, Alone, At
<1> QED BY <1>11, <1>12, <1>13 DEF RequestInv

LEMMA RequestStep == LayersInv /\ Accounted /\ RequestInv /\ [RouteNext]_allVars => RequestInv'
<1> SUFFICES ASSUME LayersInv, Accounted, RequestInv, [RouteNext]_allVars
             PROVE  RequestInv'
  OBVIOUS
<1>1. CASE Layering \/ UNCHANGED allVars
  BY <1>1, RequestUntouched
<1>2. CASE Requesting
  BY <1>2, StartStep, DispatchStep, CaptureRouteStep, GiveStep DEF Requesting
<1>3. CASE Cancel
  BY <1>3, CancelStep
<1>4. CASE Lifecycle(Settles \/ DeliveryEnds \/ (Alone /\ Participating))
  BY <1>4, LifecycleStep DEF Lifecycle, Settles, DeliveryEnds
<1>5. ASSUME NEW i \in 0 .. Captures, Lifecycle(Idle(i))
      PROVE  RequestInv'
  BY <1>5, LifecycleStep DEF Lifecycle, Idle
<1>6. ASSUME NEW i \in 0 .. Captures, NEW k \in Slots, ~Alone, PushControl(i, k)
      PROVE  RequestInv'
  BY <1>6, PushControlStep
<1> QED BY <1>1, <1>2, <1>3, <1>4, <1>5, <1>6 DEF RouteNext

LEMMA RequestInit == RouteInit => RequestInv
<1> SUFFICES ASSUME RouteInit
             PROVE  RequestInv
  OBVIOUS
<1>1. /\ setting \in Surroundings /\ controlled = [n \in Apps |-> 0] /\ owner = [k \in Slots |-> Nobody]
      /\ request = [step |-> setting.request, by |-> Nobody, to |-> Nobody, late |-> {}]
      /\ notified = {} /\ taken = 0 /\ latched = FALSE
  BY DEF RouteInit, Init
<1>2. request.step \in {"none", "sent", "refused"} /\ request.by = Nobody /\ request.late = {}
  BY <1>1, CompositionAssumption
<1>3. RequestTyped
  BY <1>1, <1>2 DEF RequestTyped
<1>4. LateGone /\ RouteKept /\ CaptureKept
  BY <1>1, <1>2 DEF LateGone, RouteKept, CaptureKept, At
<1>5. ControlsCounted
  BY <1>1, <1>2, TheDispatcher DEF ControlsCounted
<1> QED BY <1>3, <1>4, <1>5 DEF RequestInv

LEMMA RequestHolds ==
  ASSUME Accounted, RequestInv
  PROVE  RequestKeepsItsRoute
<1>1. ASSUME NEW n \in Apps
      PROVE  controlled[n] <= IF At("done") /\ request.to = n THEN 1 ELSE 0
  <2>1. CASE Alone
    BY <2>1 DEF RequestInv, ControlsCounted
  <2>2. CASE ~Alone /\ request.by = Own
    <3>1. controlled[n] = IF taken = 1 /\ n = request.to THEN received[1] ELSE 0
      BY <2>2 DEF RequestInv, ControlsCounted
    <3>2. 1 \in Slots
      BY InvocationAssumption
    <3>3. received[1] \in {0, 1} /\ (received[1] = 1 => At("done"))
      BY <2>2, <3>2 DEF Accounted, SinksAccounted, RequestInv, CaptureKept
    <3> QED BY <3>1, <3>3
  <2>3. CASE ~Alone /\ request.by # Own
    BY <2>3 DEF RequestInv, ControlsCounted, RouteKept
  <2> QED BY <2>1, <2>2, <2>3
<1>2. request.to \notin request.late
  BY DEF RequestInv, LateGone
<1> QED BY <1>1, <1>2 DEF RequestKeepsItsRoute

\* While endpoints attach, detach and end, a request stays with the registration
\* it was matched with: its cancellation reaches that one, after it and at most
\* once, and no other, and nobody who was gone before is given it.
THEOREM RequestsKeepTheirRoutes == RouteSpec => []RequestKeepsItsRoute
<1>1. RouteSpec => []Accounted
  BY RoutesImplementInvocation, AlwaysAccounted, PTL
<1>2. Accounted /\ RequestInv => RequestKeepsItsRoute
  BY RequestHolds
<1> QED BY <1>1, <1>2, LayersAlways, RequestInit, RequestStep, PTL DEF RouteSpec
=============================================================================
