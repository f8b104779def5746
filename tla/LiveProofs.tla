----------------------------- MODULE LiveProofs -----------------------------
(***************************************************************************)
(* What Live keeps for every family of owners, every table size and every  *)
(* number of calls: the types, owners that hold what is in the tables,     *)
(* aliases that learn of a release, the barrier a release is, and that a   *)
(* failed build unwinds its own.                                           *)
(***************************************************************************)
EXTENDS Live, FiniteSetTheorems, SequenceTheorems, WellFoundedInduction, TLAPS

-----------------------------------------------------------------------------
(* Numbers.                                                                *)

\* What any set of numbers has.
LEMMA Least ==
  ASSUME NEW S, S \subseteq Nat, S # {}
  PROVE  \E x \in S : \A y \in S : x <= y
<1>1. IsWellFoundedOn(OpToRel(<, Nat), Nat)
  BY NatLessThanWellFounded
<1>2. PICK x \in S : \A y \in S : ~(<<y, x>> \in OpToRel(<, Nat))
  BY <1>1, WFMin, Zenon
<1>3. \A y \in S : ~(y < x)
  BY <1>2 DEF OpToRel
<1>4. ASSUME NEW y \in S
      PROVE  x <= y
  <2>1. x \in Nat /\ y \in Nat /\ ~(y < x)
    BY <1>2, <1>3
  <2> QED BY <2>1
<1> QED BY <1>2, <1>4

LEMMA Greatest ==
  ASSUME NEW n \in Nat, NEW S, S \subseteq 0 .. n, S # {}
  PROVE  \E x \in S : \A y \in S : y <= x
<1> DEFINE D == {n - x : x \in S}
<1>1. D \subseteq Nat
  OBVIOUS
<1>0. PICK x0 \in S : TRUE
  OBVIOUS
<1>5. n - x0 \in D
  BY <1>0
<1>2. PICK d \in D : \A e \in D : d <= e
  BY <1>1, <1>5, Least
<1>3. PICK x \in S : d = n - x
  OBVIOUS
<1>4. ASSUME NEW y \in S
      PROVE  y <= x
  <2>1. n - y \in D
    OBVIOUS
  <2>2. d <= n - y /\ x \in 0 .. n /\ y \in 0 .. n
    BY <1>2, <2>1
  <2> QED BY <1>3, <2>2
<1> QED BY <1>4

\* Induction up to a number, over a set.
LEMMA Upward ==
  ASSUME NEW n \in Nat, NEW S, 0 \in S, \A i \in 1 .. n : i - 1 \in S => i \in S
  PROVE  n \in S
<1> SUFFICES ASSUME n \notin S
             PROVE  FALSE
  OBVIOUS
<1> DEFINE Bad == {i \in 0 .. n : i \notin S}
<1>1. Bad \subseteq Nat /\ n \in Bad
  OBVIOUS
<1>2. PICK i \in Bad : \A j \in Bad : i <= j
  BY <1>1, Least
<1>3. i \in 1 .. n /\ i \notin S /\ i - 1 \in 0 .. n
  OBVIOUS
<1>4. i - 1 \in S
  BY <1>2, <1>3
<1> QED BY <1>3, <1>4

-----------------------------------------------------------------------------
(* Lines of owners.                                                        *)

LEMMA Family ==
  ASSUME NEW o \in Owners
  PROVE  /\ o \in Nat /\ o # None /\ Parent[o] \in Owners \cup {None} /\ Parent[o] \in Nat
         /\ Parent[o] < o /\ Line[o] \subseteq Owners
         /\ Line[o] = {o} \cup (IF Parent[o] = None THEN {} ELSE Line[Parent[o]])
<1>1. Owners \subseteq Nat \ {0}
  BY FamilyAssumption DEF None
<1>2. Parent[o] \in Owners \cup {None} /\ Line[o] \subseteq Owners
  BY FamilyAssumption
<1>3. Parent[o] < o /\ Line[o] = {o} \cup (IF Parent[o] = None THEN {} ELSE Line[Parent[o]])
  BY FamilyAssumption
<1>4. o \in Nat /\ o # None /\ Parent[o] \in Nat
  BY <1>1, <1>2 DEF None
<1> QED BY <1>2, <1>3, <1>4

\* An owner's line has it and what was made before it.
LEMMA LineBounds ==
  ASSUME NEW o \in Owners
  PROVE  o \in Line[o] /\ Line[o] \subseteq Owners /\ \A a \in Line[o] : a <= o
<1> DEFINE Bad == {b \in Owners : \E a \in Line[b] : ~(a <= b)}
<1>1. Bad = {}
  <2> SUFFICES ASSUME Bad # {}
               PROVE  FALSE
    OBVIOUS
  <2>1. Bad \subseteq Nat
    BY FamilyAssumption
  <2>2. PICK b \in Bad : \A d \in Bad : b <= d
    BY <2>1, Least
  <2>3. PICK a \in Line[b] : ~(a <= b)
    OBVIOUS
  <2>4. b \in Nat /\ Parent[b] \in Owners \cup {None} /\ Parent[b] < b /\ Parent[b] \in Nat
    BY Family
  <2>5. a # b
    BY <2>3, <2>4
  <2>6. Parent[b] \in Owners /\ a \in Line[Parent[b]]
    BY <2>3, <2>4, <2>5, Family
  <2>7. Parent[b] \notin Bad
    <3>1. Parent[b] \in Nat /\ ~(b <= Parent[b])
      BY <2>4
    <3> QED BY <2>2, <3>1
  <2>8. a <= Parent[b] /\ a \in Nat /\ Parent[b] \in Nat
    BY <2>6, <2>7, Family
  <2> QED BY <2>3, <2>4, <2>8
<1> QED BY <1>1, FamilyAssumption

LEMMA RootLine ==
  ASSUME NEW o \in Owners, Parent[o] = None
  PROVE  Line[o] = {o}
BY FamilyAssumption

LEMMA ParentLine ==
  ASSUME NEW o \in Owners, Parent[o] # None
  PROVE  /\ Parent[o] \in Owners /\ Parent[o] < o /\ Parent[o] \in Nat /\ o \in Nat
         /\ Line[o] = {o} \cup Line[Parent[o]] /\ Parent[o] \in Line[o]
<1>1. Parent[o] \in Owners /\ Line[o] = {o} \cup Line[Parent[o]]
  BY FamilyAssumption
<1> QED BY <1>1, LineBounds, FamilyAssumption

\* Ancestors of ancestors are ancestors.
LEMMA LineDown ==
  ASSUME NEW o \in Owners, NEW a \in Line[o]
  PROVE  Line[a] \subseteq Line[o]
<1> DEFINE Bad == {b \in Owners : \E d \in Line[b] : ~(Line[d] \subseteq Line[b])}
<1>1. Bad = {}
  <2> SUFFICES ASSUME Bad # {}
               PROVE  FALSE
    OBVIOUS
  <2>1. Bad \subseteq Nat
    BY FamilyAssumption
  <2>2. PICK b \in Bad : \A d \in Bad : b <= d
    BY <2>1, Least
  <2>3. PICK d \in Line[b] : ~(Line[d] \subseteq Line[b])
    OBVIOUS
  <2>4. d # b
    BY <2>3
  <2>5. Parent[b] # None
    BY <2>3, <2>4, RootLine
  <2>6. d \in Line[Parent[b]] /\ Line[Parent[b]] \subseteq Line[b] /\ Parent[b] \in Owners
    BY <2>3, <2>4, <2>5, ParentLine
  <2>7. Parent[b] \notin Bad
    BY <2>2, <2>5, ParentLine
  <2> QED BY <2>3, <2>6, <2>7
<1> QED BY <1>1

\* The ancestors of an owner are in one line.
LEMMA LineChain ==
  ASSUME NEW o \in Owners, NEW a \in Line[o], NEW b \in Line[o], b <= a
  PROVE  b \in Line[a]
<1> DEFINE Bad == {d \in Owners : \E x \in Line[d], y \in Line[d] : y <= x /\ y \notin Line[x]}
<1>1. Bad = {}
  <2> SUFFICES ASSUME Bad # {}
               PROVE  FALSE
    OBVIOUS
  <2>1. Bad \subseteq Nat
    BY FamilyAssumption
  <2>2. PICK d \in Bad : \A e \in Bad : d <= e
    BY <2>1, Least
  <2>3. PICK x \in Line[d], y \in Line[d] : y <= x /\ y \notin Line[x]
    OBVIOUS
  <2>4. x # d
    BY <2>3
  <2>5. Parent[d] # None
    BY <2>3, <2>4, RootLine
  <2>6. /\ Parent[d] \in Owners /\ Parent[d] < d /\ Parent[d] \in Nat /\ d \in Nat
        /\ x \in Line[Parent[d]] /\ y \in Line[Parent[d]] \cup {d}
    BY <2>3, <2>4, <2>5, ParentLine
  <2>7. x <= Parent[d] /\ x \in Nat
    BY <2>6, LineBounds, FamilyAssumption
  <2>8. y \in Line[Parent[d]]
    BY <2>3, <2>6, <2>7
  <2>9. Parent[d] \notin Bad
    BY <2>2, <2>6
  <2> QED BY <2>3, <2>6, <2>8, <2>9
<1> QED BY <1>1

\* Between an owner and an ancestor there is a child of the ancestor.
LEMMA LineNext ==
  ASSUME NEW o \in Owners, NEW a \in Line[o], a # o
  PROVE  \E d \in Line[o] : Parent[d] = a
<1> DEFINE Bad == {d \in Owners : \E x \in Line[d] : x # d /\ ~\E e \in Line[d] : Parent[e] = x}
<1>1. Bad = {}
  <2> SUFFICES ASSUME Bad # {}
               PROVE  FALSE
    OBVIOUS
  <2>1. Bad \subseteq Nat
    BY FamilyAssumption
  <2>2. PICK d \in Bad : \A e \in Bad : d <= e
    BY <2>1, Least
  <2>3. PICK x \in Line[d] : x # d /\ ~\E e \in Line[d] : Parent[e] = x
    OBVIOUS
  <2>4. Parent[d] # None
    BY <2>3, RootLine
  <2>5. d \in Line[d] /\ x # Parent[d] /\ x \in Line[Parent[d]] /\ Parent[d] \in Owners
    BY <2>3, <2>4, ParentLine, LineBounds
  <2>6. Parent[d] \notin Bad
    BY <2>2, <2>4, ParentLine
  <2>7. Line[Parent[d]] \subseteq Line[d]
    BY <2>4, ParentLine
  <2> QED BY <2>3, <2>5, <2>6, <2>7
<1> QED BY <1>1
-----------------------------------------------------------------------------
(* Releasing one binding after another.                                    *)

\* The functions that begin with s and take a step for each number up to n.
Runs(n, G, s, step) ==
  {f \in [0 .. n -> G] : f[0] = s /\ \A i \in 1 .. n : f[i] = step[i][f[i - 1]]}

LEMMA Iterates ==
  ASSUME NEW n \in Nat, NEW G, NEW s \in G, NEW step \in [1 .. n -> [G -> G]]
  PROVE  Runs(n, G, s, step) # {}
<1> DEFINE S == {m \in 0 .. n : Runs(m, G, s, step) # {}}
<1>1. 0 \in S
  <2>1. [i \in 0 .. 0 |-> s] \in Runs(0, G, s, step)
    BY DEF Runs
  <2> QED BY <2>1
<1>2. ASSUME NEW i \in 1 .. n, i - 1 \in S
      PROVE  i \in S
  <2>1. PICK f \in [0 .. i - 1 -> G] : f[0] = s /\ \A j \in 1 .. i - 1 : f[j] = step[j][f[j - 1]]
    BY <1>2 DEF Runs
  <2>2. i - 1 \in 0 .. i - 1 /\ f[i - 1] \in G /\ step[i] \in [G -> G]
    BY <2>1
  <2> DEFINE g == [j \in 0 .. i |-> IF j = i THEN step[i][f[i - 1]] ELSE f[j]]
  <2>3. g \in [0 .. i -> G]
    <3> SUFFICES ASSUME NEW j \in 0 .. i
                 PROVE  (IF j = i THEN step[i][f[i - 1]] ELSE f[j]) \in G
      OBVIOUS
    <3>1. CASE j = i
      BY <3>1, <2>2
    <3>2. CASE j # i
      <4>1. j \in 0 .. i - 1
        BY <3>2
      <4> QED BY <4>1, <3>2, <2>1
    <3> QED BY <3>1, <3>2
  <2>4. g[0] = s
    BY <2>1
  <2>5. ASSUME NEW j \in 1 .. i
        PROVE  g[j] = step[j][g[j - 1]]
    <3>1. j - 1 \in 0 .. i /\ j - 1 # i /\ g[j - 1] = f[j - 1]
      OBVIOUS
    <3>2. CASE j = i
      BY <3>1, <3>2
    <3>3. CASE j # i
      <4>1. j \in 1 .. i - 1 /\ j \in 0 .. i
        BY <3>3
      <4>2. f[j] = step[j][f[j - 1]] /\ g[j] = f[j]
        BY <4>1, <3>3, <2>1
      <4> QED BY <4>2, <3>1
    <3> QED BY <3>2, <3>3
  <2>6. g \in Runs(i, G, s, step)
    <3> HIDE DEF g
    <3> QED BY <2>3, <2>4, <2>5 DEF Runs
  <2> QED BY <2>6
<1>3. n \in S
  <2> HIDE DEF S
  <2> QED BY <1>1, <1>2, Upward
<1> QED BY <1>3

\* The scopes that TakeAll goes through, and those that TakeCurrent does.
AllRuns(G, s, order) ==
  {f \in [0 .. Len(order) -> G] :
     /\ f[0] = s /\ f[Len(order)] = TakeAll(s, order)
     /\ \A i \in 1 .. Len(order) : f[i] = TakeRelease(f[i - 1], order[i])}
CurrentRuns(G, s, made) ==
  {f \in [0 .. Len(made) -> G] :
     /\ f[0] = s /\ f[Len(made)] = TakeCurrent(s, made)
     /\ \A i \in 1 .. Len(made) :
          f[i] = IF Current(f[i - 1], made[i]) THEN TakeRelease(f[i - 1], made[i].id) ELSE f[i - 1]}

\* None leaves a set that each release keeps to.
LEMMA TakeAllRuns ==
  ASSUME NEW G, NEW s \in G, NEW order, Len(order) \in Nat,
         \A t \in G, i \in 1 .. Len(order) : TakeRelease(t, order[i]) \in G
  PROVE  AllRuns(G, s, order) # {}
<1>n. PICK n \in Nat : n = Len(order)
  OBVIOUS
<1> DEFINE Step(f) == [i \in 0 .. n |-> IF i = 0 THEN s ELSE TakeRelease(f[i - 1], order[i])]
           after == CHOOSE f : f = Step(f)
           step == [i \in 1 .. n |-> [t \in G |-> TakeRelease(t, order[i])]]
<1>1. step \in [1 .. n -> [G -> G]]
  BY <1>n
<1>2. PICK g \in [0 .. n -> G] : g[0] = s /\ \A i \in 1 .. n : g[i] = step[i][g[i - 1]]
  <2>1. PICK steps \in [1 .. n -> [G -> G]] : steps = step
    <3> HIDE DEF step
    <3> QED BY <1>1
  <2> HIDE DEF step
  <2>2. Runs(n, G, s, steps) # {}
    BY <1>n, <2>1, Iterates, Zenon
  <2>3. PICK g \in Runs(n, G, s, steps) : TRUE
    BY <2>2
  <2> QED BY <2>1, <2>3 DEF Runs
<1>3. ASSUME NEW i \in 1 .. n
      PROVE  i - 1 \in 0 .. n /\ g[i - 1] \in G /\ g[i] = TakeRelease(g[i - 1], order[i])
  <2>1. i - 1 \in 0 .. n /\ g[i - 1] \in G
    BY <1>2
  <2>2. step[i][g[i - 1]] = TakeRelease(g[i - 1], order[i])
    BY <2>1, <1>n
  <2> QED BY <2>1, <2>2, <1>2
<1>4. g = Step(g)
  <2>1. g = [i \in 0 .. n |-> g[i]]
    BY <1>2
  <2>2. \A i \in 0 .. n : g[i] = IF i = 0 THEN s ELSE TakeRelease(g[i - 1], order[i])
    <3> TAKE i \in 0 .. n
    <3>1. CASE i = 0
      BY <3>1, <1>2
    <3>2. CASE i # 0
      <4>1. i \in 1 .. n
        BY <3>2
      <4> QED BY <4>1, <3>2, <1>3
    <3> QED BY <3>1, <3>2
  <2> QED BY <2>1, <2>2, Zenon
<1>5. after = Step(after)
  <2> HIDE DEF Step
  <2> QED BY <1>4, Zenon
<1>6. TakeAll(s, order) = after[n]
  BY <1>n DEF TakeAll
<1>7. after[0] = s /\ \A i \in 1 .. n : after[i] = TakeRelease(after[i - 1], order[i])
  <2> HIDE DEF after
  <2>1. \A i \in 0 .. n : after[i] = IF i = 0 THEN s ELSE TakeRelease(after[i - 1], order[i])
    BY <1>5
  <2>2. 0 \in 0 .. n /\ \A i \in 1 .. n : i \in 0 .. n /\ i # 0
    OBVIOUS
  <2> QED BY <2>1, <2>2, Zenon
<1>8. ASSUME NEW i \in 0 .. n
      PROVE  after[i] \in G
  <2> DEFINE S == {j \in 0 .. n : after[j] \in G}
  <2> HIDE DEF after
  <2>1. 0 \in S
    BY <1>7
  <2>2. \A j \in 1 .. i : j - 1 \in S => j \in S
    BY <1>7, <1>n
  <2>3. i \in S
    <3> HIDE DEF S
    <3> QED BY <2>1, <2>2, Upward
  <2> QED BY <2>3
<1>9. after \in [0 .. n -> G]
  <2> HIDE DEF after
  <2> QED BY <1>5, <1>8
<1> HIDE DEF after
<1>10. after \in AllRuns(G, s, order)
  BY <1>n, <1>6, <1>7, <1>9 DEF AllRuns
<1> QED BY <1>10

LEMMA TakeCurrentRuns ==
  ASSUME NEW G, NEW s \in G, NEW made, Len(made) \in Nat,
         \A t \in G, i \in 1 .. Len(made) : TakeRelease(t, made[i].id) \in G
  PROVE  CurrentRuns(G, s, made) # {}
<1>n. PICK n \in Nat : n = Len(made)
  OBVIOUS
<1> DEFINE Take(t, i) == IF Current(t, made[i]) THEN TakeRelease(t, made[i].id) ELSE t
           Step(f) == [i \in 0 .. n |-> IF i = 0 THEN s ELSE Take(f[i - 1], i)]
           after == CHOOSE f : f = Step(f)
           step == [i \in 1 .. n |-> [t \in G |-> Take(t, i)]]
<1>0. \A t \in G, i \in 1 .. n : Take(t, i) \in G
  BY <1>n
<1>6. TakeCurrent(s, made) = after[n]
  BY <1>n DEF TakeCurrent
<1>a. \A t, i : Take(t, i) = IF Current(t, made[i]) THEN TakeRelease(t, made[i].id) ELSE t
  OBVIOUS
<1> HIDE DEF Take
<1>1. step \in [1 .. n -> [G -> G]]
  BY <1>0
<1>2. PICK g \in [0 .. n -> G] : g[0] = s /\ \A i \in 1 .. n : g[i] = step[i][g[i - 1]]
  <2>1. PICK steps \in [1 .. n -> [G -> G]] : steps = step
    <3> HIDE DEF step
    <3> QED BY <1>1
  <2> HIDE DEF step
  <2>2. Runs(n, G, s, steps) # {}
    BY <1>n, <2>1, Iterates, Zenon
  <2>3. PICK g \in Runs(n, G, s, steps) : TRUE
    BY <2>2
  <2> QED BY <2>1, <2>3 DEF Runs
<1>3. ASSUME NEW i \in 1 .. n
      PROVE  i - 1 \in 0 .. n /\ g[i - 1] \in G /\ g[i] = Take(g[i - 1], i)
  <2>1. i - 1 \in 0 .. n /\ g[i - 1] \in G
    BY <1>2
  <2>2. step[i][g[i - 1]] = Take(g[i - 1], i)
    BY <2>1, <1>n
  <2> QED BY <2>1, <2>2, <1>2
<1>4. g = Step(g)
  <2>1. g = [i \in 0 .. n |-> g[i]]
    BY <1>2
  <2>2. \A i \in 0 .. n : g[i] = IF i = 0 THEN s ELSE Take(g[i - 1], i)
    <3> TAKE i \in 0 .. n
    <3>1. CASE i = 0
      BY <3>1, <1>2
    <3>2. CASE i # 0
      <4>1. i \in 1 .. n
        BY <3>2
      <4> QED BY <4>1, <3>2, <1>3
    <3> QED BY <3>1, <3>2
  <2> QED BY <2>1, <2>2, Zenon
<1>5. after = Step(after)
  <2> HIDE DEF Step
  <2> QED BY <1>4, Zenon
<1>7. after[0] = s /\ \A i \in 1 .. n : after[i] = Take(after[i - 1], i)
  <2> HIDE DEF after
  <2>1. \A i \in 0 .. n : after[i] = IF i = 0 THEN s ELSE Take(after[i - 1], i)
    BY <1>5
  <2>2. 0 \in 0 .. n /\ \A i \in 1 .. n : i \in 0 .. n /\ i # 0
    OBVIOUS
  <2> QED BY <2>1, <2>2, Zenon
<1>8. ASSUME NEW i \in 0 .. n
      PROVE  after[i] \in G
  <2> DEFINE S == {j \in 0 .. n : after[j] \in G}
  <2> HIDE DEF after
  <2>1. 0 \in S
    BY <1>7
  <2>2. \A j \in 1 .. i : j - 1 \in S => j \in S
    BY <1>0, <1>7
  <2>3. i \in S
    <3> HIDE DEF S
    <3> QED BY <2>1, <2>2, Upward
  <2> QED BY <2>3
<1>9. after \in [0 .. n -> G]
  <2> HIDE DEF after
  <2> QED BY <1>5, <1>8
<1> HIDE DEF after
<1>10. after \in CurrentRuns(G, s, made)
  BY <1>n, <1>6, <1>7, <1>9, <1>a DEF CurrentRuns
<1> QED BY <1>10
-----------------------------------------------------------------------------
(* A scope, and what its owners hold.                                      *)

ScopeType ==
  [closed : BOOLEAN, minted : 0 .. MaxMinted,
   exports : [Ids -> Owners \cup {None}], importer : [Ids -> Owners \cup {None}],
   attached : [Ids -> 0 .. MaxAttached], gone : Seq(Ids), dead : SUBSET Ids,
   owned : [Owners -> SUBSET Ids], linked : SUBSET Owners, released : SUBSET Owners]

AllocationType == [id : Ids, attached : 0 .. MaxAttached]

Tables(s) == Exported(s) \cup Imported(s)

\* What holds something is found from its root through children, and only
\* what leads to something is a child.
Linked(s) ==
  /\ \A o \in Owners : s.owned[o] # {} => \A a \in Line[o] : Parent[a] = None \/ a \in s.linked
  /\ \A a \in s.linked : \E o \in Owners : a \in Line[o] /\ s.owned[o] # {}

Holds(s, o, id) ==
  /\ {d \in Owners : id \in s.owned[d]} = {o} /\ {s.exports[id], s.importer[id]} = {o, None}
  /\ ~Ended(s, o)

\* All but ids, whose owner ended, belong to an owner that lives.
Held(s, ids) ==
  /\ Linked(s)
  /\ \A id \in Tables(s) \ ids : \E o \in Owners : Holds(s, o, id)
  /\ \A o \in Owners : s.owned[o] \subseteq Tables(s) \ ids

\* Linked, but for what prune looks at.
LinkedAbove(s, o) ==
  /\ \A d \in Owners : s.owned[d] # {} => \A a \in Line[d] : Parent[a] = None \/ a \in s.linked
  /\ \A a \in s.linked \ Line[o] : \E d \in Owners : a \in Line[d] /\ s.owned[d] # {}

\* What may change of a scope but the owners that are linked.
SameButLinked(s, t) ==
  /\ t.closed = s.closed /\ t.minted = s.minted /\ t.exports = s.exports /\ t.importer = s.importer
  /\ t.attached = s.attached /\ t.gone = s.gone /\ t.dead = s.dead
  /\ t.owned = s.owned /\ t.released = s.released

LEMMA PruneIs ==
  ASSUME NEW s \in ScopeType, NEW o
  PROVE  /\ Prune(s, o) \in ScopeType /\ SameButLinked(s, Prune(s, o))
         /\ Prune(s, o).linked = s.linked \ Pruned(s, o)
<1> DEFINE gone == Pruned(s, o)
<1> HIDE DEF gone
<1>1. Prune(s, o) = [s EXCEPT !.linked = s.linked \ gone]
  BY DEF Prune, gone
<1>2. s.linked \ gone \subseteq Owners
  BY DEF ScopeType
<1> QED BY <1>1, <1>2 DEF ScopeType, SameButLinked, gone

\* prune takes out no owner that leads to something, and leaves none that
\* leads to nothing.
LEMMA PruneKeeps ==
  ASSUME NEW s \in ScopeType, NEW o \in Owners, LinkedAbove(s, o)
  PROVE  Linked(Prune(s, o))
<1> DEFINE t == Prune(s, o)
<1>1. t.linked = s.linked \ Pruned(s, o) /\ t.owned = s.owned /\ s.linked \subseteq Owners
  BY PruneIs DEF SameButLinked, ScopeType
<1> HIDE DEF t
<1>2. ASSUME NEW d \in Owners, s.owned[d] # {}, NEW a \in Line[d], a \in Pruned(s, o), a \in s.linked
      PROVE  FALSE
  <2> DEFINE both == Line[o] \cap Line[d]
  <2>1. a \in both
    BY <1>2 DEF Pruned
  <2>2. both \subseteq 0 .. o /\ o \in Nat
    BY Family, LineBounds
  <2>3. PICK b \in both : \A e \in both : e <= b
    BY <2>1, <2>2, Greatest
  <2>4. b \in Line[o] /\ b \in Line[d] /\ b \in Owners
    BY <2>3, Family
  <2>5. a \in Line[b]
    BY <2>1, <2>3, <2>4, LineChain
  <2>6. /\ s.owned[b] = {}
        /\ \A e \in s.linked : Parent[e] = b => e \in Line[o]
    BY <1>2, <2>4, <2>5 DEF Pruned
  <2>7. PICK e \in Line[d] : Parent[e] = b
    BY <1>2, <2>4, <2>6, LineNext
  <2>8. e \in Owners /\ Parent[e] # None /\ b < e /\ b \in Nat /\ e \in Nat
    BY <2>4, <2>7, Family
  <2>9. e \in s.linked
    BY <1>2, <2>8 DEF LinkedAbove
  <2>10. e \in both
    BY <2>6, <2>7, <2>9
  <2> QED BY <2>3, <2>8, <2>10
<1>3. ASSUME NEW a \in t.linked
      PROVE  \E d \in Owners : a \in Line[d] /\ s.owned[d] # {}
  <2>1. a \in s.linked /\ a \notin Pruned(s, o)
    BY <1>1
  <2>2. CASE a \in Line[o]
    <3>1. PICK b \in Line[o] : /\ a \in Line[b]
                               /\ s.owned[b] # {} \/ \E d \in s.linked : Parent[d] = b /\ d \notin Line[o]
      BY <2>1, <2>2 DEF Pruned
    <3>2. b \in Owners
      BY <3>1, Family
    <3>3. CASE s.owned[b] # {}
      BY <3>1, <3>2, <3>3
    <3>4. ASSUME NEW d \in s.linked, Parent[d] = b, d \notin Line[o]
          PROVE  \E e \in Owners : a \in Line[e] /\ s.owned[e] # {}
      <4>1. PICK e \in Owners : d \in Line[e] /\ s.owned[e] # {}
        BY <3>4 DEF LinkedAbove
      <4>2. d \in Owners /\ Parent[d] # None
        BY <1>1, <3>2, <3>4, Family
      <4>3. a \in Line[d]
        BY <3>1, <3>4, <4>2, ParentLine
      <4>4. a \in Line[e]
        BY <4>1, <4>3, LineDown
      <4> QED BY <4>1, <4>4
    <3> QED BY <3>1, <3>3, <3>4
  <2>3. CASE a \notin Line[o]
    BY <2>1, <2>3 DEF LinkedAbove
  <2> QED BY <2>2, <2>3
<1>4. ASSUME NEW d \in Owners, s.owned[d] # {}, NEW a \in Line[d]
      PROVE  Parent[a] = None \/ a \in t.linked
  BY <1>1, <1>2, <1>4 DEF LinkedAbove
<1> QED BY <1>1, <1>3, <1>4 DEF Linked, t

\* The owner o has forgotten id.
Forgotten(s, t, o, id) ==
  /\ t.closed = s.closed /\ t.minted = s.minted /\ t.exports = s.exports /\ t.importer = s.importer
  /\ t.attached = s.attached /\ t.gone = s.gone /\ t.dead = s.dead /\ t.released = s.released
  /\ \A d \in Owners : t.owned[d] = IF d = o THEN s.owned[d] \ {id} ELSE s.owned[d]

LEMMA ForgetIs ==
  ASSUME NEW s \in ScopeType, NEW o \in Owners \cup {None}, NEW id
  PROVE  Forget(s, o, id) \in ScopeType /\ Forgotten(s, Forget(s, o, id), o, id)
<1>1. CASE o = None
  <2>1. \A d \in Owners : d # o
    BY <1>1, Family
  <2> QED BY <1>1, <2>1 DEF Forget, Forgotten
<1>2. CASE o # None
  <2> DEFINE r == [s EXCEPT !.owned[o] = @ \ {id}]
  <2>1. o \in Owners /\ Forget(s, o, id) = Prune(r, o)
    BY <1>2 DEF Forget
  <2>2. /\ r \in ScopeType
        /\ r.closed = s.closed /\ r.minted = s.minted /\ r.exports = s.exports /\ r.importer = s.importer
        /\ r.attached = s.attached /\ r.gone = s.gone /\ r.dead = s.dead /\ r.released = s.released
        /\ r.owned = [s.owned EXCEPT ![o] = @ \ {id}]
    BY <2>1 DEF ScopeType
  <2>3. \A d \in Owners : r.owned[d] = IF d = o THEN s.owned[d] \ {id} ELSE s.owned[d]
    BY <2>1, <2>2 DEF ScopeType
  <2> HIDE DEF r
  <2>4. Prune(r, o) \in ScopeType /\ SameButLinked(r, Prune(r, o))
    BY <2>2, PruneIs
  <2> QED BY <2>1, <2>2, <2>3, <2>4 DEF SameButLinked, Forgotten
<1> QED BY <1>1, <1>2

LEMMA ForgetKeeps ==
  ASSUME NEW s \in ScopeType, NEW o \in Owners \cup {None}, NEW id, Linked(s)
  PROVE  Linked(Forget(s, o, id))
<1>1. CASE o = None
  BY <1>1 DEF Forget
<1>2. CASE o # None
  <2> DEFINE r == [s EXCEPT !.owned[o] = @ \ {id}]
  <2>1. o \in Owners /\ Forget(s, o, id) = Prune(r, o)
    BY <1>2 DEF Forget
  <2>2. r \in ScopeType /\ r.linked = s.linked
    BY <2>1 DEF ScopeType
  <2>3. \A d \in Owners : r.owned[d] = IF d = o THEN s.owned[d] \ {id} ELSE s.owned[d]
    BY <2>1 DEF ScopeType
  <2> HIDE DEF r
  <2>4. LinkedAbove(r, o)
    <3>1. ASSUME NEW d \in Owners, r.owned[d] # {}, NEW a \in Line[d]
          PROVE  Parent[a] = None \/ a \in r.linked
      BY <2>2, <2>3, <3>1 DEF Linked
    <3>2. ASSUME NEW a \in r.linked \ Line[o]
          PROVE  \E d \in Owners : a \in Line[d] /\ r.owned[d] # {}
      <4>1. PICK d \in Owners : a \in Line[d] /\ s.owned[d] # {}
        BY <2>2 DEF Linked
      <4>2. d # o
        BY <3>2, <4>1
      <4> QED BY <2>3, <4>1, <4>2
    <3> QED BY <3>1, <3>2 DEF LinkedAbove
  <2> QED BY <2>1, <2>2, <2>4, PruneKeeps
<1> QED BY <1>1, <1>2
\* The tombstones are in order, each once, and no more than the limit.
Tombed(s) ==
  Len(s.gone) <= Limit /\ \A i, j \in 1 .. Len(s.gone) : i # j => s.gone[i] # s.gone[j]

LEMMA LimitIsNat == setting \in Settings => Limit \in Nat
BY SettingsAssumption DEF Limit

LEMMA BuriedIs ==
  ASSUME setting \in Settings, NEW gone \in Seq(Ids), NEW id \in Ids
  PROVE  /\ Buried(gone, id) \in Seq(Ids)
         /\ \A i \in 1 .. Len(Buried(gone, id)) :
              Buried(gone, id)[i] = id \/ \E j \in 1 .. Len(gone) : Buried(gone, id)[i] = gone[j]
         /\ /\ Len(gone) <= Limit
            /\ \A i, j \in 1 .. Len(gone) : i # j => gone[i] # gone[j]
            => /\ Len(Buried(gone, id)) <= Limit
               /\ \A i, j \in 1 .. Len(Buried(gone, id)) :
                    i # j => Buried(gone, id)[i] # Buried(gone, id)[j]
<1>1. PICK n \in Nat : n = Limit
  BY LimitIsNat
<1>2. PICK more \in Seq(Ids) :
        more = IF \E i \in 1 .. Len(gone) : gone[i] = id THEN gone ELSE Append(gone, id)
  <2>1. gone \in Seq(Ids) /\ Append(gone, id) \in Seq(Ids)
    OBVIOUS
  <2> QED BY <2>1, Zenon
<1>3. /\ \A i \in 1 .. Len(more) : more[i] = id \/ \E j \in 1 .. Len(gone) : more[i] = gone[j]
      /\ Len(gone) <= n => Len(more) <= n + 1
      /\ (\A i, j \in 1 .. Len(gone) : i # j => gone[i] # gone[j])
           => \A i, j \in 1 .. Len(more) : i # j => more[i] # more[j]
  <2>1. CASE \E i \in 1 .. Len(gone) : gone[i] = id
    BY <1>2, <2>1
  <2>2. CASE ~\E i \in 1 .. Len(gone) : gone[i] = id
    <3>1. more = Append(gone, id) /\ Len(more) = Len(gone) + 1
      BY <1>2, <2>2
    <3>2. more[Len(gone) + 1] = id /\ \A i \in 1 .. Len(gone) : more[i] = gone[i]
      BY <3>1
    <3>3. \A i \in 1 .. Len(more) : i \in 1 .. Len(gone) \/ i = Len(gone) + 1
      BY <3>1
    <3> QED BY <1>1, <2>2, <3>1, <3>2, <3>3
  <2> QED BY <2>1, <2>2
<1>4. PICK k \in Nat : k = IF Len(more) > n THEN Len(more) - n ELSE 0
  <2>1. n \in Nat /\ Len(more) \in Nat
    BY <1>1, <1>2
  <2> QED BY <2>1
<1>5. Buried(gone, id) = SubSeq(more, k + 1, Len(more))
  <2>1. Buried(gone, id) = SubSeq(more, IF Len(more) > n THEN Len(more) - n + 1 ELSE 1, Len(more))
    BY <1>1, <1>2 DEF Buried
  <2> QED BY <1>1, <1>2, <1>4, <2>1
<1>6. PICK b : b = SubSeq(more, k + 1, Len(more))
  OBVIOUS
<1>7. /\ b \in Seq(Ids) /\ Len(b) = Len(more) - k
      /\ \A i \in 1 .. Len(b) : i + k \in 1 .. Len(more) /\ b[i] = more[i + k]
  <2>1. k <= Len(more) /\ Len(more) \in Nat /\ k \in Nat
    BY <1>1, <1>2, <1>4
  <2>2. Len(b) = Len(more) - k /\ b \in Seq(Ids)
    BY <1>2, <1>6, <2>1
  <2>3. \A i \in 1 .. Len(more) - k : b[i] = more[i + k]
    BY <1>2, <1>6, <2>1
  <2> QED BY <2>1, <2>2, <2>3
<1>8. \A i \in 1 .. Len(b) : b[i] = id \/ \E j \in 1 .. Len(gone) : b[i] = gone[j]
  BY <1>3, <1>7
<1>9. ASSUME Len(gone) <= n, \A i, j \in 1 .. Len(gone) : i # j => gone[i] # gone[j]
      PROVE  Len(b) <= n /\ \A i, j \in 1 .. Len(b) : i # j => b[i] # b[j]
  <2>1. Len(more) <= n + 1 /\ \A i, j \in 1 .. Len(more) : i # j => more[i] # more[j]
    BY <1>3, <1>9
  <2>2. Len(b) <= n
    BY <1>1, <1>2, <1>4, <1>7, <2>1
  <2>3. ASSUME NEW i \in 1 .. Len(b), NEW j \in 1 .. Len(b), i # j
        PROVE  b[i] # b[j]
    <3>1. i + k # j + k /\ i + k \in 1 .. Len(more) /\ j + k \in 1 .. Len(more)
      BY <1>4, <1>7, <2>3
    <3> QED BY <1>7, <2>1, <3>1
  <2> QED BY <2>2, <2>3
<1>10. Buried(gone, id) = b
  BY <1>5, <1>6
<1> QED BY <1>1, <1>7, <1>8, <1>9, <1>10

\* What a release does to a scope.
Taken(s, t, id) ==
  /\ t.closed = s.closed /\ t.minted = s.minted /\ t.attached = s.attached
  /\ t.released = s.released
  /\ ~Takes(s, id) => t = s
  /\ Takes(s, id) =>
       /\ t.exports = [s.exports EXCEPT ![id] = None]
       /\ t.importer = [s.importer EXCEPT ![id] = None]
       /\ t.gone = Buried(s.gone, id) /\ t.dead = s.dead \cup {id}
       /\ \A d \in Owners : t.owned[d] =
            IF d \in {s.exports[id], s.importer[id]} THEN s.owned[d] \ {id} ELSE s.owned[d]
  /\ Linked(s) => Linked(t)

LEMMA TakeReleaseIs ==
  ASSUME setting \in Settings, NEW s \in ScopeType, NEW id \in Ids
  PROVE  TakeRelease(s, id) \in ScopeType /\ Taken(s, TakeRelease(s, id), id)
<1>1. CASE ~Takes(s, id)
  BY <1>1 DEF TakeRelease, Taken
<1>2. CASE Takes(s, id)
  <2>1. PICK e \in Owners \cup {None}, i \in Owners \cup {None} :
          e = s.exports[id] /\ i = s.importer[id]
    BY DEF ScopeType
  <2>2. PICK gone \in Seq(Ids) : gone = Buried(s.gone, id)
    BY BuriedIs DEF ScopeType
  <2> DEFINE r == [s EXCEPT !.exports[id] = None, !.importer[id] = None,
                            !.gone = gone, !.dead = @ \cup {id}]
  <2>3. /\ r.closed = s.closed /\ r.minted = s.minted /\ r.attached = s.attached
        /\ r.released = s.released /\ r.owned = s.owned /\ r.linked = s.linked
        /\ r.exports = [s.exports EXCEPT ![id] = None]
        /\ r.importer = [s.importer EXCEPT ![id] = None]
        /\ r.gone = gone /\ r.dead = s.dead \cup {id}
    BY DEF ScopeType
  <2>4. r \in ScopeType
    <3>1. [s.exports EXCEPT ![id] = None] \in [Ids -> Owners \cup {None}]
      BY DEF ScopeType
    <3>2. [s.importer EXCEPT ![id] = None] \in [Ids -> Owners \cup {None}]
      BY DEF ScopeType
    <3> QED BY <2>2, <3>1, <3>2 DEF ScopeType
  <2>5. TakeRelease(s, id) = Forget(Forget(r, e, id), i, id)
    BY <1>2, <2>1, <2>2 DEF TakeRelease
  <2> HIDE DEF r
  <2>6. PICK m : m = Forget(r, e, id)
    OBVIOUS
  <2>7. PICK t : t = Forget(m, i, id)
    OBVIOUS
  <2>8. m \in ScopeType /\ Forgotten(r, m, e, id)
    BY <2>1, <2>4, <2>6, ForgetIs
  <2>9. t \in ScopeType /\ Forgotten(m, t, i, id)
    BY <2>1, <2>8, <2>7, ForgetIs
  <2>10. ASSUME NEW d \in Owners
         PROVE  t.owned[d] = IF d \in {e, i} THEN s.owned[d] \ {id} ELSE s.owned[d]
    <3>1. m.owned[d] = IF d = e THEN s.owned[d] \ {id} ELSE s.owned[d]
      BY <2>3, <2>8 DEF Forgotten
    <3>2. t.owned[d] = IF d = i THEN m.owned[d] \ {id} ELSE m.owned[d]
      BY <2>9 DEF Forgotten
    <3>3. CASE d = i
      <4>1. t.owned[d] = m.owned[d] \ {id} /\ d \in {e, i}
        BY <3>2, <3>3
      <4> QED BY <3>1, <4>1
    <3>4. CASE d # i
      BY <3>1, <3>2, <3>4
    <3> QED BY <3>3, <3>4
  <2>11. Linked(s) => Linked(t)
    <3>1. Linked(s) => Linked(r)
      BY <2>3 DEF Linked
    <3>2. Linked(r) => Linked(m)
      BY <2>1, <2>4, <2>6, ForgetKeeps
    <3>3. Linked(m) => Linked(t)
      BY <2>1, <2>8, <2>7, ForgetKeeps
    <3> QED BY <3>1, <3>2, <3>3
  <2>12. TakeRelease(s, id) = t
    BY <2>5, <2>6, <2>7
  <2>13. /\ t.closed = s.closed /\ t.minted = s.minted /\ t.attached = s.attached
         /\ t.released = s.released /\ t.gone = gone /\ t.dead = s.dead \cup {id}
         /\ t.exports = [s.exports EXCEPT ![id] = None]
         /\ t.importer = [s.importer EXCEPT ![id] = None]
    BY <2>3, <2>8, <2>9 DEF Forgotten
  <2> QED BY <1>2, <2>1, <2>2, <2>9, <2>10, <2>11, <2>12, <2>13 DEF Taken
<1> QED BY <1>1, <1>2

\* A release takes its binding from its owner, and from what an ended owner left.
LEMMA TakeReleaseHeld ==
  ASSUME setting \in Settings, NEW s \in ScopeType, NEW id \in Ids, NEW ids, Held(s, ids), ~s.closed
  PROVE  Held(TakeRelease(s, id), ids \ {id})
<1>1. PICK t : t = TakeRelease(s, id)
  OBVIOUS
<1>0. t \in ScopeType /\ Taken(s, t, id)
  BY <1>1, TakeReleaseIs
<1>2. /\ t \in ScopeType /\ t.released = s.released /\ Linked(t)
      /\ ~Takes(s, id) => t = s
      /\ Takes(s, id) =>
           /\ t.exports = [s.exports EXCEPT ![id] = None]
           /\ t.importer = [s.importer EXCEPT ![id] = None]
           /\ \A d \in Owners : t.owned[d] =
                IF d \in {s.exports[id], s.importer[id]} THEN s.owned[d] \ {id} ELSE s.owned[d]
  BY <1>0 DEF Taken, Held
<1>3. CASE ~Takes(s, id)
  <2>1. id \notin Tables(s)
    BY <1>3 DEF Takes, Tables
  <2> QED BY <1>1, <1>2, <1>3, <2>1 DEF Held
<1>4. CASE Takes(s, id)
  <2>1. Tables(t) = Tables(s) \ {id}
    BY <1>2, <1>4 DEF Tables, Exported, Imported, ScopeType
  <2>2. \A x \in Ids : x # id => t.exports[x] = s.exports[x] /\ t.importer[x] = s.importer[x]
    BY <1>2, <1>4 DEF ScopeType
  <2>3. ASSUME NEW d \in Owners, id \in s.owned[d]
        PROVE  d \in {s.exports[id], s.importer[id]}
    <3>1. id \in Tables(s) \ ids
      BY <2>3 DEF Held
    <3>2. PICK o \in Owners : Holds(s, o, id)
      BY <3>1 DEF Held
    <3>3. d = o
      BY <2>3, <3>2 DEF Holds
    <3> QED BY <3>2, <3>3 DEF Holds
  <2>4. \A d \in Owners : t.owned[d] = s.owned[d] \ {id}
    BY <1>2, <1>4, <2>3, ZenonT(60)
  <2>5. ASSUME NEW x \in Tables(t) \ (ids \ {id})
        PROVE  \E o \in Owners : Holds(t, o, x)
    <3>1. x # id /\ x \in Tables(s) \ ids /\ x \in Ids
      BY <2>1, <2>5 DEF Tables, Exported, Imported
    <3>2. PICK o \in Owners : Holds(s, o, x)
      BY <3>1 DEF Held
    <3>3. {d \in Owners : x \in t.owned[d]} = {d \in Owners : x \in s.owned[d]}
      BY <2>4, <3>1
    <3>4. Holds(t, o, x)
      BY <1>2, <2>2, <3>1, <3>2, <3>3 DEF Holds, Ended
    <3> QED BY <3>4
  <2>6. \A o \in Owners : t.owned[o] \subseteq Tables(t) \ (ids \ {id})
    BY <2>1, <2>4 DEF Held
  <2> QED BY <1>1, <1>2, <2>5, <2>6 DEF Held
<1> QED BY <1>3, <1>4
\* What tombstones and the history of releases say of the tables.
Buries(s) ==
  /\ Tombed(s) /\ Tombstones(s) \subseteq s.dead
  /\ Tables(s) \cap Tombstones(s) = {} /\ Exported(s) \cap s.dead = {}
  /\ s.closed => Tables(s) = {}

\* The bindings ids are released, and no other.
Reduced(s, t, ids) ==
  /\ t \in ScopeType /\ Buries(t)
  /\ t.closed = s.closed /\ t.minted = s.minted /\ t.attached = s.attached
  /\ t.released = s.released
  /\ s.closed => t = s
  /\ \A x \in Ids \ ids : t.exports[x] = s.exports[x] /\ t.importer[x] = s.importer[x]
  /\ ~s.closed => \A x \in ids : t.exports[x] = None /\ t.importer[x] = None /\ x \in t.dead
  /\ s.dead \subseteq t.dead /\ t.dead \subseteq s.dead \cup ids

LEMMA NothingReduced ==
  ASSUME NEW s \in ScopeType, Buries(s)
  PROVE  Reduced(s, s, {})
BY DEF Reduced

LEMMA ReducedAgain ==
  ASSUME NEW s, NEW t, NEW u, NEW ids \in SUBSET Ids, NEW more \in SUBSET Ids,
         Reduced(s, t, ids), Reduced(t, u, more)
  PROVE  Reduced(s, u, ids \cup more)
<1>1. /\ u \in ScopeType /\ Buries(u)
      /\ u.closed = s.closed /\ u.minted = s.minted /\ u.attached = s.attached
      /\ u.released = s.released
      /\ s.closed => u = s
      /\ s.dead \subseteq u.dead /\ u.dead \subseteq s.dead \cup (ids \cup more)
  BY DEF Reduced
<1>2. ASSUME NEW x \in Ids \ (ids \cup more)
      PROVE  u.exports[x] = s.exports[x] /\ u.importer[x] = s.importer[x]
  BY DEF Reduced
<1>3. ASSUME ~s.closed, NEW x \in ids \cup more
      PROVE  u.exports[x] = None /\ u.importer[x] = None /\ x \in u.dead
  <2>1. CASE x \in more
    BY <1>3, <2>1 DEF Reduced
  <2>2. CASE x \notin more
    BY <1>3, <2>2 DEF Reduced
  <2> QED BY <2>1, <2>2
<1> QED BY <1>1, <1>2, <1>3 DEF Reduced

LEMMA TakeReleaseReduces ==
  ASSUME setting \in Settings, NEW s \in ScopeType, NEW id \in Ids, Buries(s)
  PROVE  Reduced(s, TakeRelease(s, id), {id})
<1>1. PICK t : t = TakeRelease(s, id)
  OBVIOUS
<1>2. t \in ScopeType /\ Taken(s, t, id)
  BY <1>1, TakeReleaseIs
<1>3. CASE ~Takes(s, id)
  <2>1. t = s
    BY <1>2, <1>3 DEF Taken
  <2>2. ~s.closed => s.exports[id] = None /\ s.importer[id] = None /\ id \in s.dead
    BY <1>3 DEF Takes, Exported, Imported, Buries
  <2> QED BY <1>1, <2>1, <2>2 DEF Reduced
<1>4. CASE Takes(s, id)
  <2>1. /\ ~s.closed /\ t.closed = s.closed /\ t.minted = s.minted /\ t.attached = s.attached
        /\ t.released = s.released
        /\ t.exports = [s.exports EXCEPT ![id] = None]
        /\ t.importer = [s.importer EXCEPT ![id] = None]
        /\ t.gone = Buried(s.gone, id) /\ t.dead = s.dead \cup {id}
    BY <1>2, <1>4 DEF Taken, Takes
  <2>2. /\ t.exports[id] = None /\ t.importer[id] = None
        /\ \A x \in Ids \ {id} : t.exports[x] = s.exports[x] /\ t.importer[x] = s.importer[x]
    BY <2>1 DEF ScopeType
  <2>3. Tables(t) = Tables(s) \ {id} /\ Exported(t) = Exported(s) \ {id}
    BY <2>2 DEF Tables, Exported, Imported
  <2>4. Tombed(t) /\ Tombstones(t) \subseteq Tombstones(s) \cup {id}
    <3>1. PICK gone \in Seq(Ids) : gone = s.gone
      BY DEF ScopeType
    <3>4. /\ \A i \in 1 .. Len(Buried(gone, id)) :
              Buried(gone, id)[i] = id \/ \E j \in 1 .. Len(gone) : Buried(gone, id)[i] = gone[j]
          /\ /\ Len(gone) <= Limit
             /\ \A i, j \in 1 .. Len(gone) : i # j => gone[i] # gone[j]
             => /\ Len(Buried(gone, id)) <= Limit
                /\ \A i, j \in 1 .. Len(Buried(gone, id)) :
                     i # j => Buried(gone, id)[i] # Buried(gone, id)[j]
      BY <3>1, BuriedIs
    <3>5. PICK b : b = Buried(gone, id)
      OBVIOUS
    <3>6. t.gone = b
      BY <2>1, <3>1, <3>5
    <3>2. Tombed(t)
      BY <3>1, <3>4, <3>5, <3>6 DEF Tombed, Buries
    <3>3. \A i \in 1 .. Len(t.gone) : t.gone[i] = id \/ \E j \in 1 .. Len(s.gone) : t.gone[i] = s.gone[j]
      BY <3>1, <3>4, <3>5, <3>6
    <3> QED BY <3>2, <3>3 DEF Tombstones
  <2>5. Buries(t)
    BY <2>1, <2>3, <2>4 DEF Buries
  <2> QED BY <1>1, <1>2, <2>1, <2>2, <2>5 DEF Reduced
<1> QED BY <1>3, <1>4

\* Owner.Release releases exactly the bindings it has to.
LEMMA TakeAllReduces ==
  ASSUME setting \in Settings, NEW s \in ScopeType, Buries(s),
         NEW order, Len(order) \in Nat, \A i \in 1 .. Len(order) : order[i] \in Ids
  PROVE  Reduced(s, TakeAll(s, order), {order[i] : i \in 1 .. Len(order)})
<1>0. PICK f \in AllRuns(ScopeType, s, order) : TRUE
  <2>1. \A t \in ScopeType, i \in 1 .. Len(order) : TakeRelease(t, order[i]) \in ScopeType
    BY TakeReleaseIs
  <2>2. AllRuns(ScopeType, s, order) # {}
    BY <2>1, TakeAllRuns
  <2> QED BY <2>2
<1>1. /\ f \in [0 .. Len(order) -> ScopeType] /\ f[0] = s /\ f[Len(order)] = TakeAll(s, order)
      /\ \A i \in 1 .. Len(order) : f[i] = TakeRelease(f[i - 1], order[i])
  BY <1>0 DEF AllRuns
<1> DEFINE S == {i \in 0 .. Len(order) : Reduced(s, f[i], {order[j] : j \in 1 .. i})}
<1>2. 0 \in S
  <2>1. {order[j] : j \in 1 .. 0} = {}
    OBVIOUS
  <2>2. Reduced(s, f[0], {})
    BY <1>1, NothingReduced
  <2> QED BY <2>1, <2>2, SMTT(30)
<1>3. ASSUME NEW i \in 1 .. Len(order), i - 1 \in S
      PROVE  i \in S
  <2>1. Reduced(s, f[i - 1], {order[j] : j \in 1 .. i - 1})
    BY <1>3
  <2>2. f[i - 1] \in ScopeType /\ Buries(f[i - 1])
    BY <2>1 DEF Reduced
  <2>3. Reduced(f[i - 1], f[i], {order[i]})
    BY <1>1, <2>2, TakeReleaseReduces
  <2>4. {order[j] : j \in 1 .. i} = {order[j] : j \in 1 .. i - 1} \cup {order[i]}
    <3>1. \A j \in 1 .. i : j \in 1 .. i - 1 \/ j = i
      OBVIOUS
    <3>2. i \in 1 .. i /\ \A j \in 1 .. i - 1 : j \in 1 .. i
      OBVIOUS
    <3> QED BY <3>1, <3>2
  <2>5. {order[j] : j \in 1 .. i - 1} \subseteq Ids /\ {order[i]} \subseteq Ids
    OBVIOUS
  <2>6. Reduced(s, f[i], {order[j] : j \in 1 .. i})
    BY <2>1, <2>3, <2>4, <2>5, ReducedAgain
  <2> QED BY <2>6
<1>4. Len(order) \in S
  <2> HIDE DEF S
  <2> QED BY <1>2, <1>3, Upward
<1> QED BY <1>1, <1>4

\* And discard exactly those that still are what the batch allocated.
LEMMA TakeCurrentReduces ==
  ASSUME setting \in Settings, NEW s \in ScopeType, Buries(s),
         NEW made \in Seq(AllocationType)
  PROVE  Reduced(s, TakeCurrent(s, made), {made[i].id : i \in {j \in 1 .. Len(made) : Current(s, made[j])}})
<1>n. PICK n \in Nat : n = Len(made)
  OBVIOUS
<1>nat. n \in Nat /\ 0 \in 0 .. n
  BY <1>n
<1>id. \A i \in 1 .. n : made[i].id \in Ids
  <2>1. \A i \in 1 .. n : made[i] \in AllocationType
    BY <1>n
  <2> QED BY <2>1 DEF AllocationType
<1>0. PICK f \in CurrentRuns(ScopeType, s, made) : TRUE
  <2>1. \A t \in ScopeType, i \in 1 .. Len(made) : TakeRelease(t, made[i].id) \in ScopeType
    BY <1>n, <1>id, TakeReleaseIs
  <2>2. CurrentRuns(ScopeType, s, made) # {}
    BY <1>n, <1>nat, <2>1, TakeCurrentRuns
  <2> QED BY <2>2
<1>1. /\ f \in [0 .. n -> ScopeType] /\ f[0] = s /\ f[n] = TakeCurrent(s, made)
      /\ \A i \in 1 .. n :
           f[i] = IF Current(f[i - 1], made[i]) THEN TakeRelease(f[i - 1], made[i].id) ELSE f[i - 1]
  BY <1>n, <1>0 DEF CurrentRuns
<1> DEFINE C(i) == {made[j].id : j \in {k \in 1 .. i : Current(s, made[k])}}
           S == {i \in 0 .. n : Reduced(s, f[i], C(i))}
<1>2. 0 \in S
  <2>1. C(0) = {}
    OBVIOUS
  <2>2. Reduced(s, f[0], {})
    BY <1>1, NothingReduced
  <2>3. Reduced(s, f[0], C(0))
    <3> HIDE DEF C
    <3> QED BY <2>1, <2>2
  <2> HIDE DEF C
  <2> QED BY <1>nat, <2>3
<1>3. ASSUME NEW i \in 1 .. n, i - 1 \in S
      PROVE  i \in S
  <2> DEFINE id == made[i].id
  <2>1. Reduced(s, f[i - 1], C(i - 1)) /\ id \in Ids
    BY <1>3, <1>nat, <1>id
  <2> HIDE DEF C
  <2> SUFFICES Reduced(s, f[i], C(i))
    BY <1>nat
  <2> HIDE DEF S
  <2>2. f[i - 1] \in ScopeType /\ Buries(f[i - 1])
    BY <2>1 DEF Reduced
  <2>3. \A j \in 1 .. i : j \in 1 .. i - 1 \/ j = i
    OBVIOUS
  <2>4. i \in 1 .. i /\ \A j \in 1 .. i - 1 : j \in 1 .. i /\ j \in 1 .. Len(made)
    <3>1. i \in 1 .. n
      OBVIOUS
    <3> QED BY <3>1, <1>n, <1>nat
  <2>5. C(i) = C(i - 1) \cup (IF Current(s, made[i]) THEN {id} ELSE {})
    BY <2>3, <2>4 DEF C
  <2>6. C(i - 1) \subseteq Ids
    BY <2>4, <1>n, <1>id DEF C
  <2> DEFINE before == C(i - 1)
             now == C(i)
  <2> HIDE DEF before, now
  <2>7. CASE id \in before
    <3>1. now = before
      BY <2>5, <2>7 DEF before, now
    <3>2. ~s.closed
      <4>1. \E j \in 1 .. Len(made) : Current(s, made[j]) /\ made[j].id \in Ids
        BY <2>4, <2>7, <1>n, <1>id DEF before, C
      <4> QED BY <4>1 DEF Current, Buries, Tables, Exported, Imported
    <3>3. ~Current(f[i - 1], made[i])
      BY <2>1, <2>7, <3>2 DEF Reduced, Current, before
    <3>4. f[i] = f[i - 1]
      BY <1>1, <3>3
    <3> QED BY <2>1, <3>1, <3>4 DEF before, now
  <2>8. CASE id \notin before
    <3>1. Current(f[i - 1], made[i]) <=> Current(s, made[i])
      BY <2>1, <2>8 DEF Reduced, Current, before
    <3>2. CASE Current(s, made[i])
      <4>1. f[i] = TakeRelease(f[i - 1], id)
        BY <1>1, <3>1, <3>2
      <4>2. Reduced(f[i - 1], f[i], {id})
        BY <2>1, <2>2, <4>1, TakeReleaseReduces
      <4>3. now = before \cup {id} /\ {id} \subseteq Ids /\ before \subseteq Ids
        BY <2>1, <2>5, <2>6, <3>2 DEF before, now
      <4>4. Reduced(s, f[i - 1], before)
        BY <2>1 DEF before
      <4>5. Reduced(s, f[i], now)
        BY <4>2, <4>3, <4>4, ReducedAgain
      <4> QED BY <4>5 DEF now
    <3>3. CASE ~Current(s, made[i])
      <4>1. f[i] = f[i - 1] /\ now = before
        BY <1>1, <2>5, <3>1, <3>3 DEF before, now
      <4> QED BY <2>1, <4>1 DEF before, now
    <3> QED BY <3>2, <3>3
  <2> QED BY <2>7, <2>8
<1>4. n \in S
  <2> HIDE DEF S
  <2> QED BY <1>n, <1>2, <1>3, Upward
<1> QED BY <1>n, <1>1, <1>4
-----------------------------------------------------------------------------
(* The end of an owner, and what an owner takes on.                        *)

\* An owner that holds something is reached from each of its ancestors.
LEMMA HoldersAreReached ==
  ASSUME NEW s \in ScopeType, Held(s, {}), NEW o \in Owners, NEW d \in Owners,
         s.owned[d] # {}, o \in Line[d]
  PROVE  d \in Reached(s, o)
<1>1. \A a \in Line[d] : a \notin s.released
  <2>1. PICK id \in s.owned[d] : TRUE
    OBVIOUS
  <2>2. id \in Tables(s) \ {}
    BY <2>1 DEF Held
  <2>3. PICK e \in Owners : Holds(s, e, id)
    BY <2>2 DEF Held
  <2>4. d = e
    BY <2>1, <2>3 DEF Holds
  <2> QED BY <2>3, <2>4 DEF Holds, Ended
<1>2. ASSUME NEW a \in Line[d] \ Line[o]
      PROVE  a \in s.linked
  <2>1. a \in Owners /\ a \in Nat /\ o \in Nat /\ o \in Line[o]
    BY <1>2, Family, LineBounds
  <2>2. ~(a <= o)
    BY <1>2, LineChain
  <2>3. o \in Line[a]
    BY <1>2, <2>1, <2>2, LineChain
  <2>4. Parent[a] # None
    BY <1>2, <2>1, <2>3, RootLine
  <2> QED BY <1>2, <2>4 DEF Held, Linked
<1> QED BY <1>1, <1>2 DEF Reached

\* What is reached is reached through all between.
LEMMA ReachedThrough ==
  ASSUME NEW s \in ScopeType, NEW o \in Owners, NEW d \in Reached(s, o), NEW a \in Line[d]
  PROVE  a \in Reached(s, o) \/ a \in Line[o]
<1> SUFFICES ASSUME a \notin Line[o]
             PROVE  a \in Reached(s, o)
  OBVIOUS
<1>1. d \in Owners /\ o \in Line[d] /\ \A x \in Line[d] \ Line[o] : x \in s.linked \ s.released
  BY DEF Reached
<1>2. a \in Owners /\ a \in Nat /\ o \in Nat /\ Line[a] \subseteq Line[d]
  BY <1>1, Family, LineDown
<1>3. ~(a <= o)
  BY <1>1, LineChain
<1>4. o \in Line[a]
  BY <1>1, <1>2, <1>3, LineChain
<1> QED BY <1>1, <1>2, <1>4 DEF Reached

\* What is told of a scope whose owner o has ended.
OwnerEnded(s, t, o) ==
  /\ t.closed = s.closed /\ t.minted = s.minted /\ t.exports = s.exports /\ t.importer = s.importer
  /\ t.attached = s.attached /\ t.gone = s.gone /\ t.dead = s.dead
  /\ EndedIds(s, o) \subseteq Ids

LEMMA EndOwnerIs ==
  ASSUME NEW s \in ScopeType, NEW o \in Owners
  PROVE  EndOwner(s, o) \in ScopeType /\ OwnerEnded(s, EndOwner(s, o), o)
<1>1. CASE o \in s.released
  BY <1>1 DEF EndOwner, EndedIds, OwnerEnded
<1>2. CASE o \notin s.released
  <2>1. PICK below \in SUBSET Owners : below = Reached(s, o)
    BY DEF Reached
  <2>r. PICK owned \in [Owners -> SUBSET Ids] :
          owned = [d \in Owners |-> IF d \in below THEN {} ELSE s.owned[d]]
    <3>1. [d \in Owners |-> IF d \in below THEN {} ELSE s.owned[d]] \in [Owners -> SUBSET Ids]
      BY DEF ScopeType
    <3> QED BY <3>1
  <2> DEFINE r == [s EXCEPT !.released = s.released \cup below, !.owned = owned,
                            !.linked = s.linked \ (below \ {o})]
  <2>2. EndOwner(s, o) = Prune(r, o)
    BY <1>2, <2>1, <2>r DEF EndOwner
  <2>3. /\ r \in ScopeType
        /\ r.closed = s.closed /\ r.minted = s.minted /\ r.exports = s.exports /\ r.importer = s.importer
        /\ r.attached = s.attached /\ r.gone = s.gone /\ r.dead = s.dead
    BY <2>r DEF ScopeType
  <2> HIDE DEF r
  <2>4. Prune(r, o) \in ScopeType /\ SameButLinked(r, Prune(r, o))
    BY <2>3, PruneIs
  <2>5. EndedIds(s, o) \subseteq Ids
    BY <1>2, <2>1 DEF EndedIds, ScopeType
  <2> QED BY <2>2, <2>3, <2>4, <2>5 DEF SameButLinked, OwnerEnded
<1> QED BY <1>1, <1>2

\* The owners below an ended one give up all they held, and no other does.
LEMMA EndOwnerHeld ==
  ASSUME NEW s \in ScopeType, NEW o \in Owners, Held(s, {})
  PROVE  Held(EndOwner(s, o), EndedIds(s, o))
<1>1. CASE o \in s.released
  BY <1>1 DEF EndOwner, EndedIds
<1>2. CASE o \notin s.released
  <2>1. PICK below \in SUBSET Owners : below = Reached(s, o)
    BY DEF Reached
  <2>2. PICK ids \in SUBSET Ids : ids = EndedIds(s, o)
    BY EndOwnerIs DEF OwnerEnded
  <2>3. \A id \in Ids : id \in ids <=> \E d \in below : id \in s.owned[d]
    BY <1>2, <2>1, <2>2 DEF EndedIds
  <2>r. PICK owned \in [Owners -> SUBSET Ids] :
          owned = [d \in Owners |-> IF d \in below THEN {} ELSE s.owned[d]]
    <3>1. [d \in Owners |-> IF d \in below THEN {} ELSE s.owned[d]] \in [Owners -> SUBSET Ids]
      BY DEF ScopeType
    <3> QED BY <3>1
  <2> DEFINE r == [s EXCEPT !.released = s.released \cup below, !.owned = owned,
                            !.linked = s.linked \ (below \ {o})]
  <2>4. EndOwner(s, o) = Prune(r, o)
    BY <1>2, <2>1, <2>r DEF EndOwner
  <2>5. /\ r \in ScopeType /\ r.exports = s.exports /\ r.importer = s.importer
        /\ r.released = s.released \cup below /\ r.linked = s.linked \ (below \ {o})
        /\ \A d \in Owners : r.owned[d] = IF d \in below THEN {} ELSE s.owned[d]
    BY <2>r DEF ScopeType
  <2> HIDE DEF r
  <2>6. o \in Line[o] /\ o \in Owners
    BY LineBounds
  <2>7. ASSUME NEW d \in Owners, s.owned[d] # {}, NEW a \in Line[d], a \in below
        PROVE  d \in below
    <3>1. a \in Owners /\ o \in Line[a]
      BY <2>1, <2>7 DEF Reached
    <3>2. o \in Line[d]
      BY <2>7, <3>1, LineDown
    <3> QED BY <2>1, <2>7, <3>2, HoldersAreReached
  <2>8. LinkedAbove(r, o)
    <3>1. ASSUME NEW d \in Owners, r.owned[d] # {}, NEW a \in Line[d]
          PROVE  Parent[a] = None \/ a \in r.linked
      <4>1. d \notin below /\ s.owned[d] # {}
        BY <2>5, <3>1
      <4>2. a \notin below
        BY <2>7, <3>1, <4>1
      <4>3. Parent[a] = None \/ a \in s.linked
        BY <3>1, <4>1 DEF Held, Linked
      <4> QED BY <2>5, <4>2, <4>3
    <3>2. ASSUME NEW a \in r.linked \ Line[o]
          PROVE  \E d \in Owners : a \in Line[d] /\ r.owned[d] # {}
      <4>1. a \in s.linked /\ a \notin below /\ a \notin Line[o]
        BY <2>5, <2>6, <3>2
      <4>2. PICK d \in Owners : a \in Line[d] /\ s.owned[d] # {}
        BY <4>1 DEF Held, Linked
      <4>3. d \notin below
        BY <2>1, <4>1, <4>2, ReachedThrough
      <4> QED BY <2>5, <4>2, <4>3
    <3> QED BY <3>1, <3>2 DEF LinkedAbove
  <2>9. PICK t : t = Prune(r, o)
    OBVIOUS
  <2>10. t \in ScopeType /\ SameButLinked(r, t) /\ Linked(t)
    BY <2>5, <2>8, <2>9, PruneIs, PruneKeeps
  <2>11. /\ t.exports = s.exports /\ t.importer = s.importer /\ t.released = s.released \cup below
         /\ \A d \in Owners : t.owned[d] = IF d \in below THEN {} ELSE s.owned[d]
    BY <2>5, <2>10 DEF SameButLinked
  <2>12. Tables(t) = Tables(s)
    BY <2>11 DEF Tables, Exported, Imported
  <2>13. ASSUME NEW id \in Tables(t) \ ids
         PROVE  \E d \in Owners : Holds(t, d, id)
    <3>1. id \in Tables(s) \ {} /\ id \in Ids /\ id \notin ids
      BY <2>12, <2>13 DEF Tables, Exported, Imported
    <3>2. PICK d \in Owners : Holds(s, d, id)
      BY <3>1 DEF Held
    <3>3. id \in s.owned[d] /\ d \notin below
      BY <2>3, <3>1, <3>2 DEF Holds
    <3>4. {e \in Owners : id \in t.owned[e]} = {d}
      <4>1. {e \in Owners : id \in s.owned[e]} = {d}
        BY <3>2 DEF Holds
      <4>2. \A e \in Owners : id \in t.owned[e] <=> (e \notin below /\ id \in s.owned[e])
        BY <2>11
      <4> QED BY <3>3, <4>1, <4>2
    <3>5. ~Ended(t, d)
      <4>1. \A a \in Line[d] : a \notin below
        BY <2>7, <3>3
      <4> QED BY <2>11, <3>2, <4>1 DEF Holds, Ended
    <3>6. {t.exports[id], t.importer[id]} = {d, None}
      BY <2>11, <3>2 DEF Holds
    <3>7. Holds(t, d, id)
      BY <3>4, <3>5, <3>6 DEF Holds
    <3> QED BY <3>7
  <2>14. ASSUME NEW d \in Owners, NEW id \in t.owned[d]
         PROVE  id \in Tables(t) \ ids
    <3>1. d \notin below /\ id \in s.owned[d]
      BY <2>11, <2>14
    <3>2. id \in Tables(s) \ {}
      BY <3>1 DEF Held
    <3>3. PICK e \in Owners : {x \in Owners : id \in s.owned[x]} = {e}
      BY <3>2 DEF Held, Holds
    <3>4. id \notin ids
      <4>1. \A x \in below : id \in s.owned[x] => x = d
        BY <3>1, <3>3
      <4>2. id \in Ids
        BY <3>2 DEF Tables, Exported, Imported
      <4> QED BY <2>3, <3>1, <4>1, <4>2
    <3> QED BY <2>12, <3>2, <3>4
  <2>15. Held(t, ids)
    BY <2>10, <2>13, <2>14 DEF Held
  <2> QED BY <2>2, <2>4, <2>9, <2>15
<1> QED BY <1>1, <1>2

\* The releases that follow leave nothing of an ended owner.
LEMMA TakeAllHeld ==
  ASSUME setting \in Settings, NEW s \in ScopeType, ~s.closed, NEW ids, Held(s, ids),
         NEW order, Len(order) \in Nat, \A i \in 1 .. Len(order) : order[i] \in Ids,
         ids \subseteq {order[i] : i \in 1 .. Len(order)}
  PROVE  Held(TakeAll(s, order), {})
<1>0. PICK f \in AllRuns(ScopeType, s, order) : TRUE
  <2>1. \A t \in ScopeType, i \in 1 .. Len(order) : TakeRelease(t, order[i]) \in ScopeType
    BY TakeReleaseIs
  <2>2. AllRuns(ScopeType, s, order) # {}
    BY <2>1, TakeAllRuns
  <2> QED BY <2>2
<1>1. /\ f \in [0 .. Len(order) -> ScopeType] /\ f[0] = s /\ f[Len(order)] = TakeAll(s, order)
      /\ \A i \in 1 .. Len(order) : f[i] = TakeRelease(f[i - 1], order[i])
  BY <1>0 DEF AllRuns
<1> DEFINE taken(i) == {order[j] : j \in 1 .. i}
           S == {i \in 0 .. Len(order) : ~f[i].closed /\ Held(f[i], ids \ taken(i))}
<1>2. 0 \in S
  <2>1. taken(0) = {} /\ 0 \in 0 .. Len(order) /\ ids \ {} = ids
    OBVIOUS
  <2> HIDE DEF taken
  <2> QED BY <1>1, <2>1
<1>3. ASSUME NEW i \in 1 .. Len(order), i - 1 \in S
      PROVE  i \in S
  <2>1. i - 1 \in 0 .. Len(order) /\ i \in 0 .. Len(order) /\ f[i - 1] \in ScopeType /\ order[i] \in Ids
    BY <1>1
  <2>2. ~f[i - 1].closed /\ Held(f[i - 1], ids \ taken(i - 1)) /\ f[i] = TakeRelease(f[i - 1], order[i])
    BY <1>1, <1>3
  <2>3. taken(i) = taken(i - 1) \cup {order[i]}
    <3>1. \A j \in 1 .. i : j \in 1 .. i - 1 \/ j = i
      OBVIOUS
    <3>2. i \in 1 .. i /\ \A j \in 1 .. i - 1 : j \in 1 .. i
      OBVIOUS
    <3> QED BY <3>1, <3>2
  <2> HIDE DEF taken
  <2>4. ids \ taken(i) = (ids \ taken(i - 1)) \ {order[i]}
    BY <2>3
  <2>5. Held(f[i], ids \ taken(i))
    BY <2>1, <2>2, <2>4, TakeReleaseHeld
  <2>6. ~f[i].closed
    <3>1. Taken(f[i - 1], f[i], order[i])
      BY <2>1, <2>2, TakeReleaseIs
    <3> QED BY <2>2, <3>1 DEF Taken
  <2> QED BY <2>1, <2>5, <2>6
<1>4. Len(order) \in S
  <2> HIDE DEF S
  <2> QED BY <1>2, <1>3, Upward
<1>5. ids \ taken(Len(order)) = {}
  OBVIOUS
<1> HIDE DEF taken
<1> QED BY <1>1, <1>4, <1>5

LEMMA TakeCurrentHeld ==
  ASSUME setting \in Settings, NEW s \in ScopeType, ~s.closed, Held(s, {}),
         NEW made \in Seq(AllocationType)
  PROVE  Held(TakeCurrent(s, made), {})
<1>n. PICK n \in Nat : n = Len(made)
  OBVIOUS
<1>id. \A i \in 1 .. n : made[i].id \in Ids
  <2>1. \A i \in 1 .. n : made[i] \in AllocationType
    BY <1>n
  <2> QED BY <2>1 DEF AllocationType
<1> DEFINE G == {t \in ScopeType : ~t.closed /\ Held(t, {})}
<1>1. ASSUME NEW t \in G, NEW i \in 1 .. Len(made)
      PROVE  TakeRelease(t, made[i].id) \in G
  <2>1. t \in ScopeType /\ ~t.closed /\ Held(t, {}) /\ made[i].id \in Ids
    BY <1>1, <1>n, <1>id
  <2>2. TakeRelease(t, made[i].id) \in ScopeType /\ ~TakeRelease(t, made[i].id).closed
    BY <2>1, TakeReleaseIs DEF Taken
  <2>3. {} \ {made[i].id} = {}
    OBVIOUS
  <2>4. Held(TakeRelease(t, made[i].id), {})
    BY <2>1, <2>3, TakeReleaseHeld
  <2> QED BY <2>2, <2>4
<1>2. s \in G /\ Len(made) \in Nat
  BY <1>n
<1>3. PICK gs : gs = G
  OBVIOUS
<1>4. s \in gs /\ \A t \in gs, i \in 1 .. Len(made) : TakeRelease(t, made[i].id) \in gs
  BY <1>1, <1>2, <1>3
<1>5. CurrentRuns(gs, s, made) # {}
  <2> HIDE DEF G
  <2> QED BY <1>2, <1>4, TakeCurrentRuns
<1>6. PICK f \in CurrentRuns(gs, s, made) : TRUE
  BY <1>5
<1>7. f[Len(made)] \in gs /\ f[Len(made)] = TakeCurrent(s, made)
  BY <1>2, <1>6 DEF CurrentRuns
<1> QED BY <1>3, <1>7
\* An order of a set of bindings has each of them.
LEMMA OrdersCover ==
  ASSUME NEW ids \in SUBSET Ids, NEW order \in Orders(ids)
  PROVE  /\ Len(order) \in Nat /\ \A i \in 1 .. Len(order) : order[i] \in Ids
         /\ {order[i] : i \in 1 .. Len(order)} = ids
<1>1. IsFiniteSet(ids)
  <2>1. IsFiniteSet(1 .. MaxMinted)
    <3>1. 1 \in Int /\ MaxMinted \in Int
      BY BoundsAssumption
    <3> QED BY <3>1, FS_Interval
  <2>2. IsFiniteSet({"a", "b"})
    <3>1. IsFiniteSet({} \cup {"a"})
      BY FS_EmptySet, FS_AddElement
    <3>2. IsFiniteSet(({} \cup {"a"}) \cup {"b"})
      BY <3>1, FS_AddElement
    <3>3. {"a", "b"} = ({} \cup {"a"}) \cup {"b"}
      OBVIOUS
    <3> QED BY <3>2, <3>3, Zenon
  <2>3. IsFiniteSet(Sides \X (1 .. MaxMinted))
    BY <2>1, <2>2, FS_Product DEF Sides
  <2> QED BY <2>3, FS_Subset DEF Ids
<1>2. PICK n \in Nat : n = Cardinality(ids)
  BY <1>1, FS_CardinalityType
<1>3. order \in [1 .. n -> ids] /\ \A i, j \in 1 .. n : i # j => order[i] # order[j]
  BY <1>2 DEF Orders
<1>4. order \in Seq(ids) /\ Len(order) = n
  <2>1. order \in Seq(ids)
    BY <1>3, SeqDef
  <2>2. DOMAIN order = 1 .. n /\ DOMAIN order = 1 .. Len(order) /\ Len(order) \in Nat
    BY <1>3, <2>1, LenProperties
  <2> QED BY <2>1, <2>2
<1>5. order \in Injection(1 .. n, ids)
  BY <1>3 DEF Injection, IsInjective
<1>6. Cardinality(1 .. n) = n
  BY FS_Interval
<1>7. order \in Surjection(1 .. n, ids)
  BY <1>1, <1>2, <1>5, <1>6, FS_Injection
<1>8. \A x \in ids : \E i \in 1 .. n : order[i] = x
  BY <1>7 DEF Surjection
<1> QED BY <1>3, <1>4, <1>8

\* Each tombstone is there once.
LEMMA TombstonesCounted ==
  ASSUME NEW s \in ScopeType, Tombed(s)
  PROVE  Cardinality(Tombstones(s)) = Len(s.gone)
<1>1. PICK n \in Nat : n = Len(s.gone)
  BY DEF ScopeType
<1>2. PICK gone \in Seq(Ids) : gone = s.gone
  BY DEF ScopeType
<1>3. gone \in [1 .. n -> Tombstones(s)] /\ \A i, j \in 1 .. n : i # j => gone[i] # gone[j]
  BY <1>1, <1>2 DEF Tombed, Tombstones
<1>4. gone \in Surjection(1 .. n, Tombstones(s)) /\ gone \in Injection(1 .. n, Tombstones(s))
  <2>1. \A x \in Tombstones(s) : \E i \in 1 .. n : gone[i] = x
    BY <1>1, <1>2 DEF Tombstones
  <2> QED BY <1>3, <2>1 DEF Surjection, Injection, IsInjective
<1>5. IsFiniteSet(1 .. n) /\ Cardinality(1 .. n) = n
  BY FS_Interval
<1>6. Cardinality(Tombstones(s)) = Cardinality(1 .. n)
  BY <1>4, <1>5, FS_Surjection
<1> QED BY <1>1, <1>5, <1>6

\* A binding that is new in the tables, and its owner.
Recorded(s, t, o, id) ==
  /\ t.closed = s.closed /\ t.gone = s.gone /\ t.dead = s.dead /\ t.released = s.released
  /\ \A x \in Ids \ {id} : t.exports[x] = s.exports[x] /\ t.importer[x] = s.importer[x]
  /\ {t.exports[id], t.importer[id]} = {o, None}
  /\ t.linked = s.linked \cup {a \in Line[o] : Parent[a] # None}
  /\ \A d \in Owners : t.owned[d] = IF d = o THEN s.owned[d] \cup {id} ELSE s.owned[d]

LEMMA RecordHeld ==
  ASSUME NEW s \in ScopeType, NEW t \in ScopeType, NEW o \in Owners, NEW id \in Ids \ Tables(s),
         Held(s, {}), ~Ended(s, o), Recorded(s, t, o, id)
  PROVE  Held(t, {})
<1>0. o # None
  BY Family
<1>1. Tables(t) = Tables(s) \cup {id}
  <2>1. t.exports[id] # None \/ t.importer[id] # None
    BY <1>0 DEF Recorded
  <2> QED BY <2>1 DEF Recorded, Tables, Exported, Imported
<1>2. ASSUME NEW d \in Owners
      PROVE  id \notin s.owned[d]
  BY DEF Held
<1>3. Linked(t)
  <2>1. ASSUME NEW d \in Owners, t.owned[d] # {}, NEW a \in Line[d], Parent[a] # None
        PROVE  a \in t.linked
    <3>1. CASE d = o
      BY <2>1, <3>1 DEF Recorded
    <3>2. CASE d # o
      BY <2>1, <3>2 DEF Recorded, Held, Linked
    <3> QED BY <3>1, <3>2
  <2>2. ASSUME NEW a \in t.linked
        PROVE  \E d \in Owners : a \in Line[d] /\ t.owned[d] # {}
    <3>1. CASE a \in Line[o]
      <4>1. t.owned[o] # {}
        BY DEF Recorded
      <4> QED BY <3>1, <4>1
    <3>2. CASE a \notin Line[o]
      <4>1. PICK d \in Owners : a \in Line[d] /\ s.owned[d] # {}
        BY <2>2, <3>2 DEF Recorded, Held, Linked
      <4>2. t.owned[d] # {}
        BY <4>1 DEF Recorded
      <4> QED BY <4>1, <4>2
    <3> QED BY <3>1, <3>2
  <2> QED BY <2>1, <2>2 DEF Linked
<1>4. ASSUME NEW x \in Tables(t) \ {}
      PROVE  \E d \in Owners : Holds(t, d, x)
  <2>1. CASE x = id
    <3>1. {d \in Owners : id \in t.owned[d]} = {o}
      BY <1>2 DEF Recorded
    <3>2. ~Ended(t, o) /\ {t.exports[id], t.importer[id]} = {o, None}
      BY DEF Recorded, Ended
    <3> QED BY <2>1, <3>1, <3>2 DEF Holds
  <2>2. CASE x # id
    <3>1. x \in Tables(s) \ {} /\ x \in Ids \ {id}
      BY <1>1, <1>4, <2>2 DEF Tables, Exported, Imported
    <3>2. PICK d \in Owners : Holds(s, d, x)
      BY <3>1 DEF Held
    <3>3. {e \in Owners : x \in t.owned[e]} = {e \in Owners : x \in s.owned[e]}
      BY <2>2 DEF Recorded
    <3>4. Holds(t, d, x)
      BY <3>1, <3>2, <3>3 DEF Holds, Recorded, Ended
    <3> QED BY <3>4
  <2> QED BY <2>1, <2>2
<1>5. \A d \in Owners : t.owned[d] \subseteq Tables(t) \ {}
  BY <1>1 DEF Recorded, Held
<1> QED BY <1>3, <1>4, <1>5 DEF Held
-----------------------------------------------------------------------------
(* The inductive invariant.                                                *)

BuildType == [owner : Owners, allocations : Seq(AllocationType)]
CallType ==
  [at : {"idle", "waiting", "returned"}, by : Sides, id : Ids,
   served : {"none", "sent", "found", "running", "result", "done"},
   answer : {"none", "ok", "closed", "released", "unknown", "failed"}, late : BOOLEAN]

Types ==
  /\ setting \in Settings /\ up \in [Sides -> BOOLEAN]
  /\ scope \in [Sides -> ScopeType]
  /\ batch \in [Sides -> Seq(BuildType)]
  /\ publishing \in [Sides -> Seq(AllocationType)]
  /\ unwinding \in [Sides -> Seq(AllocationType)]
  /\ known \in [Sides -> SUBSET Ids] /\ notices \in [Sides -> SUBSET Ids]
  /\ call \in [Calls -> CallType]
  /\ \A p \in Sides : Len(batch[p]) <= setting.nested /\ scope[p].minted <= setting.minted[p]

\* The bindings that p has exported so far.
Minted(p) == {id \in Ids : id[1] = p /\ id[2] <= scope[p].minted}

\* The tables hold what was exported here, or there and sent; what is dead was
\* released, and only that is told; bindings have no attachment where they are
\* exported.
TablesInv(p) ==
  /\ Buries(scope[p])
  /\ Exported(scope[p]) \subseteq Minted(p) /\ Imported(scope[p]) \subseteq known[p]
  /\ known[p] \subseteq Minted(Other(p))
  /\ scope[p].dead \subseteq Minted(p) \cup Minted(Other(p))
  /\ notices[p] \subseteq scope[p].dead
  /\ \A id \in Ids : id[1] = p => scope[p].attached[id] = 0
  /\ ~scope[p].closed => Held(scope[p], {})

\* The exports among the allocations of a build, and those of all builds.
Own(p, made) == {made[i].id : i \in {j \in DOMAIN made : made[j].id[1] = p}}
OwnIn(p, builds) == UNION {Own(p, builds[v].allocations) : v \in DOMAIN builds}
Owns(p) == Own(p, publishing[p]) \cup Own(p, unwinding[p]) \cup OwnIn(p, batch[p])

\* An export of a build is not sent before the build is complete, and it is in
\* one build; a complete value is alone.
BuildInv(p) ==
  /\ publishing[p] # <<>> => batch[p] = <<>> /\ unwinding[p] = <<>>
  /\ Owns(p) \subseteq Minted(p) \ known[Other(p)]
  /\ Own(p, unwinding[p]) \cap OwnIn(p, batch[p]) = {}
  /\ \A v, w \in DOMAIN batch[p] :
       v # w => Own(p, batch[p][v].allocations) \cap Own(p, batch[p][w].allocations) = {}

\* What a build notes of its exports has no attachment.
Fresh(p, made) == \A i \in DOMAIN made : made[i].id[1] = p => made[i].attached = 0
FreshInv(p) ==
  /\ Fresh(p, publishing[p]) /\ Fresh(p, unwinding[p])
  /\ \A v \in DOMAIN batch[p] : Fresh(p, batch[p][v].allocations)

\* The other side knows it, or may come to know it.
Knowable(p) == known[Other(p)] \cup Owns(p)

\* What can be known of an open scope is there, or told, or was released there.
LearnInv(p) ==
  ~scope[p].closed /\ ~scope[Other(p)].closed /\ up[p] /\ up[Other(p)]
    => Knowable(p) \subseteq Exported(scope[p]) \cup notices[p] \cup scope[Other(p)].dead

\* A late call is not found, and looks for what is dead.
CallInv(c) == call[c].late =>
  /\ call[c].served \in {"none", "sent", "done"}
  /\ call[c].served = "sent" => call[c].id \in scope[call[c].id[1]].dead

SideInv(p) == TablesInv(p) /\ BuildInv(p) /\ FreshInv(p) /\ LearnInv(p)
Inv == Types /\ (\A p \in Sides : SideInv(p)) /\ \A c \in Calls : CallInv(c)

-----------------------------------------------------------------------------
(* What revokes bindings, of one side: a release, a notice, the end of an  *)
(* owner or a failed build.                                                *)

\* The bindings ids are released, and no other.
Shrunk(s, t, ids) ==
  /\ t \in ScopeType /\ Buries(t)
  /\ t.closed = s.closed /\ t.minted = s.minted /\ t.attached = s.attached
  /\ \A x \in Ids \ ids : t.exports[x] = s.exports[x] /\ t.importer[x] = s.importer[x]
  /\ ~s.closed => \A x \in ids : t.exports[x] = None /\ t.importer[x] = None /\ x \in t.dead
  /\ s.dead \subseteq t.dead /\ t.dead \subseteq s.dead \cup ids
  /\ ~s.closed => Held(t, {})

Revokes(p, ids) ==
  /\ Shrunk(scope[p], scope'[p], ids) /\ scope'[p].dead \subseteq Minted(p) \cup Minted(Other(p))
  /\ scope' \in [Sides -> ScopeType] /\ scope'[Other(p)] = scope[Other(p)]
  /\ UNCHANGED <<setting, up, batch, publishing, known, call>>
  /\ unwinding' \in {unwinding, [unwinding EXCEPT ![p] = <<>>]}
  /\ notices' \in [Sides -> SUBSET Ids]
  /\ notices[p] \subseteq notices'[p] /\ notices'[p] \subseteq notices[p] \cup scope'[p].dead
  /\ notices'[Other(p)] \subseteq notices[Other(p)]
  /\ ~scope[p].closed => notices[Other(p)] \subseteq notices'[Other(p)] \cup scope'[p].dead
  /\ ~scope[p].closed /\ up[p]
       => ids \cap (known[Other(p)] \cup Owns(p)') \subseteq notices'[p] \cup scope[Other(p)].dead

LEMMA TwoSides ==
  ASSUME NEW p \in Sides
  PROVE  Other(p) \in Sides /\ Other(p) # p /\ Other(Other(p)) = p /\ Sides = {p, Other(p)}
BY DEF Sides, Other

LEMMA ReleaseRevokes ==
  ASSUME Inv, NEW p \in Sides, NEW id \in Ids, Release(p, id)
  PROVE  Revokes(p, {id})
<1>1. /\ setting \in Settings /\ scope \in [Sides -> ScopeType] /\ scope[p] \in ScopeType
      /\ notices \in [Sides -> SUBSET Ids] /\ up \in [Sides -> BOOLEAN]
      /\ Buries(scope[p]) /\ ~scope[p].closed /\ Held(scope[p], {}) /\ known[p] \subseteq Minted(Other(p))
      /\ scope[p].dead \subseteq Minted(p) \cup Minted(Other(p))
  BY DEF Inv, Types, SideInv, TablesInv, Release, Takes
<1>2. PICK t : t = TakeRelease(scope[p], id)
  OBVIOUS
<1>3. Reduced(scope[p], t, {id}) /\ Held(t, {})
  <2>1. {} \ {id} = {}
    OBVIOUS
  <2> QED BY <1>1, <1>2, <2>1, TakeReleaseReduces, TakeReleaseHeld
<1>4. Shrunk(scope[p], t, {id})
  BY <1>3 DEF Reduced, Shrunk
<1>5. t \in ScopeType
  BY <1>3 DEF Reduced
<1>6. Other(p) \in Sides /\ Other(p) # p
  BY TwoSides
<1>7. scope'[p] = t /\ scope'[Other(p)] = scope[Other(p)] /\ scope' \in [Sides -> ScopeType]
  BY <1>1, <1>2, <1>5, <1>6 DEF Release
<1>8. scope'[p].dead \subseteq Minted(p) \cup Minted(Other(p))
  <2>1. id \in Minted(p) \cup Minted(Other(p))
    BY <1>1 DEF Release, Minted
  <2> QED BY <1>1, <1>3, <1>7, <2>1 DEF Reduced
<1>9. /\ notices' \in [Sides -> SUBSET Ids] /\ notices'[Other(p)] = notices[Other(p)]
      /\ notices'[p] = IF up[p] THEN notices[p] \cup {id} ELSE notices[p]
  BY <1>1, <1>6 DEF Release, Tell
<1>10. id \in t.dead
  BY <1>1, <1>3 DEF Reduced
<1>11. UNCHANGED <<setting, up, batch, publishing, known, call>> /\ unwinding' = unwinding
  BY DEF Release, buildVars
<1> QED BY <1>1, <1>4, <1>7, <1>8, <1>9, <1>10, <1>11 DEF Revokes

LEMMA OnReleaseRevokes ==
  ASSUME Inv, NEW p \in Sides, NEW id \in Ids, OnRelease(p, id)
  PROVE  Revokes(p, {id})
<1>6. Other(p) \in Sides /\ Other(p) # p /\ Other(Other(p)) = p
  BY TwoSides
<1>1. /\ setting \in Settings /\ scope \in [Sides -> ScopeType] /\ scope[p] \in ScopeType
      /\ notices \in [Sides -> SUBSET Ids] /\ up \in [Sides -> BOOLEAN]
      /\ Buries(scope[p]) /\ (~scope[p].closed => Held(scope[p], {}))
      /\ id \in scope[Other(p)].dead /\ scope[Other(p)].dead \subseteq Minted(p) \cup Minted(Other(p))
      /\ scope[p].dead \subseteq Minted(p) \cup Minted(Other(p))
  BY <1>6 DEF Inv, Types, SideInv, TablesInv, OnRelease
<1>2. PICK t : t = TakeRelease(scope[p], id)
  OBVIOUS
<1>3. Reduced(scope[p], t, {id}) /\ (~scope[p].closed => Held(t, {}))
  <2>1. {} \ {id} = {}
    OBVIOUS
  <2> QED BY <1>1, <1>2, <2>1, TakeReleaseReduces, TakeReleaseHeld
<1>4. Shrunk(scope[p], t, {id})
  BY <1>3 DEF Reduced, Shrunk
<1>5. t \in ScopeType
  BY <1>3 DEF Reduced
<1>7. scope'[p] = t /\ scope'[Other(p)] = scope[Other(p)] /\ scope' \in [Sides -> ScopeType]
  BY <1>1, <1>2, <1>5, <1>6 DEF OnRelease
<1>9. /\ notices' \in [Sides -> SUBSET Ids] /\ notices'[Other(p)] = notices[Other(p)] \ {id}
      /\ notices'[p] = notices[p]
  BY <1>1, <1>6 DEF OnRelease
<1>10. ~scope[p].closed => id \in t.dead
  BY <1>3 DEF Reduced
<1>11. UNCHANGED <<setting, up, batch, publishing, known, call>> /\ unwinding' = unwinding
  BY DEF OnRelease, buildVars
<1>12. t.dead \subseteq Minted(p) \cup Minted(Other(p))
  BY <1>1, <1>3 DEF Reduced
<1> QED BY <1>1, <1>4, <1>7, <1>9, <1>10, <1>11, <1>12 DEF Revokes

LEMMA OwnerReleaseRevokes ==
  ASSUME Inv, NEW p \in Sides, NEW o \in Owners, OwnerRelease(p, o)
  PROVE  Revokes(p, EndedIds(scope[p], o))
<1>6. Other(p) \in Sides /\ Other(p) # p
  BY TwoSides
<1>1. /\ setting \in Settings /\ scope \in [Sides -> ScopeType] /\ scope[p] \in ScopeType
      /\ notices \in [Sides -> SUBSET Ids] /\ up \in [Sides -> BOOLEAN]
      /\ Buries(scope[p]) /\ (~scope[p].closed => Held(scope[p], {}))
      /\ Exported(scope[p]) \subseteq Minted(p) /\ Imported(scope[p]) \subseteq Minted(Other(p))
  BY DEF Inv, Types, SideInv, TablesInv
<1>2. PICK ids \in SUBSET Ids : ids = EndedIds(scope[p], o)
  BY <1>1, EndOwnerIs DEF OwnerEnded
<1>3. PICK order \in Orders(ids) : scope' = [scope EXCEPT ![p] = TakeAll(EndOwner(@, o), order)]
  BY <1>2 DEF OwnerRelease
<1>4. PICK u \in ScopeType : u = EndOwner(scope[p], o)
  BY <1>1, EndOwnerIs
<1>5. PICK t : t = TakeAll(u, order)
  OBVIOUS
<1>7. OwnerEnded(scope[p], u, o) /\ (~scope[p].closed => Held(u, ids))
  BY <1>1, <1>2, <1>4, EndOwnerIs, EndOwnerHeld
<1>8. Buries(u)
  BY <1>1, <1>7 DEF OwnerEnded, Buries, Tombed, Tombstones, Tables, Exported, Imported
<1>9. /\ Len(order) \in Nat /\ \A i \in 1 .. Len(order) : order[i] \in Ids
      /\ {order[i] : i \in 1 .. Len(order)} = ids
  BY OrdersCover
<1>10. Reduced(u, t, ids)
  BY <1>1, <1>5, <1>8, <1>9, TakeAllReduces
<1>11. ~scope[p].closed => Held(t, {})
  <2>1. u.closed = scope[p].closed
    BY <1>7 DEF OwnerEnded
  <2> QED BY <1>1, <1>5, <1>7, <1>9, <2>1, TakeAllHeld
<1>12. Shrunk(scope[p], t, ids)
  BY <1>7, <1>10, <1>11 DEF OwnerEnded, Reduced, Shrunk
<1>13. t \in ScopeType
  BY <1>10 DEF Reduced
<1>14. scope'[p] = t /\ scope'[Other(p)] = scope[Other(p)] /\ scope' \in [Sides -> ScopeType]
  BY <1>1, <1>3, <1>4, <1>5, <1>6, <1>13
<1>15. ~scope[p].closed => \A x \in ids : x \in t.dead
  BY <1>12 DEF Shrunk
<1>16. /\ notices' \in [Sides -> SUBSET Ids] /\ notices'[Other(p)] = notices[Other(p)]
       /\ notices'[p] = IF up[p] /\ ~scope[p].closed THEN notices[p] \cup ids ELSE notices[p]
  <2>1. Tell(p, IF scope[p].closed THEN {} ELSE ids)
    BY <1>2 DEF OwnerRelease
  <2> QED BY <1>1, <1>6, <2>1 DEF Tell
<1>17. t.dead \subseteq Minted(p) \cup Minted(Other(p))
  <2>1. scope[p].dead \subseteq Minted(p) \cup Minted(Other(p)) /\ u.dead = scope[p].dead
        /\ u.closed = scope[p].closed
    BY <1>7 DEF Inv, SideInv, TablesInv, OwnerEnded
  <2>2. CASE scope[p].closed
    BY <1>10, <2>1, <2>2 DEF Reduced
  <2>3. CASE ~scope[p].closed
    <3>1. \A x \in ids : \E d \in Owners : x \in scope[p].owned[d]
      BY <1>2 DEF EndedIds, Reached
    <3>2. ids \subseteq Tables(scope[p])
      BY <1>1, <2>3, <3>1 DEF Held
    <3>3. ids \subseteq Minted(p) \cup Minted(Other(p))
      BY <1>1, <3>2 DEF Tables
    <3> QED BY <1>10, <2>1, <3>3 DEF Reduced
  <2> QED BY <2>2, <2>3
<1>18. UNCHANGED <<setting, up, batch, publishing, known, call>> /\ unwinding' = unwinding
  BY DEF OwnerRelease, buildVars
<1>19. Revokes(p, ids)
  BY <1>1, <1>12, <1>14, <1>15, <1>16, <1>17, <1>18 DEF Revokes
<1> QED BY <1>2, <1>19
\* What Discard is about: the bindings that still are what the batch allocated.
Discarded(p) ==
  {unwinding[p][i].id : i \in {j \in 1 .. Len(unwinding[p]) : Current(scope[p], unwinding[p][j])}}

LEMMA DiscardRevokes ==
  ASSUME Inv, NEW p \in Sides, Discard(p)
  PROVE  Revokes(p, Discarded(p)) /\ unwinding' = [unwinding EXCEPT ![p] = <<>>]
<1>6. Other(p) \in Sides /\ Other(p) # p
  BY TwoSides
<1>1. /\ setting \in Settings /\ scope \in [Sides -> ScopeType] /\ scope[p] \in ScopeType
      /\ notices \in [Sides -> SUBSET Ids] /\ up \in [Sides -> BOOLEAN]
      /\ unwinding \in [Sides -> Seq(AllocationType)]
      /\ Buries(scope[p]) /\ (~scope[p].closed => Held(scope[p], {}))
      /\ Exported(scope[p]) \subseteq Minted(p) /\ Imported(scope[p]) \subseteq Minted(Other(p))
      /\ scope[p].dead \subseteq Minted(p) \cup Minted(Other(p))
  BY DEF Inv, Types, SideInv, TablesInv
<1>2. PICK made \in Seq(AllocationType) : made = unwinding[p]
  BY <1>1
<1>3. PICK ids : ids = Discarded(p)
  OBVIOUS
<1>4. \A x : x \in ids <=> \E i \in 1 .. Len(made) : x = made[i].id /\ Current(scope[p], made[i])
  BY <1>2, <1>3 DEF Discarded
<1>5. \A i \in 1 .. Len(made) : made[i] \in AllocationType /\ made[i].id \in Ids
  <2>1. \A i \in 1 .. Len(made) : made[i] \in AllocationType
    BY <1>2
  <2> QED BY <2>1 DEF AllocationType
<1>7. ids \subseteq Tables(scope[p]) /\ ids \in SUBSET Ids
  BY <1>4, <1>5 DEF Current, Tables, Exported, Imported
<1>8. PICK t : t = TakeCurrent(scope[p], made)
  OBVIOUS
<1>9. Reduced(scope[p], t, ids) /\ (~scope[p].closed => Held(t, {}))
  <2>1. Reduced(scope[p], t, ids)
    BY <1>1, <1>2, <1>3, <1>8, TakeCurrentReduces DEF Discarded
  <2>2. ~scope[p].closed => Held(t, {})
    BY <1>1, <1>2, <1>8, TakeCurrentHeld
  <2> QED BY <2>1, <2>2
<1>10. Shrunk(scope[p], t, ids) /\ t \in ScopeType
  BY <1>9 DEF Reduced, Shrunk
<1>11. scope'[p] = t /\ scope'[Other(p)] = scope[Other(p)] /\ scope' \in [Sides -> ScopeType]
  BY <1>1, <1>2, <1>6, <1>8, <1>10 DEF Discard
<1>12. t.dead \subseteq Minted(p) \cup Minted(Other(p))
  BY <1>1, <1>7, <1>9 DEF Reduced, Tables
<1>13. ~scope[p].closed => \A x \in ids : x \in t.dead
  BY <1>10 DEF Shrunk
<1>14. ids # {} => ~scope[p].closed
  BY <1>1, <1>7 DEF Buries
<1>15. /\ notices' \in [Sides -> SUBSET Ids] /\ notices'[Other(p)] = notices[Other(p)]
       /\ notices'[p] = IF up[p] THEN notices[p] \cup (ids \cap Imported(scope[p])) ELSE notices[p]
  <2>0. DOMAIN unwinding[p] = 1 .. Len(made)
    BY <1>2
  <2>1. Tell(p, ids \cap Imported(scope[p]))
    BY <1>2, <1>3, <2>0 DEF Discard, Discarded
  <2> QED BY <1>1, <1>6, <1>7, <2>1 DEF Tell
<1>16. UNCHANGED <<setting, up, batch, publishing, known, call>>
       /\ unwinding' = [unwinding EXCEPT ![p] = <<>>]
  BY DEF Discard
<1>17. ASSUME NEW x \in ids, x \notin Imported(scope[p])
       PROVE  x \notin known[Other(p)] \cup Owns(p)'
  <2>1. PICK i \in 1 .. Len(made) : x = made[i].id /\ Current(scope[p], made[i])
    BY <1>4
  <2>2. x \in Minted(p)
    BY <1>1, <1>7, <1>17 DEF Tables
  <2>3. x \in Own(p, unwinding[p])
    BY <1>2, <2>1, <2>2 DEF Own, Minted
  <2>4. BuildInv(p) /\ unwinding[p] # <<>>
    BY DEF Inv, SideInv, Discard
  <2>5. publishing[p] = <<>> /\ x \notin OwnIn(p, batch[p]) /\ x \notin known[Other(p)]
    BY <2>3, <2>4 DEF BuildInv, Owns
  <2>6. Own(p, <<>>) = {}
    BY DEF Own
  <2>7. unwinding'[p] = <<>> /\ publishing' = publishing /\ batch' = batch
    BY <1>1, <1>16
  <2>8. Owns(p)' = Own(p, publishing[p]) \cup Own(p, <<>>) \cup OwnIn(p, batch[p])
    BY <2>7 DEF Owns, OwnIn, Own
  <2> QED BY <2>5, <2>6, <2>8
<1>18. Revokes(p, ids)
  BY <1>1, <1>10, <1>11, <1>12, <1>13, <1>14, <1>15, <1>16, <1>17 DEF Revokes
<1> QED BY <1>3, <1>16, <1>18

LEMMA BuriesStays ==
  ASSUME setting' = setting, NEW p \in Sides
  PROVE  Buries(scope[p])' <=> Buries(scope'[p])
BY DEF Buries, Tombed, Limit, Tombstones, Tables, Exported, Imported

LEMMA HeldStays ==
  ASSUME NEW p \in Sides
  PROVE  Held(scope[p], {})' <=> Held(scope'[p], {})
BY DEF Held, Linked, Tables, Holds, Exported, Imported, Ended

LEMMA RevokesTables ==
  ASSUME Inv, NEW p \in Sides, NEW ids, Revokes(p, ids), NEW q \in Sides
  PROVE  TablesInv(q)'
<1>1. Other(p) \in Sides /\ Other(p) # p /\ Other(Other(p)) = p /\ q \in {p, Other(p)} /\ Other(q) \in Sides
  BY TwoSides
<1>2. TablesInv(q)
  BY DEF Inv, SideInv
<1>3. /\ setting' = setting /\ known' = known /\ Buries(scope'[p])
      /\ scope'[p].minted = scope[p].minted /\ scope'[p].attached = scope[p].attached
      /\ scope'[p].closed = scope[p].closed
      /\ scope'[Other(p)] = scope[Other(p)]
      /\ ~scope[p].closed => Held(scope'[p], {})
  BY DEF Revokes, Shrunk
<1>4. Minted(p)' = Minted(p) /\ Minted(Other(p))' = Minted(Other(p))
  BY <1>3 DEF Minted
<1>5. CASE q = p
  <2>1. Exported(scope'[p]) \subseteq Exported(scope[p]) /\ Imported(scope'[p]) \subseteq Imported(scope[p])
    <3>1. \A x \in Ids \ ids : scope'[p].exports[x] = scope[p].exports[x]
                                /\ scope'[p].importer[x] = scope[p].importer[x]
      BY DEF Revokes, Shrunk
    <3>2. CASE scope[p].closed
      BY <1>3, <3>2 DEF Buries, Tables
    <3>3. CASE ~scope[p].closed
      <4>1. \A x \in ids : scope'[p].exports[x] = None /\ scope'[p].importer[x] = None
        BY <3>3 DEF Revokes, Shrunk
      <4> QED BY <3>1, <4>1 DEF Exported, Imported
    <3> QED BY <3>2, <3>3
  <2>2. Buries(scope[p])'
    BY <1>3, BuriesStays
  <2>3. scope'[p].dead \subseteq Minted(p) \cup Minted(Other(p)) /\ scope[p].dead \subseteq scope'[p].dead
        /\ notices'[p] \subseteq notices[p] \cup scope'[p].dead
    BY DEF Revokes, Shrunk
  <2>4. notices'[p] \subseteq scope'[p].dead
    BY <1>2, <1>5, <2>3 DEF TablesInv
  <2>5. Exported(scope[p])' \subseteq Minted(p)' /\ Imported(scope[p])' \subseteq known'[p]
        /\ known'[p] \subseteq Minted(Other(p))'
    BY <1>2, <1>3, <1>4, <1>5, <2>1 DEF TablesInv, Exported, Imported
  <2>6. (\A id \in Ids : id[1] = p => scope'[p].attached[id] = 0)
        /\ (~scope'[p].closed => Held(scope[p], {})')
    BY <1>2, <1>3, <1>5, HeldStays DEF TablesInv
  <2> QED BY <1>4, <1>5, <2>2, <2>3, <2>4, <2>5, <2>6 DEF TablesInv
<1>6. CASE q = Other(p)
  <2>1. Buries(scope[q])'
    BY <1>2, <1>3, <1>6, BuriesStays DEF TablesInv
  <2>2. notices'[q] \subseteq notices[q]
    BY <1>6 DEF Revokes
  <2>3. Exported(scope[q])' = Exported(scope[q]) /\ Imported(scope[q])' = Imported(scope[q])
        /\ (Held(scope[q], {})' <=> Held(scope[q], {})) /\ scope'[q] = scope[q]
    BY <1>3, <1>6, HeldStays DEF Exported, Imported
  <2>4. Minted(q)' = Minted(q) /\ Minted(Other(q))' = Minted(Other(q))
    BY <1>1, <1>4, <1>6
  <2> QED BY <1>2, <1>3, <2>1, <2>2, <2>3, <2>4 DEF TablesInv
<1> QED BY <1>1, <1>5, <1>6

LEMMA RevokesBuilds ==
  ASSUME Inv, NEW p \in Sides, NEW ids, Revokes(p, ids), NEW q \in Sides
  PROVE  BuildInv(q)' /\ FreshInv(q)'
<1>1. BuildInv(q) /\ FreshInv(q) /\ unwinding \in [Sides -> Seq(AllocationType)]
  BY DEF Inv, SideInv, Types
<1>2. /\ known' = known /\ batch' = batch /\ publishing' = publishing
      /\ unwinding'[q] = unwinding[q] \/ unwinding'[q] = <<>>
  BY <1>1 DEF Revokes
<1>3. Minted(q)' = Minted(q)
  <2>1. scope'[q].minted = scope[q].minted
    BY TwoSides DEF Revokes, Shrunk
  <2> QED BY <2>1 DEF Minted
<1>4. OwnIn(q, batch[q])' = OwnIn(q, batch[q]) /\ Own(q, publishing[q])' = Own(q, publishing[q])
  BY <1>2 DEF OwnIn, Own
<1>5. Own(q, unwinding[q])' \subseteq Own(q, unwinding[q]) /\ (Fresh(q, unwinding[q]) => Fresh(q, unwinding[q])')
  <2>1. CASE unwinding'[q] = unwinding[q]
    BY <2>1 DEF Own, Fresh
  <2>2. CASE unwinding'[q] = <<>>
    BY <2>2 DEF Own, Fresh
  <2> QED BY <1>2, <2>1, <2>2
<1>6. Owns(q)' \subseteq Owns(q)
  BY <1>4, <1>5 DEF Owns
<1>7. BuildInv(q)'
  <2>1. publishing'[q] # <<>> => batch'[q] = <<>> /\ unwinding'[q] = <<>>
    BY <1>1, <1>2 DEF BuildInv
  <2>2. Owns(q)' \subseteq Minted(q)' \ known'[Other(q)]
    BY <1>1, <1>2, <1>3, <1>6 DEF BuildInv
  <2>3. (Own(q, unwinding[q]) \cap OwnIn(q, batch[q]))' = {}
    BY <1>1, <1>4, <1>5 DEF BuildInv
  <2>4. \A v, w \in DOMAIN batch'[q] :
          v # w => Own(q, batch'[q][v].allocations) \cap Own(q, batch'[q][w].allocations) = {}
    BY <1>1, <1>2 DEF BuildInv
  <2> QED BY <2>1, <2>2, <2>3, <2>4 DEF BuildInv
<1>8. FreshInv(q)'
  BY <1>1, <1>2, <1>5 DEF FreshInv, Fresh
<1> QED BY <1>7, <1>8
LEMMA RevokesLearns ==
  ASSUME Inv, NEW p \in Sides, NEW ids, Revokes(p, ids), NEW q \in Sides
  PROVE  LearnInv(q)'
<1>1. Other(p) \in Sides /\ Other(p) # p /\ Other(Other(p)) = p /\ q \in {p, Other(p)} /\ Other(q) \in Sides
  BY TwoSides
<1>2. LearnInv(q) /\ unwinding \in [Sides -> Seq(AllocationType)] /\ known \in [Sides -> SUBSET Ids]
  BY DEF Inv, SideInv, Types
<1>3. /\ known' = known /\ batch' = batch /\ publishing' = publishing /\ up' = up
      /\ unwinding'[q] = unwinding[q] \/ unwinding'[q] = <<>>
      /\ scope'[p].closed = scope[p].closed /\ scope'[Other(p)] = scope[Other(p)]
      /\ scope[p].dead \subseteq scope'[p].dead
  BY <1>2 DEF Revokes, Shrunk
<1>4. Owns(q)' \subseteq Owns(q)
  <2>1. OwnIn(q, batch[q])' = OwnIn(q, batch[q]) /\ Own(q, publishing[q])' = Own(q, publishing[q])
    BY <1>3 DEF OwnIn, Own
  <2>2. Own(q, unwinding[q])' \subseteq Own(q, unwinding[q])
    <3>1. CASE unwinding'[q] = unwinding[q]
      BY <3>1 DEF Own
    <3>2. CASE unwinding'[q] = <<>>
      BY <3>2 DEF Own
    <3> QED BY <1>3, <3>1, <3>2
  <2> QED BY <2>1, <2>2 DEF Owns
<1>5. SUFFICES ASSUME ~scope[q].closed, ~scope[Other(q)].closed, up[q], up[Other(q)],
                      NEW x \in known[Other(q)] \cup Owns(q)'
               PROVE  x \in Exported(scope'[q]) \cup notices'[q] \cup scope'[Other(q)].dead
  <2>1. scope'[q].closed = scope[q].closed /\ scope'[Other(q)].closed = scope[Other(q)].closed
    BY <1>1, <1>3
  <2>2. Exported(scope[q])' = Exported(scope'[q]) /\ Knowable(q)' = known[Other(q)] \cup Owns(q)'
    BY <1>3 DEF Exported, Knowable
  <2> QED BY <1>3, <2>1, <2>2 DEF LearnInv
<1>6. x \in Exported(scope[q]) \cup notices[q] \cup scope[Other(q)].dead
  BY <1>2, <1>4, <1>5 DEF LearnInv, Knowable
<1>7. CASE q = p
  <2>1. notices[p] \subseteq notices'[p] /\ scope'[Other(p)].dead = scope[Other(p)].dead
    BY <1>3 DEF Revokes
  <2>2. CASE x \in ids
    <3>1. x \in notices'[p] \cup scope[Other(p)].dead
      BY <1>5, <1>7, <2>2 DEF Revokes
    <3> QED BY <1>7, <2>1, <3>1
  <2>3. CASE x \notin ids
    <3>1. x \in Exported(scope[p]) => x \in Exported(scope'[p])
      BY <2>3 DEF Revokes, Shrunk, Exported
    <3> QED BY <1>6, <1>7, <2>1, <3>1
  <2> QED BY <2>2, <2>3
<1>8. CASE q = Other(p)
  <2>1. scope'[q] = scope[q] /\ Other(q) = p /\ notices[q] \subseteq notices'[q] \cup scope'[p].dead
    BY <1>1, <1>3, <1>5, <1>8 DEF Revokes
  <2> QED BY <1>3, <1>6, <2>1 DEF Exported
<1> QED BY <1>1, <1>7, <1>8

\* The history of releases only grows, so a late call stays one.
LEMMA CallsStay ==
  ASSUME Inv, call' = call, \A q \in Sides : scope[q].dead \subseteq scope'[q].dead, NEW c \in Calls
  PROVE  CallInv(c)'
<1>1. CallInv(c) /\ call[c] \in CallType
  BY DEF Inv, Types
<1>2. call[c].id[1] \in Sides
  BY <1>1 DEF CallType, Ids
<1> QED BY <1>1, <1>2 DEF CallInv

LEMMA RevokesKeeps ==
  ASSUME Inv, NEW p \in Sides, NEW ids, Revokes(p, ids)
  PROVE  Inv'
<1>1. Types /\ p \in Sides /\ Other(p) \in Sides /\ Sides = {p, Other(p)}
  BY TwoSides DEF Inv
<1>2. Types'
  <2>1. /\ setting' = setting /\ up' = up /\ batch' = batch /\ publishing' = publishing
        /\ known' = known /\ call' = call /\ notices' \in [Sides -> SUBSET Ids]
        /\ scope' \in [Sides -> ScopeType]
        /\ unwinding' \in {unwinding, [unwinding EXCEPT ![p] = <<>>]}
    BY DEF Revokes
  <2>2. unwinding' \in [Sides -> Seq(AllocationType)]
    <3>1. unwinding \in [Sides -> Seq(AllocationType)] /\ <<>> \in Seq(AllocationType)
      BY <1>1 DEF Types
    <3>2. [unwinding EXCEPT ![p] = <<>>] \in [Sides -> Seq(AllocationType)]
      BY <3>1, Zenon
    <3> QED BY <2>1, <3>1, <3>2
  <2>3. scope'[p].minted = scope[p].minted /\ scope'[Other(p)] = scope[Other(p)]
    BY DEF Revokes, Shrunk
  <2>4. \A q \in Sides : scope'[q].minted = scope[q].minted
    BY <1>1, <2>3
  <2> QED BY <1>1, <2>1, <2>2, <2>4 DEF Types
<1>3. \A q \in Sides : SideInv(q)'
  BY RevokesTables, RevokesBuilds, RevokesLearns DEF SideInv
<1>4. \A c \in Calls : CallInv(c)'
  <2>1. scope[p].dead \subseteq scope'[p].dead /\ scope'[Other(p)] = scope[Other(p)] /\ call' = call
    BY DEF Revokes, Shrunk
  <2>2. \A q \in Sides : scope[q].dead \subseteq scope'[q].dead
    BY <1>1, <2>1
  <2> QED BY <2>1, <2>2, CallsStay
<1> QED BY <1>2, <1>3, <1>4 DEF Inv

-----------------------------------------------------------------------------
(* What allocates: Export and Attach, outside a build or in one.           *)

\* The sequences of what builds note.
NotedIn(p, v, a) ==
  batch' = IF v = 0 THEN batch ELSE [batch EXCEPT ![p][v].allocations = Append(@, a)]

Allocates(p, o, v, id) ==
  /\ id \in Ids \ Tables(scope[p]) /\ Recorded(scope[p], scope'[p], o, id) /\ ~scope[p].closed
  /\ scope' \in [Sides -> ScopeType] /\ scope'[Other(p)] = scope[Other(p)]
  /\ scope'[p].minted \in {scope[p].minted, scope[p].minted + 1}
  /\ scope'[p].minted <= setting.minted[p]
  /\ id \in Minted(p)' \ Minted(p) \/ (id \in known[p] /\ scope'[p].exports[id] = None)
  /\ \A x \in Ids : x[1] = p => scope'[p].attached[x] = 0
  /\ id \notin Tombstones(scope[p])
  /\ id \in Minted(p)' \ Minted(p) => scope'[p].importer[id] = None
  /\ v \in Views(p) /\ NotedIn(p, v, Allocation(scope'[p], id))
  /\ UNCHANGED <<setting, up, publishing, unwinding, known, notices, call>>

\* What an owner's record changes.
TakenOn(s, t, o, id) ==
  /\ t.exports = s.exports /\ t.importer = s.importer /\ t.attached = s.attached
  /\ t.minted = s.minted /\ t.closed = s.closed /\ t.gone = s.gone /\ t.dead = s.dead
  /\ t.released = s.released /\ t.linked = s.linked \cup {a \in Line[o] : Parent[a] # None}
  /\ \A d \in Owners : t.owned[d] = IF d = o THEN s.owned[d] \cup {id} ELSE s.owned[d]

LEMMA RecordIs ==
  ASSUME NEW s \in ScopeType, NEW o \in Owners, NEW id \in Ids
  PROVE  Record(s, o, id) \in ScopeType /\ TakenOn(s, Record(s, o, id), o, id)
<1>1. PICK more \in SUBSET Owners : more = {a \in Line[o] : Parent[a] # None}
  BY Family
<1>2. Record(s, o, id) = [s EXCEPT !.owned[o] = @ \cup {id}, !.linked = @ \cup more]
  BY <1>1 DEF Record
<1>3. PICK owned \in [Owners -> SUBSET Ids] : owned = [s.owned EXCEPT ![o] = @ \cup {id}]
  BY DEF ScopeType
<1>4. Record(s, o, id) = [s EXCEPT !.owned = owned, !.linked = @ \cup more]
  BY <1>2, <1>3 DEF ScopeType
<1>5. PICK t : t = [s EXCEPT !.owned = owned, !.linked = @ \cup more]
  OBVIOUS
<1>6. /\ t \in ScopeType /\ t.exports = s.exports /\ t.importer = s.importer /\ t.attached = s.attached
      /\ t.minted = s.minted /\ t.closed = s.closed /\ t.gone = s.gone /\ t.dead = s.dead
      /\ t.released = s.released /\ t.linked = s.linked \cup more /\ t.owned = owned
  BY <1>1, <1>3, <1>5 DEF ScopeType
<1>7. \A d \in Owners : owned[d] = IF d = o THEN s.owned[d] \cup {id} ELSE s.owned[d]
  BY <1>3 DEF ScopeType
<1>8. Record(s, o, id) = t
  BY <1>4, <1>5
<1> QED BY <1>1, <1>6, <1>7, <1>8 DEF TakenOn

LEMMA ExportAllocates ==
  ASSUME Inv, NEW p \in Sides, NEW o \in Owners, NEW v \in Views(p), Export(p, o, v)
  PROVE  ~Ended(scope[p], o) /\ \E id \in Ids : Allocates(p, o, v, id)
<1>1. /\ setting \in Settings /\ scope \in [Sides -> ScopeType] /\ scope[p] \in ScopeType
      /\ Exported(scope[p]) \subseteq Minted(p) /\ Imported(scope[p]) \subseteq Minted(Other(p))
      /\ scope[p].dead \subseteq Minted(p) \cup Minted(Other(p)) /\ Tombstones(scope[p]) \subseteq scope[p].dead
      /\ \A x \in Ids : x[1] = p => scope[p].attached[x] = 0
  BY DEF Inv, Types, SideInv, TablesInv, Buries
<1>2. PICK n \in Nat : n = scope[p].minted
  BY <1>1, BoundsAssumption DEF ScopeType
<1>3. n < setting.minted[p] /\ setting.minted[p] \in 0 .. MaxMinted
  BY <1>1, <1>2, SettingsAssumption DEF Export
<1>4. n + 1 \in 1 .. MaxMinted /\ n + 1 \in 0 .. MaxMinted
  BY <1>2, <1>3, BoundsAssumption
<1>5. PICK id \in Ids : id = <<p, n + 1>>
  BY <1>4 DEF Ids
<1>6. id \notin Minted(p) /\ id \notin Minted(Other(p)) /\ id[1] = p
  BY <1>2, <1>5, TwoSides DEF Minted
<1>7. id \in Ids \ Tables(scope[p]) /\ id \notin Tombstones(scope[p]) /\ scope[p].importer[id] = None
  BY <1>1, <1>5, <1>6 DEF Tables, Imported
<1>8. PICK r : r = [scope[p] EXCEPT !.minted = @ + 1, !.exports[id] = o]
  OBVIOUS
<1>9. /\ r \in ScopeType /\ r.minted = n + 1 /\ r.closed = scope[p].closed /\ r.gone = scope[p].gone
      /\ r.dead = scope[p].dead /\ r.released = scope[p].released /\ r.linked = scope[p].linked
      /\ r.owned = scope[p].owned /\ r.importer = scope[p].importer /\ r.attached = scope[p].attached
      /\ r.exports = [scope[p].exports EXCEPT ![id] = o]
  <2>1. PICK ex \in [Ids -> Owners \cup {None}] : ex = [scope[p].exports EXCEPT ![id] = o]
    BY <1>1 DEF ScopeType
  <2>2. r = [scope[p] EXCEPT !.minted = n + 1, !.exports = ex]
    BY <1>1, <1>2, <1>8, <2>1 DEF ScopeType
  <2> QED BY <1>1, <1>4, <2>1, <2>2 DEF ScopeType
<1>10. /\ r.exports[id] = o
       /\ \A x \in Ids \ {id} : r.exports[x] = scope[p].exports[x]
  BY <1>1, <1>9 DEF ScopeType
<1>11. PICK t : t = Record(r, o, id)
  OBVIOUS
<1>12. t \in ScopeType /\ t.minted = n + 1 /\ t.attached = r.attached /\ t.importer[id] = None
       /\ Recorded(scope[p], t, o, id)
  <2>1. t \in ScopeType /\ TakenOn(r, t, o, id)
    BY <1>9, <1>11, RecordIs
  <2>2. \A x \in Ids \ {id} : t.exports[x] = scope[p].exports[x] /\ t.importer[x] = scope[p].importer[x]
    BY <1>9, <1>10, <2>1 DEF TakenOn
  <2>3. t.importer[id] = None /\ t.exports[id] = o
    BY <1>7, <1>9, <1>10, <2>1 DEF TakenOn
  <2> QED BY <1>9, <2>1, <2>2, <2>3 DEF TakenOn, Recorded
<1>13. Allocate(p, v, t, id)
  BY <1>2, <1>5, <1>8, <1>11 DEF Export
<1>14. scope'[p] = t /\ scope'[Other(p)] = scope[Other(p)] /\ scope' \in [Sides -> ScopeType]
  BY <1>1, <1>12, <1>13, TwoSides DEF Allocate
<1>15. NotedIn(p, v, Allocation(scope'[p], id))
  BY <1>13, <1>14 DEF Allocate, NotedIn
<1>16. id \in Minted(p)' \ Minted(p)
  BY <1>2, <1>5, <1>6, <1>12, <1>14 DEF Minted
<1>17. Allocates(p, o, v, id)
  <2>1. ~scope[p].closed
    BY DEF Export, MayAllocate
  <2>2. UNCHANGED <<setting, up, publishing, unwinding, known, notices, call>>
    BY <1>13 DEF Allocate
  <2>3. scope'[p].minted <= setting.minted[p] /\ scope'[p].minted = scope[p].minted + 1
    BY <1>2, <1>3, <1>12, <1>14
  <2>4. \A x \in Ids : x[1] = p => scope'[p].attached[x] = 0
    BY <1>1, <1>9, <1>12, <1>14
  <2> QED BY <1>7, <1>12, <1>14, <1>15, <1>16, <2>1, <2>2, <2>3, <2>4 DEF Allocates
<1> QED BY <1>17 DEF Export, MayAllocate
LEMMA AttachAllocates ==
  ASSUME Inv, NEW p \in Sides, NEW o \in Owners, NEW v \in Views(p), NEW id \in Ids,
         Attach(p, o, v, id)
  PROVE  ~Ended(scope[p], o) /\ Allocates(p, o, v, id)
<1>1. /\ setting \in Settings /\ scope \in [Sides -> ScopeType] /\ scope[p] \in ScopeType
      /\ Exported(scope[p]) \subseteq Minted(p) /\ known[p] \subseteq Minted(Other(p))
      /\ \A x \in Ids : x[1] = p => scope[p].attached[x] = 0
      /\ scope[p].minted <= setting.minted[p]
  BY DEF Inv, Types, SideInv, TablesInv
<1>2. id \in known[p] /\ id \notin Tombstones(scope[p]) /\ id \notin Imported(scope[p])
      /\ scope[p].attached[id] < setting.attachments[id[2]]
  BY DEF Attach
<1>3. id[1] = Other(p) /\ id[1] # p /\ id[2] \in 1 .. MaxMinted
  BY <1>1, <1>2, TwoSides DEF Minted, Ids
<1>4. id \in Ids \ Tables(scope[p]) /\ scope[p].exports[id] = None
  BY <1>1, <1>2, <1>3 DEF Tables, Exported, Minted
<1>5. PICK m \in 0 .. MaxAttached : m = scope[p].attached[id] + 1
  <2>1. scope[p].attached[id] \in 0 .. MaxAttached /\ setting.attachments[id[2]] \in 0 .. MaxAttached
    BY <1>1, <1>3, SettingsAssumption DEF ScopeType
  <2> QED BY <1>2, <2>1, BoundsAssumption
<1>6. PICK im \in [Ids -> Owners \cup {None}] : im = [scope[p].importer EXCEPT ![id] = o]
  BY <1>1 DEF ScopeType
<1>7. PICK att \in [Ids -> 0 .. MaxAttached] : att = [scope[p].attached EXCEPT ![id] = m]
  BY <1>1, <1>5 DEF ScopeType
<1>8. PICK r : r = [scope[p] EXCEPT !.importer = im, !.attached = att]
  OBVIOUS
<1>9. r = [scope[p] EXCEPT !.importer[id] = o, !.attached[id] = @ + 1]
  BY <1>1, <1>5, <1>6, <1>7, <1>8 DEF ScopeType
<1>10. /\ r \in ScopeType /\ r.minted = scope[p].minted /\ r.closed = scope[p].closed
       /\ r.gone = scope[p].gone /\ r.dead = scope[p].dead /\ r.released = scope[p].released
       /\ r.linked = scope[p].linked /\ r.owned = scope[p].owned /\ r.importer = im
       /\ r.attached = att /\ r.exports = scope[p].exports
  BY <1>1, <1>6, <1>7, <1>8 DEF ScopeType
<1>11. PICK t : t = Record(r, o, id)
  OBVIOUS
<1>12. t \in ScopeType /\ TakenOn(r, t, o, id)
  BY <1>10, <1>11, RecordIs
<1>13. im[id] = o /\ \A x \in Ids \ {id} : im[x] = scope[p].importer[x] /\ att[x] = scope[p].attached[x]
  BY <1>1, <1>6, <1>7 DEF ScopeType
<1>14. Recorded(scope[p], t, o, id)
  <2>1. t.exports[id] = None /\ t.importer[id] = o
    BY <1>4, <1>10, <1>12, <1>13 DEF TakenOn
  <2>2. \A x \in Ids \ {id} : t.exports[x] = scope[p].exports[x] /\ t.importer[x] = scope[p].importer[x]
    BY <1>10, <1>12, <1>13 DEF TakenOn
  <2> QED BY <1>10, <1>12, <2>1, <2>2 DEF TakenOn, Recorded
<1>15. Allocate(p, v, t, id)
  BY <1>9, <1>11 DEF Attach
<1>16. scope'[p] = t /\ scope'[Other(p)] = scope[Other(p)] /\ scope' \in [Sides -> ScopeType]
  BY <1>1, <1>12, <1>15, TwoSides DEF Allocate
<1>17. NotedIn(p, v, Allocation(scope'[p], id))
  BY <1>15, <1>16 DEF Allocate, NotedIn
<1>18. \A x \in Ids : x[1] = p => t.attached[x] = 0
  BY <1>1, <1>3, <1>10, <1>12, <1>13 DEF TakenOn
<1>19. t.minted = scope[p].minted /\ t.exports[id] = None
  BY <1>4, <1>10, <1>12 DEF TakenOn
<1>20. Minted(p)' = Minted(p)
  BY <1>16, <1>19 DEF Minted
<1>21. ~scope[p].closed /\ ~Ended(scope[p], o)
  BY DEF Attach, MayAllocate
<1>22. UNCHANGED <<setting, up, publishing, unwinding, known, notices, call>>
  BY <1>15 DEF Allocate
<1> QED BY <1>1, <1>2, <1>4, <1>14, <1>16, <1>17, <1>18, <1>19, <1>20, <1>21, <1>22 DEF Allocates

LEMMA AllocatesTables ==
  ASSUME Inv, NEW p \in Sides, NEW o \in Owners, NEW v, NEW id, Allocates(p, o, v, id),
         ~Ended(scope[p], o), NEW q \in Sides
  PROVE  TablesInv(q)'
<1>1. Other(p) \in Sides /\ Other(p) # p /\ Other(Other(p)) = p /\ q \in {p, Other(p)} /\ Other(q) \in Sides
  BY TwoSides
<1>2. TablesInv(q) /\ TablesInv(p)
  BY DEF Inv, SideInv
<1>3. /\ setting' = setting /\ known' = known /\ notices' = notices
      /\ scope'[Other(p)] = scope[Other(p)] /\ Recorded(scope[p], scope'[p], o, id)
      /\ id \in Ids \ Tables(scope[p]) /\ scope[p] \in ScopeType /\ scope'[p] \in ScopeType
      /\ ~scope[p].closed
      /\ scope'[p].minted \in {scope[p].minted, scope[p].minted + 1} /\ scope[p].minted \in Nat
  <2>1. scope[p] \in ScopeType /\ scope'[p] \in ScopeType
    BY DEF Allocates, Inv, Types
  <2>2. scope[p].minted \in Nat
    BY <2>1, BoundsAssumption DEF ScopeType
  <2> QED BY <2>1, <2>2 DEF Allocates
<1>4. Minted(p) \subseteq Minted(p)' /\ Minted(Other(p))' = Minted(Other(p))
  BY <1>3 DEF Minted, Ids
<1>5. CASE q = p
  <2> DEFINE s == scope[p]
             t == scope'[p]
  <2>1. /\ t.closed = s.closed /\ t.gone = s.gone /\ t.dead = s.dead
        /\ \A x \in Ids \ {id} : t.exports[x] = s.exports[x] /\ t.importer[x] = s.importer[x]
    BY <1>3 DEF Recorded
  <2>2. Exported(t) \subseteq Exported(s) \cup {id} /\ Imported(t) \subseteq Imported(s) \cup {id}
    BY <2>1 DEF Exported, Imported
  <2>3. /\ id \in Exported(t) => id \in Minted(p)' \ Minted(p)
        /\ id \in Imported(t) => id \in known[p]
        /\ id \notin Tombstones(s)
    BY DEF Allocates, Exported, Imported
  <2>4. id \in Exported(t) => id \notin s.dead
    <3>1. \A x \in Minted(Other(p)) : x[1] # p
      BY <1>1 DEF Minted
    <3>2. \A x \in Minted(p)' : x[1] = p
      BY DEF Minted
    <3> QED BY <1>2, <2>3, <3>1, <3>2 DEF TablesInv
  <2>5. Buries(t)
    BY <1>2, <1>3, <2>1, <2>2, <2>3, <2>4 DEF TablesInv, Buries, Tombed, Tombstones, Tables
  <2>6. Buries(scope[p])'
    BY <1>3, <2>5, BuriesStays
  <2>7. Held(scope[p], {})'
    <3>1. Held(t, {})
      BY <1>2, <1>3, RecordHeld DEF TablesInv
    <3> QED BY <3>1, HeldStays
  <2>8. Exported(t) \subseteq Minted(p)' /\ Imported(t) \subseteq known'[p]
    BY <1>2, <1>3, <1>4, <2>2, <2>3 DEF TablesInv
  <2>9. known'[p] \subseteq Minted(Other(p))' /\ t.dead \subseteq Minted(p)' \cup Minted(Other(p))'
        /\ notices'[p] \subseteq t.dead
    BY <1>2, <1>3, <1>4, <2>1 DEF TablesInv
  <2>10. \A x \in Ids : x[1] = p => t.attached[x] = 0
    BY DEF Allocates
  <2>11. Exported(scope[p])' = Exported(t) /\ Imported(scope[p])' = Imported(t)
    BY DEF Exported, Imported
  <2> QED BY <1>4, <1>5, <2>6, <2>7, <2>8, <2>9, <2>10, <2>11 DEF TablesInv
<1>6. CASE q = Other(p)
  <2>1. Buries(scope[q])'
    BY <1>2, <1>3, <1>6, BuriesStays DEF TablesInv
  <2>2. Exported(scope[q])' = Exported(scope[q]) /\ Imported(scope[q])' = Imported(scope[q])
        /\ (Held(scope[q], {})' <=> Held(scope[q], {})) /\ scope'[q] = scope[q]
    BY <1>3, <1>6, HeldStays DEF Exported, Imported
  <2>3. Minted(q)' = Minted(q) /\ Minted(Other(q)) \subseteq Minted(Other(q))'
    BY <1>1, <1>4, <1>6
  <2> QED BY <1>2, <1>3, <2>1, <2>2, <2>3 DEF TablesInv
<1> QED BY <1>1, <1>5, <1>6

\* A binding is noted in one of the builds.
Noted(b, c, v, a) ==
  /\ c \in Seq(BuildType) /\ Len(c) = Len(b) /\ DOMAIN c = 1 .. Len(b)
  /\ DOMAIN b = 1 .. Len(b)
  /\ \A w \in 1 .. Len(b) :
       /\ b[w].allocations \in Seq(AllocationType)
       /\ c[w].allocations = IF w = v THEN Append(b[v].allocations, a) ELSE b[w].allocations

LEMMA NotedIs ==
  ASSUME NEW b \in Seq(BuildType), NEW v \in 1 .. Len(b), NEW a \in AllocationType,
         NEW c, c = [b EXCEPT ![v].allocations = Append(@, a)]
  PROVE  Noted(b, c, v, a)
<1>1. PICK n \in Nat : n = Len(b)
  OBVIOUS
<1>2. b \in [1 .. n -> BuildType] /\ v \in 1 .. n
  BY <1>1
<1>3. \A w \in 1 .. n : b[w] \in BuildType
  BY <1>2
<1>4. \A w \in 1 .. n : b[w].allocations \in Seq(AllocationType)
  BY <1>3 DEF BuildType
<1>5. PICK d \in BuildType : d = [b[v] EXCEPT !.allocations = Append(b[v].allocations, a)]
  <2>1. b[v] \in BuildType /\ b[v].allocations \in Seq(AllocationType)
    BY <1>2, <1>3, <1>4
  <2>2. Append(b[v].allocations, a) \in Seq(AllocationType)
    BY <2>1
  <2> QED BY <2>1, <2>2 DEF BuildType
<1>6. d.allocations = Append(b[v].allocations, a)
  BY <1>2, <1>3, <1>5 DEF BuildType
<1>7. c = [b EXCEPT ![v] = d]
  BY <1>2, <1>5
<1>8. c \in [1 .. n -> BuildType] /\ \A w \in 1 .. n : c[w] = IF w = v THEN d ELSE b[w]
  BY <1>2, <1>7
<1>9. c \in Seq(BuildType) /\ Len(c) = n
  <2>1. c \in Seq(BuildType)
    BY <1>8, SeqDef
  <2>2. DOMAIN c = 1 .. n /\ DOMAIN c = 1 .. Len(c) /\ Len(c) \in Nat
    BY <1>8, <2>1, LenProperties
  <2> QED BY <2>1, <2>2
<1> QED BY <1>1, <1>2, <1>4, <1>6, <1>8, <1>9 DEF Noted

LEMMA OwnAppend ==
  ASSUME NEW p, NEW made \in Seq(AllocationType), NEW a \in AllocationType
  PROVE  /\ Own(p, Append(made, a)) = Own(p, made) \cup (IF a.id[1] = p THEN {a.id} ELSE {})
         /\ Fresh(p, made) /\ (a.id[1] = p => a.attached = 0) => Fresh(p, Append(made, a))
<1>1. PICK n \in Nat : n = Len(made)
  OBVIOUS
<1>2. PICK more : more = Append(made, a)
  OBVIOUS
<1>3. /\ DOMAIN made = 1 .. n /\ DOMAIN more = 1 .. n + 1 /\ more[n + 1] = a
      /\ \A i \in 1 .. n : more[i] = made[i]
  BY <1>1, <1>2
<1>4. \A i \in 1 .. n + 1 : i \in 1 .. n \/ i = n + 1
  OBVIOUS
<1>5. n + 1 \in 1 .. n + 1 /\ \A i \in 1 .. n : i \in 1 .. n + 1
  OBVIOUS
<1>6. \A x : x \in Own(p, more) <=> (x \in Own(p, made) \/ (a.id[1] = p /\ x = a.id))
  BY <1>3, <1>4, <1>5 DEF Own
<1>7. Fresh(p, made) /\ (a.id[1] = p => a.attached = 0) => Fresh(p, more)
  BY <1>3, <1>4 DEF Fresh
<1> QED BY <1>2, <1>6, <1>7
\* What a side has after it allocated.
LEMMA AllocatesOwns ==
  ASSUME Inv, NEW p \in Sides, NEW o \in Owners, NEW v, NEW id, Allocates(p, o, v, id)
  PROVE  /\ OwnIn(p, batch[p])' \subseteq OwnIn(p, batch[p]) \cup {x \in {id} : x[1] = p}
         /\ Owns(p)' \subseteq Owns(p) \cup {x \in {id} : x[1] = p}
         /\ (\A w \in DOMAIN batch[p] : Fresh(p, batch[p][w].allocations))
              => \A w \in DOMAIN batch'[p] : Fresh(p, batch'[p][w].allocations)
         /\ (\A w, u \in DOMAIN batch[p] : w # u =>
               Own(p, batch[p][w].allocations) \cap Own(p, batch[p][u].allocations) = {})
            => \A w, u \in DOMAIN batch'[p] : w # u =>
               Own(p, batch'[p][w].allocations) \cap Own(p, batch'[p][u].allocations) = {}
         /\ batch' \in [Sides -> Seq(BuildType)] /\ batch'[Other(p)] = batch[Other(p)]
         /\ Len(batch'[p]) = Len(batch[p])
         /\ publishing[p] # <<>> => batch'[p] = <<>>
<1>1. /\ batch \in [Sides -> Seq(BuildType)] /\ scope'[p] \in ScopeType /\ id \in Ids
      /\ Other(p) \in Sides /\ Other(p) # p /\ BuildInv(p)
      /\ publishing' = publishing /\ unwinding' = unwinding
      /\ v \in Views(p) /\ NotedIn(p, v, Allocation(scope'[p], id))
      /\ \A x \in Ids : x[1] = p => scope'[p].attached[x] = 0
  BY TwoSides DEF Inv, Types, SideInv, Allocates
<1>2. PICK b \in Seq(BuildType) : b = batch[p]
  BY <1>1
<1>3. PICK a \in AllocationType : a.id = id /\ a.attached = scope'[p].attached[id] /\ a = Allocation(scope'[p], id)
  BY <1>1 DEF Allocation, AllocationType, ScopeType
<1>4. Owns(p)' = Own(p, publishing[p]) \cup Own(p, unwinding[p]) \cup OwnIn(p, batch'[p])
      /\ OwnIn(p, batch[p])' = OwnIn(p, batch'[p])
  BY <1>1 DEF Owns, Own, OwnIn
<1>5. CASE v = 0
  <2>1. batch' = batch
    BY <1>1, <1>5 DEF NotedIn
  <2> QED BY <1>1, <1>4, <2>1 DEF Owns, BuildInv
<1>6. CASE v # 0
  <2>1. v \in 1 .. Len(b) /\ b # <<>>
    BY <1>1, <1>2, <1>6 DEF Views
  <2>2. PICK c : c = [b EXCEPT ![v].allocations = Append(@, a)]
    OBVIOUS
  <2>3. /\ c \in Seq(BuildType) /\ Len(c) = Len(b) /\ DOMAIN c = 1 .. Len(b)
        /\ DOMAIN b = 1 .. Len(b)
        /\ \A w \in 1 .. Len(b) :
             /\ b[w].allocations \in Seq(AllocationType)
             /\ c[w].allocations = IF w = v THEN Append(b[v].allocations, a) ELSE b[w].allocations
    <3>1. Noted(b, c, v, a)
      BY <2>1, <2>2, NotedIs
    <3> QED BY <3>1 DEF Noted
  <2>4. batch' = [batch EXCEPT ![p] = c]
    BY <1>1, <1>2, <1>3, <1>6, <2>1, <2>2 DEF NotedIn
  <2>5. batch'[p] = c /\ batch'[Other(p)] = batch[Other(p)] /\ batch' \in [Sides -> Seq(BuildType)]
    BY <1>1, <2>3, <2>4
  <2>6. ASSUME NEW w \in 1 .. Len(b)
        PROVE  /\ Own(p, c[w].allocations) \subseteq Own(p, b[w].allocations) \cup {x \in {id} : x[1] = p}
               /\ w # v => Own(p, c[w].allocations) = Own(p, b[w].allocations)
               /\ Fresh(p, b[w].allocations) => Fresh(p, c[w].allocations)
    <3>1. CASE w = v
      <4>1. c[w].allocations = Append(b[w].allocations, a) /\ b[w].allocations \in Seq(AllocationType)
        BY <2>3, <3>1
      <4>2. Own(p, c[w].allocations) = Own(p, b[w].allocations) \cup (IF a.id[1] = p THEN {a.id} ELSE {})
        BY <4>1, OwnAppend
      <4>3. Fresh(p, b[w].allocations) /\ (a.id[1] = p => a.attached = 0) => Fresh(p, c[w].allocations)
        BY <4>1, OwnAppend
      <4>4. a.id[1] = p => a.attached = 0
        BY <1>1, <1>3
      <4>5. (IF a.id[1] = p THEN {a.id} ELSE {}) = {x \in {id} : x[1] = p}
        BY <1>3
      <4> QED BY <3>1, <4>2, <4>3, <4>4, <4>5
    <3>2. CASE w # v
      BY <2>3, <3>2
    <3> QED BY <3>1, <3>2
  <2>7. OwnIn(p, c) \subseteq OwnIn(p, b) \cup {x \in {id} : x[1] = p}
    BY <2>3, <2>6 DEF OwnIn
  <2>8. publishing[p] = <<>>
    BY <1>1, <1>2, <2>1 DEF BuildInv
  <2>9. ASSUME id[1] = p => id \notin OwnIn(p, b),
               \A w, u \in DOMAIN b : w # u => Own(p, b[w].allocations) \cap Own(p, b[u].allocations) = {}
        PROVE  \A w, u \in DOMAIN c : w # u => Own(p, c[w].allocations) \cap Own(p, c[u].allocations) = {}
    <3>1. \A w \in 1 .. Len(b) : id[1] = p => id \notin Own(p, b[w].allocations)
      BY <2>3, <2>9 DEF OwnIn
    <3>2. \A w, u \in 1 .. Len(b) : w # u => Own(p, b[w].allocations) \cap Own(p, b[u].allocations) = {}
      BY <2>3, <2>9
    <3> SUFFICES ASSUME NEW w \in 1 .. Len(b), NEW u \in 1 .. Len(b), w # u,
                        NEW x \in Own(p, c[w].allocations), x \in Own(p, c[u].allocations)
                 PROVE  FALSE
      BY <2>3
    <3>3. /\ x \in Own(p, b[w].allocations) \/ (x = id /\ id[1] = p /\ w = v)
          /\ x \in Own(p, b[u].allocations) \/ (x = id /\ id[1] = p /\ u = v)
      BY <2>6
    <3> QED BY <3>1, <3>2, <3>3
  <2>10. id[1] = p => id \notin OwnIn(p, b)
    <3>1. id[1] = p => id \notin Minted(p)
      <4>1. known[p] \subseteq Minted(Other(p))
        BY DEF Inv, SideInv, TablesInv
      <4> QED BY <1>1, <4>1 DEF Allocates, Minted
    <3> QED BY <1>1, <1>2, <3>1 DEF BuildInv, Owns
  <2>11. Owns(p)' \subseteq Owns(p) \cup {x \in {id} : x[1] = p}
    BY <1>2, <1>4, <2>5, <2>7 DEF Owns
  <2>12. (\A w \in DOMAIN batch[p] : Fresh(p, batch[p][w].allocations))
              => \A w \in DOMAIN batch'[p] : Fresh(p, batch'[p][w].allocations)
    BY <1>2, <2>3, <2>5, <2>6
  <2> QED BY <1>2, <1>4, <2>3, <2>5, <2>7, <2>8, <2>9, <2>10, <2>11, <2>12
<1> QED BY <1>5, <1>6

\* What a side's builds own is read from the builds of that side alone.
LEMMA OwnsSame ==
  ASSUME NEW q, batch'[q] = batch[q], publishing'[q] = publishing[q], unwinding'[q] = unwinding[q]
  PROVE  /\ OwnIn(q, batch[q])' = OwnIn(q, batch[q])
         /\ Owns(q)' = Owns(q)
<1>1. OwnIn(q, batch[q])' = OwnIn(q, batch[q])
  BY DEF OwnIn, Own
<1>2. Own(q, publishing[q])' = Own(q, publishing[q]) /\ Own(q, unwinding[q])' = Own(q, unwinding[q])
  BY DEF Own
<1> QED BY <1>1, <1>2 DEF Owns

LEMMA AllocatesKeeps ==
  ASSUME Inv, NEW p \in Sides, NEW o \in Owners, NEW v, NEW id, Allocates(p, o, v, id),
         ~Ended(scope[p], o)
  PROVE  Inv'
<1>1. Types /\ Other(p) \in Sides /\ Other(p) # p /\ Other(Other(p)) = p /\ Sides = {p, Other(p)}
  BY TwoSides DEF Inv
<1>2. /\ setting' = setting /\ up' = up /\ publishing' = publishing /\ unwinding' = unwinding
      /\ known' = known /\ notices' = notices /\ call' = call
      /\ scope' \in [Sides -> ScopeType] /\ scope'[Other(p)] = scope[Other(p)]
      /\ scope'[p].minted <= setting.minted[p] /\ Recorded(scope[p], scope'[p], o, id)
      /\ scope[p].minted \in Nat /\ scope'[p].minted \in {scope[p].minted, scope[p].minted + 1}
      /\ id \in Ids
  <2>1. scope[p] \in ScopeType
    BY <1>1 DEF Types
  <2>2. scope[p].minted \in Nat
    BY <2>1, BoundsAssumption DEF ScopeType
  <2> QED BY <2>2 DEF Allocates
<1>3. /\ batch' \in [Sides -> Seq(BuildType)] /\ batch'[Other(p)] = batch[Other(p)]
      /\ Len(batch'[p]) = Len(batch[p])
      /\ publishing[p] # <<>> => batch'[p] = <<>>
      /\ OwnIn(p, batch[p])' \subseteq OwnIn(p, batch[p]) \cup {x \in {id} : x[1] = p}
      /\ Owns(p)' \subseteq Owns(p) \cup {x \in {id} : x[1] = p}
  BY AllocatesOwns
<1>4. Types'
  <2>1. \A q \in Sides : Len(batch'[q]) <= setting.nested /\ scope'[q].minted <= setting.minted[q]
    <3> TAKE q \in Sides
    <3>1. Len(batch[q]) <= setting.nested /\ scope[q].minted <= setting.minted[q]
      BY <1>1 DEF Types
    <3>2. CASE q = p
      BY <1>2, <1>3, <3>1, <3>2
    <3>3. CASE q = Other(p)
      BY <1>2, <1>3, <3>1, <3>3
    <3> QED BY <1>1, <3>2, <3>3
  <2> QED BY <1>1, <1>2, <1>3, <2>1 DEF Types
<1>5. /\ BuildInv(p) /\ FreshInv(p) /\ LearnInv(p) /\ TablesInv(p)
      /\ BuildInv(Other(p)) /\ FreshInv(Other(p)) /\ LearnInv(Other(p))
  BY <1>1 DEF Inv, SideInv
<1>6. Minted(p) \subseteq Minted(p)' /\ Minted(Other(p))' = Minted(Other(p))
  BY <1>2 DEF Minted, Ids
<1>7. id[1] = p => id \in Minted(p)' \ Minted(p) /\ id \in Exported(scope'[p])
  <2>1. \A x \in Minted(Other(p)) : x[1] # p
    BY <1>1 DEF Minted
  <2>2. id[1] = p => id \in Minted(p)' \ Minted(p)
    BY <1>5, <2>1 DEF Allocates, TablesInv
  <2>3. id[1] = p => scope'[p].importer[id] = None
    BY <2>2 DEF Allocates
  <2>4. o # None
    BY Family
  <2>5. id[1] = p => scope'[p].exports[id] = o
    BY <1>2, <2>3, <2>4 DEF Recorded
  <2> QED BY <1>2, <2>2, <2>4, <2>5 DEF Exported
<1>8. BuildInv(p)'
  <2>1. Owns(p)' \subseteq Minted(p)'
    BY <1>3, <1>5, <1>6, <1>7 DEF BuildInv
  <2>2. known[Other(p)] \subseteq Minted(p)
    BY <1>1 DEF Inv, SideInv, TablesInv
  <2>3. Owns(p)' \subseteq Minted(p)' \ known'[Other(p)]
    BY <1>2, <1>3, <1>5, <1>7, <2>1, <2>2 DEF BuildInv
  <2>4. Own(p, unwinding[p]) \subseteq Minted(p)
    BY <1>5 DEF BuildInv, Owns
  <2>5. Own(p, unwinding[p]) \cap OwnIn(p, batch[p])' = {}
    BY <1>3, <1>5, <1>7, <2>4 DEF BuildInv
  <2>6. publishing'[p] # <<>> => batch'[p] = <<>> /\ unwinding'[p] = <<>>
    BY <1>2, <1>3, <1>5 DEF BuildInv
  <2>7. \A w, u \in DOMAIN batch'[p] : w # u =>
               Own(p, batch'[p][w].allocations) \cap Own(p, batch'[p][u].allocations) = {}
    BY <1>5, AllocatesOwns DEF BuildInv
  <2>8. (Own(p, unwinding[p]) \cap OwnIn(p, batch[p]))' = {}
    BY <1>2, <2>5 DEF Own
  <2> QED BY <2>3, <2>6, <2>7, <2>8 DEF BuildInv
<1>9. FreshInv(p)'
  BY <1>2, <1>5, AllocatesOwns DEF FreshInv, Fresh
<1>10. BuildInv(Other(p))' /\ FreshInv(Other(p))'
  <2>1. Owns(Other(p))' = Owns(Other(p)) /\ OwnIn(Other(p), batch[Other(p)])' = OwnIn(Other(p), batch[Other(p)])
    BY <1>2, <1>3, OwnsSame
  <2>2. /\ Own(Other(p), unwinding[Other(p)])' = Own(Other(p), unwinding[Other(p)])
        /\ \A w \in DOMAIN batch[Other(p)] :
             Own(Other(p), batch[Other(p)][w].allocations)' = Own(Other(p), batch[Other(p)][w].allocations)
        /\ DOMAIN batch'[Other(p)] = DOMAIN batch[Other(p)]
    BY <1>2, <1>3 DEF Own
  <2>3. Owns(Other(p))' \subseteq Minted(Other(p))' \ known'[p]
    BY <1>1, <1>2, <1>5, <1>6, <2>1 DEF BuildInv
  <2>4. publishing'[Other(p)] # <<>> => batch'[Other(p)] = <<>> /\ unwinding'[Other(p)] = <<>>
    BY <1>2, <1>3, <1>5 DEF BuildInv
  <2>5. (Own(Other(p), unwinding[Other(p)]) \cap OwnIn(Other(p), batch[Other(p)]))' = {}
    BY <1>5, <2>1, <2>2 DEF BuildInv
  <2>6. \A w, u \in DOMAIN batch'[Other(p)] : w # u =>
          Own(Other(p), batch'[Other(p)][w].allocations) \cap Own(Other(p), batch'[Other(p)][u].allocations) = {}
    BY <1>3, <1>5 DEF BuildInv
  <2>7. BuildInv(Other(p))'
    BY <1>1, <2>3, <2>4, <2>5, <2>6 DEF BuildInv
  <2>8. FreshInv(Other(p))'
    BY <1>2, <1>3, <1>5 DEF FreshInv, Fresh
  <2> QED BY <2>7, <2>8
<1>11. LearnInv(p)' /\ LearnInv(Other(p))'
  <2>1. Owns(Other(p))' = Owns(Other(p))
    BY <1>2, <1>3, OwnsSame
  <2>2. scope'[p].dead = scope[p].dead /\ scope'[p].closed = scope[p].closed
    BY <1>2 DEF Recorded
  <2>3. \A x \in Exported(scope[p]) : x \in Exported(scope'[p])
    <3>1. \A x \in Ids \ {id} : scope'[p].exports[x] = scope[p].exports[x]
      BY <1>2 DEF Recorded
    <3>2. id \notin Exported(scope[p])
      BY DEF Allocates, Tables
    <3> QED BY <3>1, <3>2 DEF Exported
  <2>4. LearnInv(p)'
    <3>1. Knowable(p)' \subseteq Knowable(p) \cup {x \in {id} : x[1] = p}
      BY <1>2, <1>3 DEF Knowable
    <3>2. Exported(scope[p])' = Exported(scope'[p])
      BY DEF Exported
    <3> QED BY <1>2, <1>5, <1>7, <2>2, <2>3, <3>1, <3>2 DEF LearnInv
  <2>5. LearnInv(Other(p))'
    <3>1. Knowable(Other(p))' = Knowable(Other(p))
      BY <1>2, <2>1 DEF Knowable
    <3>2. Exported(scope[Other(p)])' = Exported(scope[Other(p)])
      BY <1>2 DEF Exported
    <3> QED BY <1>1, <1>2, <1>5, <2>2, <3>1, <3>2 DEF LearnInv
  <2> QED BY <2>4, <2>5
<1>12. \A q \in Sides : TablesInv(q)'
  BY AllocatesTables
<1>13. \A c \in Calls : CallInv(c)'
  <2>1. \A q \in Sides : scope[q].dead \subseteq scope'[q].dead
    BY <1>1, <1>2 DEF Recorded
  <2> QED BY <1>2, <2>1, CallsStay
<1>14. \A q \in Sides : SideInv(q)'
  BY <1>1, <1>8, <1>9, <1>10, <1>11, <1>12 DEF SideInv
<1> QED BY <1>4, <1>13, <1>14 DEF Inv
-----------------------------------------------------------------------------
(* What goes on in builds and what is sent: the scopes stay.               *)

\* BuildInv and FreshInv of the builds b, of x to be published and y to unwind.
BuildsOK(p, b, x, y) ==
  /\ x # <<>> => b = <<>> /\ y = <<>>
  /\ Own(p, y) \cap OwnIn(p, b) = {}
  /\ \A v, w \in DOMAIN b : v # w => Own(p, b[v].allocations) \cap Own(p, b[w].allocations) = {}
  /\ Fresh(p, x) /\ Fresh(p, y) /\ \A v \in DOMAIN b : Fresh(p, b[v].allocations)
OwnsOf(p, b, x, y) == Own(p, x) \cup Own(p, y) \cup OwnIn(p, b)

Rebuilds(p) ==
  /\ UNCHANGED <<setting, up, scope, notices, call>>
  /\ known' \in [Sides -> SUBSET Ids] /\ known'[p] = known[p] /\ known[Other(p)] \subseteq known'[Other(p)]
  /\ batch' \in [Sides -> Seq(BuildType)] /\ batch'[Other(p)] = batch[Other(p)]
  /\ publishing' \in [Sides -> Seq(AllocationType)] /\ publishing'[Other(p)] = publishing[Other(p)]
  /\ unwinding' \in [Sides -> Seq(AllocationType)] /\ unwinding'[Other(p)] = unwinding[Other(p)]
  /\ Len(batch'[p]) <= setting.nested
  /\ BuildsOK(p, batch'[p], publishing'[p], unwinding'[p])
  /\ OwnsOf(p, batch'[p], publishing'[p], unwinding'[p]) \subseteq Minted(p) \ known'[Other(p)]
  /\ known'[Other(p)] \subseteq Minted(p)
  /\ known'[Other(p)] \cup OwnsOf(p, batch'[p], publishing'[p], unwinding'[p])
       \subseteq Knowable(p) \cup Exported(scope[p])

LEMMA RebuildsKeeps ==
  ASSUME Inv, NEW p \in Sides, Rebuilds(p)
  PROVE  Inv'
<1>1. Types /\ Other(p) \in Sides /\ Other(p) # p /\ Other(Other(p)) = p /\ Sides = {p, Other(p)}
  BY TwoSides DEF Inv
<1>2. /\ SideInv(p) /\ SideInv(Other(p)) /\ setting' = setting /\ up' = up /\ scope' = scope
      /\ notices' = notices /\ call' = call
  BY <1>1 DEF Inv, Rebuilds
<1>3. Types'
  <2>1. \A q \in Sides : Len(batch'[q]) <= setting.nested
    BY <1>1 DEF Types, Rebuilds
  <2> QED BY <1>1, <1>2, <2>1 DEF Types, Rebuilds
<1>4. Minted(p)' = Minted(p) /\ Minted(Other(p))' = Minted(Other(p))
  BY <1>2 DEF Minted
<1>5. \A q \in Sides : /\ Buries(scope[q])' <=> Buries(scope[q])
                       /\ Held(scope[q], {})' <=> Held(scope[q], {})
                       /\ Exported(scope[q])' = Exported(scope[q])
                       /\ Imported(scope[q])' = Imported(scope[q])
  BY <1>2, BuriesStays, HeldStays DEF Exported, Imported
<1>6. TablesInv(p)'
  BY <1>1, <1>2, <1>4, <1>5 DEF SideInv, TablesInv, Rebuilds
<1>7. TablesInv(Other(p))'
  BY <1>1, <1>2, <1>4, <1>5 DEF SideInv, TablesInv, Rebuilds
<1>8. BuildInv(p)' /\ FreshInv(p)'
  BY <1>4 DEF Rebuilds, BuildsOK, OwnsOf, BuildInv, FreshInv, Owns
<1>9. BuildInv(Other(p))' /\ FreshInv(Other(p))'
  BY <1>1, <1>2, <1>4 DEF Rebuilds, SideInv, BuildInv, FreshInv, Owns
<1>10. LearnInv(p)'
  <2>1. Knowable(p)' \subseteq Knowable(p) \cup Exported(scope[p])
    BY DEF Rebuilds, OwnsOf, Knowable, Owns
  <2> QED BY <1>1, <1>2, <1>5, <2>1 DEF SideInv, LearnInv
<1>11. LearnInv(Other(p))'
  <2>1. Knowable(Other(p))' = Knowable(Other(p))
    BY <1>1 DEF Rebuilds, Knowable, Owns
  <2> QED BY <1>1, <1>2, <1>5, <2>1 DEF SideInv, LearnInv
<1>12. \A c \in Calls : CallInv(c)'
  BY <1>2, CallsStay
<1>13. \A q \in Sides : SideInv(q)'
  BY <1>1, <1>6, <1>7, <1>8, <1>9, <1>10, <1>11 DEF SideInv
<1> QED BY <1>3, <1>12, <1>13 DEF Inv

LEMMA OwnConcat ==
  ASSUME NEW p, NEW made \in Seq(AllocationType), NEW more \in Seq(AllocationType)
  PROVE  /\ Own(p, made \o more) = Own(p, made) \cup Own(p, more)
         /\ Fresh(p, made) /\ Fresh(p, more) => Fresh(p, made \o more)
<1>1. PICK n \in Nat : n = Len(made)
  OBVIOUS
<1>2. PICK m \in Nat : m = Len(more)
  OBVIOUS
<1>3. PICK all : all = made \o more
  OBVIOUS
<1>4. /\ DOMAIN made = 1 .. n /\ DOMAIN more = 1 .. m /\ DOMAIN all = 1 .. n + m
      /\ \A i \in 1 .. n : all[i] = made[i]
      /\ \A i \in 1 .. m : all[n + i] = more[i]
  BY <1>1, <1>2, <1>3
<1>5. /\ \A i \in 1 .. n + m : i \in 1 .. n \/ (i - n \in 1 .. m /\ i = n + (i - n))
      /\ \A i \in 1 .. n : i \in 1 .. n + m
      /\ \A i \in 1 .. m : n + i \in 1 .. n + m
  OBVIOUS
<1>6. \A i \in 1 .. n + m : (\E j \in 1 .. n : all[i] = made[j]) \/ (\E j \in 1 .. m : all[i] = more[j])
  <2> TAKE i \in 1 .. n + m
  <2>1. CASE i \in 1 .. n
    BY <1>4, <2>1
  <2>2. CASE i \notin 1 .. n
    <3>1. i - n \in 1 .. m /\ i = n + (i - n)
      BY <2>2
    <3>2. all[n + (i - n)] = more[i - n]
      BY <1>4, <3>1
    <3> QED BY <3>1, <3>2
  <2> QED BY <2>1, <2>2
<1>7. Own(p, all) \subseteq Own(p, made) \cup Own(p, more)
  <2> SUFFICES ASSUME NEW i \in 1 .. n + m, all[i].id[1] = p
               PROVE  all[i].id \in Own(p, made) \cup Own(p, more)
    BY <1>4 DEF Own
  <2>1. ASSUME NEW j \in 1 .. n, all[i] = made[j]
        PROVE  all[i].id \in Own(p, made)
    BY <1>4, <2>1 DEF Own
  <2>2. ASSUME NEW j \in 1 .. m, all[i] = more[j]
        PROVE  all[i].id \in Own(p, more)
    BY <1>4, <2>2 DEF Own
  <2>3. (\E j \in 1 .. n : all[i] = made[j]) \/ (\E j \in 1 .. m : all[i] = more[j])
    BY <1>6
  <2> QED BY <2>1, <2>2, <2>3
<1>8. Own(p, made) \subseteq Own(p, all)
  BY <1>4, <1>5 DEF Own
<1>9. Own(p, more) \subseteq Own(p, all)
  <2> SUFFICES ASSUME NEW i \in 1 .. m, more[i].id[1] = p
               PROVE  more[i].id \in Own(p, all)
    BY <1>4 DEF Own
  <2>1. n + i \in 1 .. n + m /\ all[n + i] = more[i]
    BY <1>4
  <2> QED BY <1>4, <2>1 DEF Own
<1>10. Fresh(p, made) /\ Fresh(p, more) => Fresh(p, all)
  <2> SUFFICES ASSUME Fresh(p, made), Fresh(p, more), NEW i \in 1 .. n + m, all[i].id[1] = p
               PROVE  all[i].attached = 0
    BY <1>4 DEF Fresh
  <2>1. \A j \in 1 .. n : all[i] = made[j] => all[i].attached = 0
    BY <1>4 DEF Fresh
  <2>2. \A j \in 1 .. m : all[i] = more[j] => all[i].attached = 0
    BY <1>4 DEF Fresh
  <2>3. (\E j \in 1 .. n : all[i] = made[j]) \/ (\E j \in 1 .. m : all[i] = more[j])
    BY <1>6
  <2> QED BY <2>1, <2>2, <2>3
<1> QED BY <1>3, <1>7, <1>8, <1>9, <1>10

\* The builds but the innermost.
Outer(b) == SubSeq(b, 1, Len(b) - 1)

LEMMA OuterIs ==
  ASSUME NEW b \in Seq(BuildType), b # <<>>
  PROVE  /\ Outer(b) \in Seq(BuildType) /\ Len(Outer(b)) = Len(b) - 1 /\ Len(b) \in Nat /\ Len(b) > 0
         /\ DOMAIN Outer(b) = 1 .. Len(b) - 1 /\ DOMAIN b = 1 .. Len(b)
         /\ \A v \in 1 .. Len(b) - 1 : Outer(b)[v] = b[v]
         /\ \A v \in 1 .. Len(b) : b[v] \in BuildType /\ b[v].allocations \in Seq(AllocationType)
<1>1. PICK n \in Nat : n = Len(b) /\ n > 0
  OBVIOUS
<1>2. PICK c : c = SubSeq(b, 1, n - 1)
  OBVIOUS
<1>3. c \in Seq(BuildType) /\ Len(c) = n - 1 /\ DOMAIN c = 1 .. n - 1 /\ \A v \in 1 .. n - 1 : c[v] = b[v]
  BY <1>1, <1>2
<1>4. \A v \in 1 .. n : b[v] \in BuildType
  BY <1>1
<1>5. \A v \in 1 .. n : b[v].allocations \in Seq(AllocationType)
  BY <1>4 DEF BuildType
<1> QED BY <1>1, <1>2, <1>3, <1>4, <1>5 DEF Outer
\* What the steps of a build start from.
LEMMA BuildsHere ==
  ASSUME Inv, NEW p \in Sides
  PROVE  /\ setting \in Settings /\ scope \in [Sides -> ScopeType]
         /\ batch \in [Sides -> Seq(BuildType)] /\ batch[p] \in Seq(BuildType)
         /\ publishing \in [Sides -> Seq(AllocationType)] /\ publishing[p] \in Seq(AllocationType)
         /\ unwinding \in [Sides -> Seq(AllocationType)] /\ unwinding[p] \in Seq(AllocationType)
         /\ known \in [Sides -> SUBSET Ids] /\ <<>> \in Seq(AllocationType) /\ <<>> \in Seq(BuildType)
         /\ Len(batch[p]) <= setting.nested /\ Len(batch[p]) \in Nat /\ setting.nested \in Nat
         /\ BuildsOK(p, batch[p], publishing[p], unwinding[p])
         /\ OwnsOf(p, batch[p], publishing[p], unwinding[p]) = Owns(p)
         /\ Owns(p) \subseteq Minted(p) \ known[Other(p)] /\ known[Other(p)] \subseteq Minted(p)
         /\ Exported(scope[p]) \subseteq Minted(p)
         /\ Other(p) \in Sides /\ Other(p) # p /\ Sides = {p, Other(p)}
         /\ Own(p, <<>>) = {} /\ OwnIn(p, <<>>) = {} /\ Fresh(p, <<>>)
<1>1. Types /\ SideInv(p) /\ SideInv(Other(p)) /\ Other(p) \in Sides /\ Other(p) # p
      /\ Other(Other(p)) = p /\ Sides = {p, Other(p)}
  BY TwoSides DEF Inv
<1>2. setting.nested \in Nat
  BY <1>1, SettingsAssumption DEF Types
<1>3. /\ setting \in Settings /\ scope \in [Sides -> ScopeType]
      /\ batch \in [Sides -> Seq(BuildType)] /\ batch[p] \in Seq(BuildType)
      /\ publishing \in [Sides -> Seq(AllocationType)] /\ publishing[p] \in Seq(AllocationType)
      /\ unwinding \in [Sides -> Seq(AllocationType)] /\ unwinding[p] \in Seq(AllocationType)
      /\ known \in [Sides -> SUBSET Ids] /\ Len(batch[p]) <= setting.nested
  BY <1>1 DEF Types
<1>4. Len(batch[p]) \in Nat /\ <<>> \in Seq(AllocationType) /\ <<>> \in Seq(BuildType)
  BY <1>3
<1>5. BuildsOK(p, batch[p], publishing[p], unwinding[p])
  BY <1>1 DEF SideInv, BuildInv, FreshInv, BuildsOK
<1>6. OwnsOf(p, batch[p], publishing[p], unwinding[p]) = Owns(p)
  BY DEF OwnsOf, Owns
<1>7. Owns(p) \subseteq Minted(p) \ known[Other(p)] /\ known[Other(p)] \subseteq Minted(p)
      /\ Exported(scope[p]) \subseteq Minted(p)
  BY <1>1 DEF SideInv, BuildInv, TablesInv
<1>8. Own(p, <<>>) = {} /\ OwnIn(p, <<>>) = {} /\ Fresh(p, <<>>)
  BY DEF Own, OwnIn, Fresh
<1> QED BY <1>1, <1>2, <1>3, <1>4, <1>5, <1>6, <1>7, <1>8

LEMMA BeginRebuilds ==
  ASSUME Inv, NEW p \in Sides, NEW o \in Owners, NEW v, Begin(p, o, v)
  PROVE  Rebuilds(p)
<1>1. PICK b \in Seq(BuildType) : b = batch[p]
  BY BuildsHere
<1>2. PICK n \in Nat : n = Len(b)
  BY <1>1
<1>3. PICK new \in BuildType : new = [owner |-> o, allocations |-> <<>>]
  <2>1. <<>> \in Seq(AllocationType)
    BY BuildsHere
  <2> QED BY <2>1 DEF BuildType
<1>4. PICK c : c = Append(b, new)
  OBVIOUS
<1>5. /\ c \in Seq(BuildType) /\ Len(c) = n + 1 /\ DOMAIN c = 1 .. n + 1 /\ DOMAIN b = 1 .. n
      /\ c[n + 1] = new /\ \A w \in 1 .. n : c[w] = b[w]
  BY <1>1, <1>2, <1>4
<1>6. \A w \in 1 .. n + 1 : w \in 1 .. n \/ w = n + 1
  OBVIOUS
<1>7. batch' = [batch EXCEPT ![p] = c] /\ publishing[p] = <<>> /\ Len(batch[p]) < setting.nested
      /\ UNCHANGED <<setting, up, scope, publishing, unwinding, known, notices, call>>
  BY <1>1, <1>3, <1>4 DEF Begin
<1>8. /\ batch'[p] = c /\ batch'[Other(p)] = batch[Other(p)] /\ batch' \in [Sides -> Seq(BuildType)]
  BY <1>5, <1>7, BuildsHere
<1>9. \A w \in 1 .. n + 1 : w \notin 1 .. n =>
        Own(p, c[w].allocations) = {} /\ Fresh(p, c[w].allocations)
  BY <1>3, <1>5, <1>6, BuildsHere
<1>10. OwnIn(p, c) \subseteq OwnIn(p, b)
  <2> SUFFICES ASSUME NEW w \in 1 .. n + 1, NEW x \in Own(p, c[w].allocations)
               PROVE  x \in OwnIn(p, b)
    BY <1>5 DEF OwnIn
  <2>1. w \in 1 .. n /\ x \in Own(p, b[w].allocations)
    BY <1>5, <1>9
  <2> QED BY <1>5, <2>1 DEF OwnIn
<1>11. BuildsOK(p, b, publishing[p], unwinding[p])
  BY <1>1, BuildsHere
<1>12. BuildsOK(p, c, publishing[p], unwinding[p])
  <2>1. \A w, u \in 1 .. n + 1 : w # u => Own(p, c[w].allocations) \cap Own(p, c[u].allocations) = {}
    <3> TAKE w, u \in 1 .. n + 1
    <3>1. CASE w \in 1 .. n /\ u \in 1 .. n
      BY <1>5, <1>11, <3>1 DEF BuildsOK
    <3>2. CASE w \notin 1 .. n \/ u \notin 1 .. n
      BY <1>9, <3>2
    <3> QED BY <3>1, <3>2
  <2>2. \A w \in 1 .. n + 1 : Fresh(p, c[w].allocations)
    <3> TAKE w \in 1 .. n + 1
    <3>1. CASE w \in 1 .. n
      BY <1>5, <1>11, <3>1 DEF BuildsOK
    <3>2. CASE w \notin 1 .. n
      BY <1>9, <3>2
    <3> QED BY <3>1, <3>2
  <2> QED BY <1>5, <1>7, <1>10, <1>11, <2>1, <2>2 DEF BuildsOK
<1>13. OwnsOf(p, c, publishing[p], unwinding[p]) \subseteq Owns(p)
  BY <1>1, <1>10 DEF OwnsOf, Owns
<1>14. Len(c) <= setting.nested
  BY <1>1, <1>2, <1>5, <1>7, BuildsHere
<1> QED BY <1>7, <1>8, <1>12, <1>13, <1>14, BuildsHere DEF Rebuilds, Knowable

LEMMA FailRebuilds ==
  ASSUME Inv, NEW p \in Sides, Fail(p)
  PROVE  Rebuilds(p)
<1>1. PICK b \in Seq(BuildType) : b = batch[p] /\ b # <<>>
  BY BuildsHere DEF Fail, Building
<1>2. PICK n \in Nat : n = Len(b) /\ n > 0
  BY <1>1
<1>3. PICK c : c = Outer(b)
  OBVIOUS
<1>4. /\ c \in Seq(BuildType) /\ Len(c) = n - 1 /\ DOMAIN c = 1 .. n - 1 /\ DOMAIN b = 1 .. n
      /\ \A w \in 1 .. n - 1 : c[w] = b[w]
      /\ b[n].allocations \in Seq(AllocationType)
  BY <1>1, <1>2, <1>3, OuterIs
<1>5. PICK y \in Seq(AllocationType) : y = b[n].allocations
  BY <1>4
<1>6. /\ batch' = [batch EXCEPT ![p] = c] /\ unwinding' = [unwinding EXCEPT ![p] = y]
      /\ UNCHANGED <<setting, up, scope, publishing, known, notices, call>>
  BY <1>1, <1>2, <1>3, <1>5 DEF Fail, Outer
<1>7. /\ batch'[p] = c /\ batch'[Other(p)] = batch[Other(p)] /\ batch' \in [Sides -> Seq(BuildType)]
      /\ unwinding'[p] = y /\ unwinding'[Other(p)] = unwinding[Other(p)]
      /\ unwinding' \in [Sides -> Seq(AllocationType)]
  BY <1>4, <1>6, BuildsHere
<1>8. BuildsOK(p, b, publishing[p], unwinding[p]) /\ publishing[p] = <<>>
  BY <1>1, BuildsHere DEF BuildsOK
<1>9. OwnIn(p, c) \cup Own(p, y) \subseteq OwnIn(p, b)
  <2>1. n \in DOMAIN b /\ \A w \in DOMAIN c : w \in DOMAIN b
    BY <1>2, <1>4
  <2> QED BY <1>4, <1>5, <2>1 DEF OwnIn
<1>10. BuildsOK(p, c, publishing[p], y)
  <2>1. \A w \in 1 .. n - 1 : w \in 1 .. n /\ w # n /\ n \in 1 .. n
    BY <1>2
  <2>2. Own(p, y) \cap OwnIn(p, c) = {}
    <3> SUFFICES ASSUME NEW w \in 1 .. n - 1
                 PROVE  Own(p, y) \cap Own(p, c[w].allocations) = {}
      BY <1>4 DEF OwnIn
    <3> QED BY <1>4, <1>5, <1>8, <2>1 DEF BuildsOK
  <2>3. \A w, u \in 1 .. n - 1 : w # u => Own(p, c[w].allocations) \cap Own(p, c[u].allocations) = {}
    BY <1>4, <1>8, <2>1 DEF BuildsOK
  <2>4. Fresh(p, y) /\ \A w \in 1 .. n - 1 : Fresh(p, c[w].allocations)
    <3>1. \A w \in 1 .. n : Fresh(p, b[w].allocations)
      BY <1>4, <1>8 DEF BuildsOK
    <3> QED BY <1>4, <1>5, <2>1, <1>2, <3>1
  <2> QED BY <1>4, <1>8, <2>2, <2>3, <2>4 DEF BuildsOK
<1>11. OwnsOf(p, c, publishing[p], y) \subseteq Owns(p)
  BY <1>1, <1>9 DEF OwnsOf, Owns
<1>12. Len(c) <= setting.nested
  BY <1>1, <1>2, <1>4, BuildsHere
<1> QED BY <1>6, <1>7, <1>10, <1>11, <1>12, BuildsHere DEF Rebuilds, Knowable

LEMMA PublishRebuilds ==
  ASSUME Inv, NEW p \in Sides, Publish(p)
  PROVE  Rebuilds(p)
<1>1. PICK x \in Seq(AllocationType) : x = publishing[p] /\ x # <<>>
  BY BuildsHere DEF Publish
<1>2. BuildsOK(p, batch[p], x, unwinding[p]) /\ batch[p] = <<>> /\ unwinding[p] = <<>>
  BY <1>1, BuildsHere DEF BuildsOK
<1>3. publishing' = [publishing EXCEPT ![p] = <<>>]
      /\ UNCHANGED <<setting, up, scope, batch, notices, call>>
  BY DEF Publish
<1>4. publishing'[p] = <<>> /\ publishing'[Other(p)] = publishing[Other(p)]
      /\ publishing' \in [Sides -> Seq(AllocationType)]
  <2>1. [publishing EXCEPT ![p] = <<>>] \in [Sides -> Seq(AllocationType)]
    BY BuildsHere, Zenon
  <2> QED BY <1>3, <2>1, BuildsHere
<1>5. Owns(p) = Own(p, x)
  BY <1>1, <1>2, BuildsHere DEF Owns
<1>6. CASE /\ known' = [known EXCEPT ![Other(p)] = @ \cup Own(p, x)]
           /\ unwinding' = unwinding
  <2>1. /\ known'[p] = known[p] /\ known'[Other(p)] = known[Other(p)] \cup Own(p, x)
        /\ known' \in [Sides -> SUBSET Ids]
    <3>1. known[Other(p)] \cup Own(p, x) \in SUBSET Ids
      BY <1>5, BuildsHere DEF Minted
    <3> QED BY <1>6, <3>1, BuildsHere
  <2>2. BuildsOK(p, <<>>, <<>>, <<>>) /\ OwnsOf(p, <<>>, <<>>, <<>>) = {}
    BY BuildsHere DEF BuildsOK, OwnsOf
  <2> QED BY <1>2, <1>3, <1>4, <1>5, <1>6, <2>1, <2>2, BuildsHere DEF Rebuilds, Knowable
<1>7. CASE unwinding' = [unwinding EXCEPT ![p] = x] /\ known' = known
  <2>1. /\ unwinding'[p] = x /\ unwinding'[Other(p)] = unwinding[Other(p)]
        /\ unwinding' \in [Sides -> Seq(AllocationType)]
    BY <1>7, BuildsHere
  <2>2. BuildsOK(p, <<>>, <<>>, x) /\ OwnsOf(p, <<>>, <<>>, x) = Own(p, x)
    BY <1>2, BuildsHere DEF BuildsOK, OwnsOf
  <2> QED BY <1>2, <1>3, <1>4, <1>5, <1>7, <2>1, <2>2, BuildsHere DEF Rebuilds, Knowable
<1>8. \/ known' = [known EXCEPT ![Other(p)] = @ \cup Own(p, x)] /\ unwinding' = unwinding
      \/ unwinding' = [unwinding EXCEPT ![p] = x] /\ known' = known
  BY <1>1 DEF Publish, Own
<1> QED BY <1>6, <1>7, <1>8
\* What a nested build has is its parent's from now on.
Joint(b) == [Outer(b) EXCEPT ![Len(b) - 1].allocations = @ \o b[Len(b)].allocations]

LEMMA Joined ==
  ASSUME NEW p, NEW b \in Seq(BuildType), Len(b) > 1, NEW y, BuildsOK(p, b, <<>>, y)
  PROVE  /\ Joint(b) \in Seq(BuildType) /\ Len(Joint(b)) = Len(b) - 1
         /\ BuildsOK(p, Joint(b), <<>>, y) /\ OwnIn(p, Joint(b)) = OwnIn(p, b)
<1>0. PICK c : c = Joint(b)
  OBVIOUS
<1>1. PICK n \in Nat : n = Len(b) /\ n > 1
  OBVIOUS
<1>2. PICK d : d = Outer(b)
  OBVIOUS
<1>3. /\ d \in Seq(BuildType) /\ Len(d) = n - 1 /\ DOMAIN d = 1 .. n - 1 /\ DOMAIN b = 1 .. n
      /\ \A w \in 1 .. n - 1 : d[w] = b[w]
      /\ \A w \in 1 .. n : b[w] \in BuildType /\ b[w].allocations \in Seq(AllocationType)
  <2>1. b # <<>>
    BY <1>1
  <2> QED BY <1>1, <1>2, <2>1, OuterIs
<1>4. n \in 1 .. n /\ n - 1 \in 1 .. n - 1 /\ n - 1 \in 1 .. n /\ n - 1 # n
      /\ \A w \in 1 .. n - 1 : w \in 1 .. n /\ w # n
  BY <1>1
<1>5. PICK all \in Seq(AllocationType) : all = b[n - 1].allocations \o b[n].allocations
  <2>1. PICK m \in Seq(AllocationType), k \in Seq(AllocationType) :
          m = b[n - 1].allocations /\ k = b[n].allocations
    BY <1>3, <1>4
  <2>2. m \o k \in Seq(AllocationType)
    OBVIOUS
  <2> QED BY <2>1, <2>2, Zenon
<1>6. Own(p, all) = Own(p, b[n - 1].allocations) \cup Own(p, b[n].allocations)
      /\ (Fresh(p, b[n - 1].allocations) /\ Fresh(p, b[n].allocations) => Fresh(p, all))
  <2>1. b[n - 1].allocations \in Seq(AllocationType) /\ b[n].allocations \in Seq(AllocationType)
    BY <1>3, <1>4
  <2> QED BY <1>5, <2>1, OwnConcat, SMTT(30)
<1>7. PICK e \in BuildType : e = [b[n - 1] EXCEPT !.allocations = all] /\ e.allocations = all
  <2>1. PICK q \in BuildType : q = b[n - 1]
    BY <1>3, <1>4
  <2>2. [q EXCEPT !.allocations = all] \in BuildType /\ [q EXCEPT !.allocations = all].allocations = all
    BY DEF BuildType
  <2> QED BY <2>1, <2>2
<1>8. c = [d EXCEPT ![n - 1] = e]
  <2>1. d[n - 1] = b[n - 1]
    BY <1>3, <1>4
  <2> QED BY <1>0, <1>1, <1>2, <1>5, <1>7, <2>1 DEF Joint
<1>9. /\ c \in Seq(BuildType) /\ Len(c) = n - 1 /\ DOMAIN c = 1 .. n - 1
      /\ \A w \in 1 .. n - 1 : c[w] = IF w = n - 1 THEN e ELSE b[w]
  <2>1. d \in [1 .. n - 1 -> BuildType]
    BY <1>3
  <2>2. c \in [1 .. n - 1 -> BuildType] /\ \A w \in 1 .. n - 1 : c[w] = IF w = n - 1 THEN e ELSE d[w]
    BY <1>4, <1>7, <1>8, <2>1
  <2>3. c \in Seq(BuildType) /\ Len(c) = n - 1
    <3>1. PICK k \in Nat : k = n - 1
      BY <1>1
    <3>2. c \in [1 .. k -> BuildType]
      BY <2>2, <3>1
    <3>3. c \in Seq(BuildType)
      BY <3>2, SeqDef
    <3>4. DOMAIN c = 1 .. k /\ DOMAIN c = 1 .. Len(c) /\ Len(c) \in Nat
      BY <3>2, <3>3, LenProperties
    <3> QED BY <3>1, <3>3, <3>4
  <2> QED BY <1>3, <2>2, <2>3
<1>10. \A w \in 1 .. n - 1 :
         c[w].allocations = IF w = n - 1 THEN all ELSE b[w].allocations
  <2> TAKE w \in 1 .. n - 1
  <2>1. CASE w = n - 1
    <3>1. c[w] = e
      BY <1>9, <2>1
    <3> QED BY <1>7, <2>1, <3>1
  <2>2. CASE w # n - 1
    <3>1. c[w] = b[w]
      BY <1>9, <2>2
    <3> QED BY <2>2, <3>1
  <2> QED BY <2>1, <2>2
<1>11. OwnIn(p, c) = OwnIn(p, b)
  <2>1. ASSUME NEW w \in 1 .. n - 1, NEW x \in Own(p, c[w].allocations)
        PROVE  x \in OwnIn(p, b)
    <3>1. CASE w = n - 1
      <4>1. x \in Own(p, b[n - 1].allocations) \/ x \in Own(p, b[n].allocations)
        BY <1>6, <1>10, <2>1, <3>1
      <4> QED BY <1>3, <1>4, <4>1 DEF OwnIn
    <3>2. CASE w # n - 1
      <4>1. x \in Own(p, b[w].allocations)
        BY <1>10, <2>1, <3>2
      <4> QED BY <1>3, <1>4, <4>1 DEF OwnIn
    <3> QED BY <3>1, <3>2
  <2>2. ASSUME NEW w \in 1 .. n, NEW x \in Own(p, b[w].allocations)
        PROVE  x \in OwnIn(p, c)
    <3>1. CASE w \in {n - 1, n}
      <4>1. x \in Own(p, c[n - 1].allocations)
        BY <1>4, <1>6, <1>10, <2>2, <3>1
      <4> QED BY <1>4, <1>9, <4>1 DEF OwnIn
    <3>2. CASE w \notin {n - 1, n}
      <4>1. w \in 1 .. n - 1 /\ x \in Own(p, c[w].allocations)
        <5>1. w \in 1 .. n - 1
          BY <3>2
        <5> QED BY <1>10, <2>2, <3>2, <5>1
      <4> QED BY <1>9, <4>1 DEF OwnIn
    <3> QED BY <3>1, <3>2
  <2>3. OwnIn(p, c) \subseteq OwnIn(p, b)
    BY <1>9, <2>1 DEF OwnIn
  <2>4. OwnIn(p, b) \subseteq OwnIn(p, c)
    BY <1>3, <2>2 DEF OwnIn
  <2> QED BY <2>3, <2>4
<1>12. \A w, u \in 1 .. n : w # u => Own(p, b[w].allocations) \cap Own(p, b[u].allocations) = {}
  BY <1>3 DEF BuildsOK
<1>13. \A w, u \in 1 .. n - 1 : w # u => Own(p, c[w].allocations) \cap Own(p, c[u].allocations) = {}
  <2> TAKE w, u \in 1 .. n - 1
  <2>1. CASE w # n - 1 /\ u # n - 1
    BY <1>4, <1>10, <1>12, <2>1
  <2>2. CASE w = n - 1 /\ u # n - 1
    BY <1>4, <1>6, <1>10, <1>12, <2>2
  <2>3. CASE w # n - 1 /\ u = n - 1
    BY <1>4, <1>6, <1>10, <1>12, <2>3
  <2> QED BY <2>1, <2>2, <2>3
<1>14. \A w \in 1 .. n - 1 : Fresh(p, c[w].allocations)
  <2>1. \A w \in 1 .. n : Fresh(p, b[w].allocations)
    BY <1>3 DEF BuildsOK
  <2> QED BY <1>4, <1>6, <1>10, <2>1
<1>15. BuildsOK(p, c, <<>>, y)
  <2>1. Own(p, y) \cap OwnIn(p, c) = {} /\ Fresh(p, <<>>) /\ Fresh(p, y)
    BY <1>11 DEF BuildsOK
  <2>2. \A w, u \in DOMAIN c : w # u => Own(p, c[w].allocations) \cap Own(p, c[u].allocations) = {}
    <3>1. DOMAIN c = 1 .. n - 1
      BY <1>9
    <3> QED BY <1>13, <3>1, Zenon
  <2>3. \A w \in DOMAIN c : Fresh(p, c[w].allocations)
    BY <1>9, <1>14
  <2> QED BY <2>1, <2>2, <2>3 DEF BuildsOK
<1> QED BY <1>0, <1>1, <1>9, <1>11, <1>15

LEMMA CommitRebuilds ==
  ASSUME Inv, NEW p \in Sides, Commit(p)
  PROVE  Rebuilds(p)
<1>1. PICK b \in Seq(BuildType) : b = batch[p] /\ b # <<>>
  BY BuildsHere DEF Commit, Building
<1>2. PICK n \in Nat : n = Len(b) /\ n > 0
  BY <1>1
<1>3. publishing[p] = <<>> /\ unwinding[p] = <<>> /\ BuildsOK(p, b, <<>>, <<>>)
  BY <1>1, BuildsHere DEF BuildsOK, Commit, Building
<1>4. UNCHANGED <<setting, up, scope, unwinding, known, notices, call>>
  BY DEF Commit
<1>5. CASE n > 1
  <2>1. PICK c : c = Joint(b)
    OBVIOUS
  <2>0. Len(b) > 1
    BY <1>2, <1>5
  <2>2. /\ c \in Seq(BuildType) /\ Len(c) = n - 1
        /\ BuildsOK(p, c, <<>>, <<>>) /\ OwnIn(p, c) = OwnIn(p, b)
    <3>1. /\ c \in Seq(BuildType) /\ Len(c) = Len(b) - 1
          /\ BuildsOK(p, c, <<>>, <<>>) /\ OwnIn(p, c) = OwnIn(p, b)
      BY <1>3, <2>0, <2>1, Joined, Zenon
    <3> QED BY <1>2, <3>1
  <2>3. batch' = [batch EXCEPT ![p] = c] /\ publishing' = publishing
    <3>1. Len(batch[p]) > 1
      BY <1>1, <2>0
    <3>2. batch' = [batch EXCEPT ![p] = Joint(batch[p])] /\ publishing' = publishing
      BY <3>1 DEF Commit, Outer, Joint
    <3> QED BY <1>1, <2>1, <3>2
  <2>4. /\ batch'[p] = c /\ batch'[Other(p)] = batch[Other(p)] /\ batch' \in [Sides -> Seq(BuildType)]
    BY <2>2, <2>3, BuildsHere
  <2>5. OwnsOf(p, c, publishing[p], unwinding[p]) \subseteq Owns(p)
    BY <1>1, <2>2 DEF OwnsOf, Owns
  <2>6. Len(c) <= setting.nested
    BY <1>1, <1>2, <2>2, BuildsHere
  <2> QED BY <1>3, <1>4, <2>2, <2>3, <2>4, <2>5, <2>6, BuildsHere DEF Rebuilds, Knowable
<1>6. CASE ~(n > 1)
  <2>1. n = 1
    BY <1>2, <1>6
  <2>2. PICK x \in Seq(AllocationType) : x = b[1].allocations
    <3>1. \A w \in 1 .. Len(b) : b[w].allocations \in Seq(AllocationType)
      BY <1>1, OuterIs
    <3> QED BY <1>2, <2>1, <3>1
  <2>3. batch' = [batch EXCEPT ![p] = <<>>] /\ publishing' \in {publishing, [publishing EXCEPT ![p] = x]}
    BY <1>1, <1>2, <2>1, <2>2 DEF Commit
  <2>4. batch'[p] = <<>> /\ batch'[Other(p)] = batch[Other(p)] /\ batch' \in [Sides -> Seq(BuildType)]
    <3>1. [batch EXCEPT ![p] = <<>>] \in [Sides -> Seq(BuildType)]
      BY BuildsHere, Zenon
    <3> QED BY <2>3, <3>1, BuildsHere
  <2>5. PICK z \in {<<>>, x} : /\ publishing'[p] = z /\ publishing'[Other(p)] = publishing[Other(p)]
                               /\ publishing' \in [Sides -> Seq(AllocationType)]
    <3>1. CASE publishing' = publishing
      BY <1>3, <3>1, BuildsHere
    <3>2. CASE publishing' = [publishing EXCEPT ![p] = x]
      BY <2>2, <3>2, BuildsHere
    <3> QED BY <2>3, <3>1, <3>2
  <2>6. 1 \in DOMAIN b
    BY <1>1, <1>2, <2>1
  <2>7. Own(p, z) \subseteq OwnIn(p, b) /\ Fresh(p, z)
    <3>1. Own(p, x) \subseteq OwnIn(p, b) /\ Fresh(p, x)
      BY <1>3, <2>2, <2>6 DEF OwnIn, BuildsOK
    <3> QED BY <2>5, <3>1, BuildsHere
  <2>8. BuildsOK(p, <<>>, z, <<>>)
    BY <2>7, BuildsHere DEF BuildsOK
  <2>9. OwnsOf(p, <<>>, z, <<>>) \subseteq Owns(p)
    BY <1>1, <2>7, BuildsHere DEF OwnsOf, Owns
  <2>10. Len(batch'[p]) <= setting.nested
    BY <2>4, BuildsHere
  <2> QED BY <1>3, <1>4, <2>4, <2>5, <2>8, <2>9, <2>10, BuildsHere DEF Rebuilds, Knowable
<1> QED BY <1>5, <1>6

LEMMA SendRebuilds ==
  ASSUME Inv, NEW p \in Sides, NEW id, Send(p, id)
  PROVE  Rebuilds(p)
<1>1. /\ id \in Exported(scope[p]) /\ id \notin Pending(p) /\ id[1] = p
      /\ known' = [known EXCEPT ![Other(p)] = @ \cup {id}]
      /\ UNCHANGED <<setting, up, scope, buildVars, notices, call>>
  BY DEF Send
<1>2. id \in Ids /\ id \in Minted(p)
  BY <1>1, BuildsHere DEF Exported
<1>3. /\ known'[p] = known[p] /\ known'[Other(p)] = known[Other(p)] \cup {id}
      /\ known' \in [Sides -> SUBSET Ids]
  BY <1>1, <1>2, BuildsHere
<1>4. id \notin Owns(p)
  BY <1>1 DEF Owns, OwnIn, Own, Pending
<1> QED BY <1>1, <1>2, <1>3, <1>4, BuildsHere DEF Rebuilds, Knowable, buildVars
-----------------------------------------------------------------------------
(* Calls, and the end of a scope or of a peer.                             *)

LEMMA SidesStay ==
  ASSUME Inv, NEW p \in Sides, \A q \in Sides : up'[q] => up[q],
         UNCHANGED <<setting, scope, buildVars, known, notices>>
  PROVE  SideInv(p)'
<1>1. /\ setting' = setting /\ scope' = scope /\ batch' = batch /\ publishing' = publishing
      /\ unwinding' = unwinding /\ known' = known /\ notices' = notices
      /\ SideInv(p) /\ Other(p) \in Sides
  BY TwoSides DEF Inv, buildVars
<1>2. Minted(p)' = Minted(p) /\ Minted(Other(p))' = Minted(Other(p)) /\ Owns(p)' = Owns(p)
  BY <1>1 DEF Minted, Owns
<1>3. /\ Buries(scope[p])' <=> Buries(scope[p])
      /\ Held(scope[p], {})' <=> Held(scope[p], {})
      /\ Exported(scope[p])' = Exported(scope[p])
      /\ Imported(scope[p])' = Imported(scope[p])
  BY <1>1, BuriesStays, HeldStays DEF Exported, Imported
<1>4. TablesInv(p)'
  BY <1>1, <1>2, <1>3 DEF SideInv, TablesInv
<1>5. BuildInv(p)' /\ FreshInv(p)'
  BY <1>1, <1>2 DEF SideInv, BuildInv, FreshInv
<1>6. LearnInv(p)'
  BY <1>1, <1>2, <1>3 DEF SideInv, LearnInv, Knowable
<1> QED BY <1>4, <1>5, <1>6 DEF SideInv

LEMMA PeerEndsKeeps ==
  ASSUME Inv, NEW p \in Sides, PeerEnds(p)
  PROVE  Inv'
<1>1. /\ Types /\ up' = [up EXCEPT ![p] = FALSE]
      /\ UNCHANGED <<setting, scope, buildVars, known, notices, call>>
  BY DEF PeerEnds, Inv
<1>2. up' \in [Sides -> BOOLEAN] /\ \A q \in Sides : up'[q] => up[q]
  BY <1>1 DEF Types
<1>3. Types'
  BY <1>1, <1>2 DEF Types, buildVars
<1>4. \A q \in Sides : SideInv(q)'
  BY <1>1, <1>2, SidesStay
<1>5. \A c \in Calls : CallInv(c)'
  BY <1>1, CallsStay
<1> QED BY <1>3, <1>4, <1>5 DEF Inv

\* A call that takes a step keeps what is said of it.
CallSteps(c) ==
  /\ UNCHANGED <<setting, up, scope, buildVars, known, notices>>
  /\ \E r \in CallType : /\ call' = [call EXCEPT ![c] = r]
                         /\ r.late => /\ r.served \in {"none", "sent", "done"}
                                      /\ r.served = "sent" => r.id \in scope[r.id[1]].dead

LEMMA CallStepsKeeps ==
  ASSUME Inv, NEW c \in Calls, CallSteps(c)
  PROVE  Inv'
<1>1. Types /\ UNCHANGED <<setting, up, scope, buildVars, known, notices>>
  BY DEF CallSteps, Inv
<1>2. PICK r \in CallType : /\ call' = [call EXCEPT ![c] = r]
                            /\ r.late => /\ r.served \in {"none", "sent", "done"}
                                         /\ r.served = "sent" => r.id \in scope[r.id[1]].dead
  BY DEF CallSteps
<1>3. call' \in [Calls -> CallType]
  BY <1>1, <1>2 DEF Types
<1>4. Types'
  BY <1>1, <1>3 DEF Types, buildVars
<1>5. \A q \in Sides : SideInv(q)'
  BY <1>1, SidesStay
<1>6. ASSUME NEW d \in Calls
      PROVE  CallInv(d)'
  <2>1. CASE d = c
    <3>1. call'[d] = r /\ scope' = scope
      BY <1>1, <1>2, <2>1 DEF Types
    <3> QED BY <1>2, <3>1 DEF CallInv
  <2>2. CASE d # c
    <3>1. call'[d] = call[d] /\ scope' = scope /\ CallInv(d)
      BY <1>1, <1>2, <2>2 DEF Types, Inv
    <3> QED BY <3>1 DEF CallInv
  <2> QED BY <2>1, <2>2
<1> QED BY <1>4, <1>5, <1>6 DEF Inv

\* A late call is not found when it begins, nor by the lookup of its binding.
LEMMA InvokeSteps ==
  ASSUME Inv, NEW c \in Calls, NEW p \in Sides, NEW id \in Ids, NEW k, Invoke(c, p, id, k)
  PROVE  CallSteps(c)
<1>1. SideInv(p) /\ Types /\ scope[p] \in ScopeType /\ Buries(scope[p]) /\ id[1] \in Sides
  BY DEF Inv, Types, SideInv, TablesInv, Ids
<1>2. PICK here \in BOOLEAN : here = IF id[1] = p THEN scope[p].exports[id] # None
                           ELSE scope[p].importer[id] # None /\ scope[p].attached[id] = k
  OBVIOUS
<1>3. PICK passed \in BOOLEAN : passed = (~scope[p].closed /\ here)
  OBVIOUS
<1>4. PICK late \in BOOLEAN : late = Late(p, id)
  BY DEF Late
<1>5. PICK r \in CallType :
        r = [at |-> IF passed THEN "waiting" ELSE "returned", by |-> p, id |-> id,
             served |-> IF ~passed THEN "none" ELSE IF id[1] = p THEN "found" ELSE "sent",
             answer |-> IF scope[p].closed THEN "closed" ELSE IF here THEN "none" ELSE "released",
             late |-> late]
  <2>1. PICK served \in {"none", "found", "sent"} :
          served = IF ~passed THEN "none" ELSE IF id[1] = p THEN "found" ELSE "sent"
    OBVIOUS
  <2>2. PICK answer \in {"none", "closed", "released"} :
          answer = IF scope[p].closed THEN "closed" ELSE IF here THEN "none" ELSE "released"
    OBVIOUS
  <2>3. PICK at \in {"waiting", "returned"} : at = IF passed THEN "waiting" ELSE "returned"
    OBVIOUS
  <2>4. [at |-> at, by |-> p, id |-> id, served |-> served, answer |-> answer, late |-> late] \in CallType
    BY DEF CallType
  <2> QED BY <2>1, <2>2, <2>3, <2>4, Zenon
<1>6. call' = [call EXCEPT ![c] = r]
  BY <1>2, <1>3, <1>4, <1>5 DEF Invoke
<1>7. ASSUME passed, late
      PROVE  id[1] # p /\ id \in scope[id[1]].dead
  <2>1. id \in Tables(scope[p]) /\ (id[1] = p => id \in Exported(scope[p]))
    BY <1>2, <1>3, <1>7 DEF Tables, Exported, Imported
  <2>2. id \notin Tombstones(scope[p])
    BY <1>1, <2>1 DEF Buries
  <2>3. id \in scope[id[1]].dead
    BY <1>4, <1>7, <2>2 DEF Late
  <2> QED BY <1>1, <2>1, <2>3 DEF Buries
<1>8. r.late => /\ r.served \in {"none", "sent", "done"}
                /\ r.served = "sent" => r.id \in scope[r.id[1]].dead
  BY <1>5, <1>7
<1>9. UNCHANGED <<setting, up, scope, buildVars, known, notices>>
  BY DEF Invoke
<1> QED BY <1>6, <1>8, <1>9 DEF CallSteps

LEMMA ServeSteps ==
  ASSUME Inv, NEW c \in Calls, NEW served, NEW answer, Serve(c, served, answer),
         served \in {"none", "sent", "found", "running", "result", "done"},
         answer \in {"none", "ok", "closed", "released", "unknown", "failed"},
         call[c].late => served = "done"
  PROVE  CallSteps(c)
<1>1. call \in [Calls -> CallType] /\ call[c] \in CallType
  BY DEF Inv, Types
<1>2. PICK r \in CallType : r = [call[c] EXCEPT !.served = served, !.answer = answer]
  BY <1>1 DEF CallType
<1>3. r.served = served /\ r.late = call[c].late
  BY <1>1, <1>2 DEF CallType
<1>4. call' = [call EXCEPT ![c] = r]
  BY <1>1, <1>2 DEF Serve
<1> QED BY <1>3, <1>4 DEF CallSteps, Serve

LEMMA InvokingSteps ==
  ASSUME Inv, NEW c \in Calls, Invoking(c)
  PROVE  CallSteps(c)
<1>1. call \in [Calls -> CallType] /\ call[c] \in CallType /\ CallInv(c) /\ At(c) \in Sides
      /\ call[c].id \in Ids
  <2>1. call \in [Calls -> CallType] /\ call[c] \in CallType /\ CallInv(c)
    BY DEF Inv, Types
  <2> QED BY <2>1 DEF CallType, At, Ids
<1>2. CASE \E p \in Sides, id \in Ids, k \in 0 .. MaxAttached : Invoke(c, p, id, k)
  BY <1>2, InvokeSteps
<1>3. CASE Lookup(c)
  <2>1. CASE Serve(c, "done", "closed") \/ Serve(c, "done", "unknown")
    BY <2>1, ServeSteps
  <2>2. CASE Serve(c, "found", "none") /\ scope[At(c)].exports[call[c].id] # None
    <3>1. Buries(scope[At(c)])
      BY <1>1 DEF Inv, SideInv, TablesInv
    <3>2. call[c].id \notin scope[call[c].id[1]].dead
      BY <1>1, <2>2, <3>1 DEF Buries, Exported, At
    <3>3. call[c].served = "sent"
      BY <1>3 DEF Lookup
    <3>4. ~call[c].late
      BY <1>1, <3>2, <3>3 DEF CallInv
    <3> QED BY <2>2, <3>4, ServeSteps
  <2> QED BY <1>3, <2>1, <2>2 DEF Lookup
<1>4. CASE Start(c)
  <2>1. call[c].served = "found"
    BY <1>4 DEF Start
  <2>2. ~call[c].late
    BY <1>1, <2>1 DEF CallInv
  <2>3. Serve(c, "done", "closed") \/ Serve(c, "running", "none")
    BY <1>4 DEF Start
  <2> QED BY <2>2, <2>3, ServeSteps
<1>5. CASE BodyReturns(c)
  <2>1. call[c].served = "running" /\ Serve(c, "result", "none")
    BY <1>5 DEF BodyReturns
  <2>2. ~call[c].late
    BY <1>1, <2>1 DEF CallInv
  <2> QED BY <2>1, <2>2, ServeSteps
<1>6. CASE Settle(c)
  <2>1. Serve(c, "done", "closed") \/ Serve(c, "done", "ok") \/ Serve(c, "done", "failed")
    BY <1>6 DEF Settle
  <2> QED BY <2>1, ServeSteps
<1>7. CASE Return(c) \/ GivesUp(c)
  <2>1. /\ call' = [call EXCEPT ![c].at = "returned"]
        /\ UNCHANGED <<setting, up, scope, buildVars, known, notices>>
    BY <1>7 DEF Return, GivesUp
  <2>2. PICK r \in CallType : r = [call[c] EXCEPT !.at = "returned"]
    BY <1>1 DEF CallType
  <2>3. r.served = call[c].served /\ r.late = call[c].late /\ r.id = call[c].id
    BY <1>1, <2>2 DEF CallType
  <2>4. call' = [call EXCEPT ![c] = r]
    BY <2>1, <2>2
  <2> QED BY <1>1, <2>1, <2>3, <2>4 DEF CallSteps, CallInv
<1> QED BY <1>2, <1>3, <1>4, <1>5, <1>6, <1>7 DEF Invoking

\* The tables of a scope that ended are empty, and nothing else has changed.
LEMMA EndScopeKeeps ==
  ASSUME Inv, NEW p \in Sides, EndScope(p)
  PROVE  Inv'
<1>1. /\ Types /\ Other(p) \in Sides /\ Other(p) # p /\ Other(Other(p)) = p /\ Sides = {p, Other(p)}
      /\ scope \in [Sides -> ScopeType] /\ scope[p] \in ScopeType
      /\ SideInv(p) /\ SideInv(Other(p))
  BY TwoSides DEF Inv, Types
<1>2. /\ UNCHANGED <<setting, up, buildVars, known, notices, call>>
      /\ setting' = setting /\ known' = known /\ notices' = notices /\ batch' = batch
      /\ publishing' = publishing /\ unwinding' = unwinding /\ call' = call
  BY DEF EndScope, buildVars
<1>3. PICK u \in ScopeType :
        /\ u.minted = scope[p].minted /\ u.attached = scope[p].attached
        /\ u.gone = scope[p].gone /\ u.dead = scope[p].dead
        /\ scope' = [scope EXCEPT ![p] =
             [u EXCEPT !.closed = TRUE, !.exports = NoTable, !.importer = NoTable]]
  <2>1. CASE Root(scope[p]) = {}
    BY <1>1, <2>1 DEF EndScope
  <2>2. CASE Root(scope[p]) # {}
    <3>1. PICK o \in Owners : o = CHOOSE r \in Root(scope[p]) : TRUE
      BY <2>2 DEF Root
    <3>2. scope' = [scope EXCEPT ![p] =
             [EndOwner(scope[p], o) EXCEPT !.closed = TRUE, !.exports = NoTable, !.importer = NoTable]]
      BY <2>2, <3>1 DEF EndScope
    <3>3. EndOwner(scope[p], o) \in ScopeType /\ OwnerEnded(scope[p], EndOwner(scope[p], o), o)
      BY <1>1, EndOwnerIs
    <3> QED BY <3>2, <3>3 DEF OwnerEnded
  <2> QED BY <2>1, <2>2
<1>4. NoTable \in [Ids -> Owners \cup {None}] /\ \A x \in Ids : NoTable[x] = None
  BY DEF NoTable
<1>5. PICK t : t = [u EXCEPT !.closed = TRUE, !.exports = NoTable, !.importer = NoTable]
  OBVIOUS
<1>6. /\ t \in ScopeType /\ t.closed /\ t.exports = NoTable /\ t.importer = NoTable
      /\ t.minted = scope[p].minted /\ t.attached = scope[p].attached
      /\ t.gone = scope[p].gone /\ t.dead = scope[p].dead
  BY <1>3, <1>4, <1>5 DEF ScopeType
<1>7. scope'[p] = t /\ scope'[Other(p)] = scope[Other(p)] /\ scope' \in [Sides -> ScopeType]
  BY <1>1, <1>3, <1>5, <1>6
<1>8. Types'
  <2>1. \A q \in Sides : scope'[q].minted = scope[q].minted
    BY <1>1, <1>6, <1>7
  <2> QED BY <1>1, <1>2, <1>7, <2>1 DEF Types, buildVars
<1>9. Minted(p)' = Minted(p) /\ Minted(Other(p))' = Minted(Other(p))
      /\ Owns(p)' = Owns(p) /\ Owns(Other(p))' = Owns(Other(p))
  BY <1>2, <1>6, <1>7 DEF Minted, Owns
<1>10. Exported(t) = {} /\ Imported(t) = {}
  BY <1>4, <1>6 DEF Exported, Imported
<1>11. Buries(t)
  BY <1>1, <1>6, <1>10 DEF SideInv, TablesInv, Buries, Tombed, Tombstones, Tables
<1>12. Buries(scope[p])'
  BY <1>2, <1>7, <1>11, BuriesStays
<1>13. TablesInv(p)'
  <2>1. Exported(scope[p])' = {} /\ Imported(scope[p])' = {} /\ scope'[p] = t
    BY <1>7, <1>10 DEF Exported, Imported
  <2> QED BY <1>1, <1>2, <1>6, <1>9, <1>12, <2>1 DEF SideInv, TablesInv
<1>14. TablesInv(Other(p))'
  <2>1. Buries(scope[Other(p)])'
    BY <1>1, <1>2, <1>7, BuriesStays DEF SideInv, TablesInv
  <2>2. Exported(scope[Other(p)])' = Exported(scope[Other(p)])
        /\ Imported(scope[Other(p)])' = Imported(scope[Other(p)])
        /\ (Held(scope[Other(p)], {})' <=> Held(scope[Other(p)], {}))
    BY <1>1, <1>7, HeldStays DEF Exported, Imported
  <2> QED BY <1>1, <1>2, <1>7, <1>9, <2>1, <2>2 DEF SideInv, TablesInv
<1>15. \A q \in Sides : BuildInv(q)' /\ FreshInv(q)'
  BY <1>1, <1>2, <1>9 DEF SideInv, BuildInv, FreshInv
<1>16. \A q \in Sides : LearnInv(q)'
  <2>1. scope'[p].closed
    BY <1>6, <1>7
  <2> QED BY <1>1, <2>1 DEF LearnInv
<1>17. \A q \in Sides : SideInv(q)'
  BY <1>1, <1>13, <1>14, <1>15, <1>16 DEF SideInv
<1>18. \A c \in Calls : CallInv(c)'
  <2>1. \A q \in Sides : scope[q].dead \subseteq scope'[q].dead
    BY <1>1, <1>6, <1>7
  <2> QED BY <1>2, <2>1, CallsStay
<1> QED BY <1>8, <1>17, <1>18 DEF Inv
-----------------------------------------------------------------------------
(* The invariant is inductive.                                             *)

LEMMA InitInv == Init => Inv
<1> SUFFICES ASSUME Init
             PROVE  Inv
  OBVIOUS
<1>1. /\ setting \in Settings /\ up = [p \in Sides |-> TRUE] /\ scope = [p \in Sides |-> NewScope]
      /\ batch = [p \in Sides |-> <<>>] /\ publishing = batch /\ unwinding = batch
      /\ known = [p \in Sides |-> {}] /\ notices = known /\ call = [c \in Calls |-> Idle]
  BY DEF Init
<1>2. NewScope \in ScopeType
  <2>1. /\ NoTable \in [Ids -> Owners \cup {None}] /\ [id \in Ids |-> 0] \in [Ids -> 0 .. MaxAttached]
        /\ <<>> \in Seq(Ids) /\ [o \in Owners |-> {}] \in [Owners -> SUBSET Ids] /\ 0 \in 0 .. MaxMinted
    BY BoundsAssumption DEF NoTable
  <2> QED BY <2>1 DEF NewScope, ScopeType
<1>3. Limit \in Nat
  BY <1>1, LimitIsNat
<1>4. Idle \in CallType /\ ~Idle.late
  BY BoundsAssumption DEF Idle, CallType, Sides, Ids
<1>5. \A s \in Settings : s.nested \in Nat /\ s.minted \in [Sides -> 0 .. MaxMinted]
  BY SettingsAssumption
<1>6. Types
  <2>1. <<>> \in Seq(AllocationType) /\ <<>> \in Seq(BuildType)
    OBVIOUS
  <2>2. call \in [Calls -> CallType]
    BY <1>1, <1>4
  <2>3. \A p \in Sides : Len(batch[p]) <= setting.nested /\ scope[p].minted <= setting.minted[p]
    <3> TAKE p \in Sides
    <3>1. batch[p] = <<>> /\ scope[p].minted = 0
      BY <1>1 DEF NewScope
    <3>2. setting.nested \in Nat /\ setting.minted[p] \in Nat
      BY <1>1, <1>5, BoundsAssumption
    <3> QED BY <3>1, <3>2
  <2>4. batch \in [Sides -> Seq(BuildType)] /\ batch \in [Sides -> Seq(AllocationType)]
    BY <1>1, <2>1, Zenon
  <2>5. scope \in [Sides -> ScopeType] /\ known \in [Sides -> SUBSET Ids] /\ up \in [Sides -> BOOLEAN]
    BY <1>1, <1>2
  <2> QED BY <1>1, <2>2, <2>3, <2>4, <2>5 DEF Types
<1>7. ASSUME NEW p \in Sides
      PROVE  SideInv(p)
  <2>1. /\ scope[p] = NewScope /\ batch[p] = <<>> /\ publishing[p] = <<>> /\ unwinding[p] = <<>>
        /\ known[p] = {} /\ notices[p] = {} /\ Other(p) \in Sides /\ known[Other(p)] = {}
    BY <1>1, TwoSides
  <2>2. /\ NewScope.closed = FALSE /\ NewScope.exports = NoTable /\ NewScope.importer = NoTable
        /\ NewScope.gone = <<>> /\ NewScope.dead = {} /\ NewScope.linked = {}
        /\ NewScope.attached = [id \in Ids |-> 0] /\ NewScope.owned = [o \in Owners |-> {}]
    BY DEF NewScope
  <2>3. Exported(NewScope) = {} /\ Imported(NewScope) = {} /\ Tombstones(NewScope) = {}
    BY <2>2 DEF Exported, Imported, Tombstones, NoTable
  <2>4. Buries(NewScope)
    BY <1>3, <2>2, <2>3 DEF Buries, Tombed, Tables
  <2>5. Held(NewScope, {})
    BY <2>2, <2>3 DEF Held, Linked, Tables
  <2>6. Own(p, <<>>) = {} /\ OwnIn(p, <<>>) = {} /\ Fresh(p, <<>>) /\ DOMAIN <<>> = {}
    BY DEF Own, OwnIn, Fresh
  <2>7. Owns(p) = {}
    BY <2>1, <2>6 DEF Owns
  <2>8. TablesInv(p)
    BY <2>1, <2>2, <2>3, <2>4, <2>5 DEF TablesInv
  <2>9. BuildInv(p) /\ FreshInv(p)
    BY <2>1, <2>6, <2>7 DEF BuildInv, FreshInv
  <2>10. LearnInv(p)
    BY <2>1, <2>7 DEF LearnInv, Knowable
  <2> QED BY <2>8, <2>9, <2>10 DEF SideInv
<1>8. \A c \in Calls : CallInv(c)
  BY <1>1, <1>4 DEF CallInv
<1> QED BY <1>6, <1>7, <1>8 DEF Inv

LEMMA StutterInv == Inv /\ UNCHANGED vars => Inv'
<1> SUFFICES ASSUME Inv, UNCHANGED vars
             PROVE  Inv'
  OBVIOUS
<1>1. /\ UNCHANGED <<setting, scope, buildVars, known, notices>> /\ up' = up /\ call' = call /\ Types
      /\ batch' = batch /\ publishing' = publishing /\ unwinding' = unwinding
  BY DEF vars, buildVars, Inv
<1>2. Types'
  BY <1>1 DEF Types
<1>3. \A p \in Sides : SideInv(p)'
  BY <1>1, SidesStay
<1>4. \A c \in Calls : CallInv(c)'
  BY <1>1, CallsStay
<1> QED BY <1>2, <1>3, <1>4 DEF Inv

LEMMA NextInv == Inv /\ Next => Inv'
<1> SUFFICES ASSUME Inv, Next
             PROVE  Inv'
  OBVIOUS
<1>1. ASSUME NEW p \in Sides, Releasing(p)
      PROVE  Inv'
  <2>1. ASSUME NEW id \in Ids, Release(p, id)
        PROVE  Inv'
    BY <2>1, ReleaseRevokes, RevokesKeeps
  <2>2. ASSUME NEW id \in Ids, OnRelease(p, id)
        PROVE  Inv'
    BY <2>2, OnReleaseRevokes, RevokesKeeps
  <2>3. ASSUME NEW o \in Owners, OwnerRelease(p, o)
        PROVE  Inv'
    BY <2>3, OwnerReleaseRevokes, RevokesKeeps
  <2> QED BY <1>1, <2>1, <2>2, <2>3 DEF Releasing
<1>2. ASSUME NEW p \in Sides, Allocating(p)
      PROVE  Inv'
  <2>1. PICK o \in Owners, v \in Views(p) :
          Export(p, o, v) \/ (\E id \in Ids : Attach(p, o, v, id)) \/ Begin(p, o, v)
    BY <1>2 DEF Allocating
  <2>2. CASE Export(p, o, v)
    <3>1. ~Ended(scope[p], o) /\ \E id \in Ids : Allocates(p, o, v, id)
      BY <2>2, ExportAllocates
    <3> QED BY <3>1, AllocatesKeeps
  <2>3. ASSUME NEW id \in Ids, Attach(p, o, v, id)
        PROVE  Inv'
    <3>1. ~Ended(scope[p], o) /\ Allocates(p, o, v, id)
      BY <2>3, AttachAllocates
    <3> QED BY <3>1, AllocatesKeeps
  <2>4. CASE Begin(p, o, v)
    BY <2>4, BeginRebuilds, RebuildsKeeps
  <2> QED BY <2>1, <2>2, <2>3, <2>4
<1>3. ASSUME NEW p \in Sides, Converting(p)
      PROVE  Inv'
  <2>1. CASE Commit(p)
    BY <1>3, <2>1, CommitRebuilds, RebuildsKeeps
  <2>2. CASE Fail(p)
    BY <1>3, <2>2, FailRebuilds, RebuildsKeeps
  <2>3. CASE Discard(p)
    BY <1>3, <2>3, DiscardRevokes, RevokesKeeps
  <2>4. CASE Publish(p)
    BY <1>3, <2>4, PublishRebuilds, RebuildsKeeps
  <2>5. ASSUME NEW id \in Ids, Send(p, id)
        PROVE  Inv'
    BY <1>3, <2>5, SendRebuilds, RebuildsKeeps
  <2> QED BY <1>3, <2>1, <2>2, <2>3, <2>4, <2>5 DEF Converting
<1>4. ASSUME NEW p \in Sides, EndScope(p) \/ PeerEnds(p)
      PROVE  Inv'
  BY <1>4, EndScopeKeeps, PeerEndsKeeps
<1>5. ASSUME NEW c \in Calls, Invoking(c)
      PROVE  Inv'
  BY <1>5, InvokingSteps, CallStepsKeeps
<1> QED BY <1>1, <1>2, <1>3, <1>4, <1>5 DEF Next

LEMMA LiveInv == Spec => []Inv
<1>1. Inv /\ [Next]_vars => Inv'
  BY NextInv, StutterInv
<1> QED BY <1>1, InitInv, PTL DEF Spec

-----------------------------------------------------------------------------
(* The theorems.                                                           *)

\* Whatever the family of owners and the limits, a scope's tables, tombstones
\* and builds stay within their types and bounds: tombstones are each there
\* once, no more than the limit, and remember only what was released.
THEOREM LiveTypes == Spec => []TypeOK
<1>1. Inv => TypeOK
  <2> SUFFICES ASSUME Inv
               PROVE  TypeOK
    OBVIOUS
  <2>1. Types /\ \A p \in Sides : SideInv(p)
    BY DEF Inv
  <2>2. ASSUME NEW p \in Sides
        PROVE  /\ scope[p].closed \in BOOLEAN /\ scope[p].minted \in 0 .. setting.minted[p]
               /\ scope[p].exports \in [Ids -> Owners \cup {None}]
               /\ scope[p].importer \in [Ids -> Owners \cup {None}]
               /\ scope[p].attached \in [Ids -> 0 .. MaxAttached]
               /\ scope[p].owned \in [Owners -> SUBSET Ids]
               /\ scope[p].linked \subseteq Owners /\ scope[p].released \subseteq Owners
               /\ Tombstones(scope[p]) \subseteq scope[p].dead /\ scope[p].dead \subseteq Ids
               /\ Len(scope[p].gone) <= Limit
               /\ Cardinality(Tombstones(scope[p])) = Len(scope[p].gone)
               /\ Len(batch[p]) <= setting.nested
               /\ known[p] \subseteq Ids /\ notices[p] \subseteq Ids
    <3>1. scope[p] \in ScopeType /\ Buries(scope[p]) /\ Tombed(scope[p])
      BY <2>1 DEF Types, SideInv, TablesInv, Buries
    <3>2. Cardinality(Tombstones(scope[p])) = Len(scope[p].gone)
      BY <3>1, TombstonesCounted
    <3>3. scope[p].minted \in 0 .. MaxMinted /\ scope[p].minted <= setting.minted[p]
          /\ setting.minted[p] \in 0 .. MaxMinted
      BY <2>1, <3>1, SettingsAssumption DEF ScopeType, Types
    <3>4. scope[p].minted \in 0 .. setting.minted[p]
      BY <3>3, BoundsAssumption
    <3>5. Len(batch[p]) <= setting.nested /\ known[p] \subseteq Ids /\ notices[p] \subseteq Ids
      BY <2>1 DEF Types
    <3> QED BY <3>1, <3>2, <3>4, <3>5 DEF ScopeType, Buries, Tombed
  <2>3. ASSUME NEW c \in Calls
        PROVE  /\ call[c].at \in {"idle", "waiting", "returned"}
               /\ call[c].served \in {"none", "sent", "found", "running", "result", "done"}
               /\ call[c].answer \in {"none", "ok", "closed", "released", "unknown", "failed"}
    BY <2>1 DEF Types, CallType
  <2>4. setting \in Settings /\ up \in [Sides -> BOOLEAN]
    BY <2>1 DEF Types
  <2> QED BY <2>2, <2>3, <2>4 DEF TypeOK
<1> QED BY <1>1, LiveInv, PTL

\* Whatever order owners, bindings and batches end in, what an open scope has
\* in its tables belongs to one owner that lives, found from the root through
\* children, and no parent keeps a child that leads to nothing.
THEOREM LiveHeld == Spec => []HeldByALivingOwner
<1>1. Inv => HeldByALivingOwner
  <2> SUFFICES ASSUME Inv, NEW p \in Sides, ~scope[p].closed
               PROVE  /\ \A id \in Exported(scope[p]) \cup Imported(scope[p]) :
                           \E o \in Owners :
                             /\ {d \in Owners : id \in scope[p].owned[d]} = {o}
                             /\ {scope[p].exports[id], scope[p].importer[id]} = {o, None}
                             /\ ~Ended(scope[p], o)
                             /\ \A a \in Line[o] : Parent[a] = None \/ a \in scope[p].linked
                      /\ \A o \in Owners :
                           scope[p].owned[o] \subseteq Exported(scope[p]) \cup Imported(scope[p])
                      /\ \A a \in scope[p].linked : \E o \in Owners : a \in Line[o] /\ scope[p].owned[o] # {}
    BY DEF HeldByALivingOwner
  <2>1. Held(scope[p], {})
    BY DEF Inv, SideInv, TablesInv
  <2>2. ASSUME NEW id \in Exported(scope[p]) \cup Imported(scope[p])
        PROVE  \E o \in Owners :
                 /\ {d \in Owners : id \in scope[p].owned[d]} = {o}
                 /\ {scope[p].exports[id], scope[p].importer[id]} = {o, None}
                 /\ ~Ended(scope[p], o)
                 /\ \A a \in Line[o] : Parent[a] = None \/ a \in scope[p].linked
    <3>1. id \in Tables(scope[p]) \ {}
      BY <2>2 DEF Tables
    <3>2. PICK o \in Owners : Holds(scope[p], o, id)
      BY <2>1, <3>1 DEF Held
    <3>3. id \in scope[p].owned[o]
      BY <3>2 DEF Holds
    <3>4. \A a \in Line[o] : Parent[a] = None \/ a \in scope[p].linked
      BY <2>1, <3>3 DEF Held, Linked
    <3> QED BY <3>2, <3>4 DEF Holds
  <2>3. \A o \in Owners : scope[p].owned[o] \subseteq Exported(scope[p]) \cup Imported(scope[p])
    BY <2>1 DEF Held, Tables
  <2>4. \A a \in scope[p].linked : \E o \in Owners : a \in Line[o] /\ scope[p].owned[o] # {}
    BY <2>1 DEF Held, Linked
  <2> QED BY <2>2, <2>3, <2>4
<1> QED BY <1>1, LiveInv, PTL

\* No attachment dangles untold: while both scopes are open, a binding its
\* exporter no longer has was released with a notice that is on its way, or was
\* released where it is attached.
THEOREM LiveAliases == Spec => []AliasesLearn
<1>1. Inv => AliasesLearn
  <2> SUFFICES ASSUME Inv, NEW p \in Sides, NEW id \in Imported(scope[p]) \ scope[p].dead,
                      ~scope[p].closed, ~scope[Other(p)].closed, up[p], up[Other(p)]
               PROVE  id \in Exported(scope[Other(p)]) \cup notices[Other(p)]
    BY DEF AliasesLearn
  <2>1. Other(p) \in Sides /\ Other(Other(p)) = p
    BY TwoSides
  <2>2. LearnInv(Other(p)) /\ TablesInv(p)
    BY <2>1 DEF Inv, SideInv
  <2>3. id \in known[p]
    BY <2>2 DEF TablesInv
  <2>4. id \in Knowable(Other(p))
    BY <2>1, <2>3 DEF Knowable
  <2> QED BY <2>1, <2>2, <2>4 DEF LearnInv
<1> QED BY <1>1, LiveInv, PTL

\* A release is a barrier: no call begun after it took effect where the binding
\* was exported, or while it is remembered where it is called, reaches a body.
THEOREM LiveBarrier == Spec => []BarrierHolds
<1>1. Inv => BarrierHolds
  BY DEF Inv, CallInv, BarrierHolds
<1> QED BY <1>1, LiveInv, PTL

\* A failed build is discarded in a step of its own, which revokes what the
\* build allocated.
LEMMA DiscardUnwinds ==
  ASSUME Inv, NEW p \in Sides, Discard(p), NEW id \in Ids
  PROVE  \/ Current(scope'[p], Allocation(scope[p], id)) \/ ~Current(scope[p], Allocation(scope[p], id))
         \/ \E i \in DOMAIN unwinding[p] : unwinding[p][i] = Allocation(scope[p], id)
<1>1. /\ setting \in Settings /\ scope \in [Sides -> ScopeType] /\ scope[p] \in ScopeType
      /\ Buries(scope[p]) /\ Exported(scope[p]) \subseteq Minted(p)
      /\ \A x \in Ids : x[1] = p => scope[p].attached[x] = 0
      /\ Fresh(p, unwinding[p])
  BY DEF Inv, Types, SideInv, TablesInv, FreshInv
<1>2. PICK made \in Seq(AllocationType) : made = unwinding[p]
  BY DEF Inv, Types
<1>3. Reduced(scope[p], scope'[p], Discarded(p))
  <2>1. scope'[p] = TakeCurrent(scope[p], made)
    BY <1>1, <1>2 DEF Discard
  <2> QED BY <1>1, <1>2, <2>1, TakeCurrentReduces DEF Discarded
<1>4. CASE id \notin Discarded(p)
  <2>1. /\ scope'[p].exports[id] = scope[p].exports[id]
        /\ scope'[p].importer[id] = scope[p].importer[id]
        /\ scope'[p].attached = scope[p].attached
    BY <1>3, <1>4 DEF Reduced
  <2> QED BY <2>1 DEF Current, Allocation
<1>5. CASE id \in Discarded(p)
  <2>1. PICK i \in 1 .. Len(made) : id = made[i].id /\ Current(scope[p], made[i])
    BY <1>2, <1>5 DEF Discarded
  <2>2. made[i] \in AllocationType
    BY <1>2
  <2>3. made[i].attached = scope[p].attached[id]
    <3>1. CASE scope[p].exports[id] # None
      <4>1. id[1] = p
        BY <1>1, <3>1 DEF Exported, Minted
      <4> QED BY <1>1, <1>2, <2>1, <4>1 DEF Fresh
    <3>2. CASE scope[p].exports[id] = None
      BY <2>1, <3>2 DEF Current
    <3> QED BY <3>1, <3>2
  <2>4. made[i] = Allocation(scope[p], id)
    BY <2>1, <2>2, <2>3 DEF AllocationType, Allocation
  <2> QED BY <1>2, <2>4
<1> QED BY <1>4, <1>5

LEMMA OnlyDiscardUnwinds ==
  ASSUME Inv, [Next]_vars, NEW p \in Sides, unwinding[p] # <<>>, unwinding'[p] = <<>>
  PROVE  Discard(p)
<1>1. /\ unwinding \in [Sides -> Seq(AllocationType)]
      /\ \A q \in Sides : publishing[q] # <<>> => unwinding[q] = <<>>
  BY DEF Inv, Types, SideInv, BuildInv
<1>2. unwinding' # unwinding
  OBVIOUS
<1>3. Next
  BY <1>2 DEF vars, buildVars
<1>4. ASSUME NEW q \in Sides, Releasing(q)
      PROVE  FALSE
  BY <1>2, <1>4 DEF Releasing, Release, OnRelease, OwnerRelease, buildVars
<1>5. ASSUME NEW q \in Sides, Allocating(q)
      PROVE  FALSE
  BY <1>2, <1>5, ZenonT(60) DEF Allocating, Export, Attach, Allocate, Begin
<1>6. ASSUME NEW q \in Sides, Converting(q)
      PROVE  Discard(p)
  <2>1. \/ Fail(q) \/ Discard(q) \/ Publish(q)
    BY <1>2, <1>6 DEF Converting, Commit, Send, buildVars
  <2>2. q = p
    <3>1. CASE q # p
      BY <1>1, <2>1, <3>1 DEF Fail, Discard, Publish
    <3> QED BY <3>1
  <2>3. ~Fail(p) /\ ~Publish(p)
    BY <1>1, <1>2 DEF Fail, Building, Publish
  <2> QED BY <2>1, <2>2, <2>3
<1>7. ASSUME NEW q \in Sides, EndScope(q) \/ PeerEnds(q)
      PROVE  FALSE
  BY <1>2, <1>7 DEF EndScope, PeerEnds, buildVars
<1>8. ASSUME NEW c \in Calls, Invoking(c)
      PROVE  FALSE
  BY <1>2, <1>8 DEF Invoking, Invoke, Lookup, Start, BodyReturns, Settle, Return, GivesUp, Serve, buildVars
<1> QED BY <1>3, <1>4, <1>5, <1>6, <1>7, <1>8 DEF Next

\* A failed build revokes what it allocated and nothing else: whatever is not
\* in the tables after the discard was, attachment and all, what it had noted.
THEOREM LiveUnwinds == Spec => UnwindsItsOwn
<1>1. Inv /\ [Next]_vars =>
        [\A p \in Sides : unwinding[p] # <<>> /\ unwinding'[p] = <<>> =>
          \A id \in Ids :
            \/ Current(scope'[p], Allocation(scope[p], id)) \/ ~Current(scope[p], Allocation(scope[p], id))
            \/ \E i \in DOMAIN unwinding[p] : unwinding[p][i] = Allocation(scope[p], id)]_vars
  BY OnlyDiscardUnwinds, DiscardUnwinds
<1> QED BY <1>1, LiveInv, PTL DEF Spec, UnwindsItsOwn
=============================================================================
