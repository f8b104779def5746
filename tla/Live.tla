-------------------------------- MODULE Live --------------------------------
(***************************************************************************)
(* Live references (live/go): each side of a connection keeps a scope with *)
(* the bindings it exported, its attachments to the other side's bindings, *)
(* the owners that hold them, and tombstones of what was released.         *)
(*                                                                         *)
(* live.invoke is a request, handled in a goroutine of its own, and        *)
(* live.release is an event, told after the scope's lock is left by        *)
(* whichever goroutine released: on the way neither is ordered with the    *)
(* other.  So a request is a call not looked up yet and notices are a set. *)
(* Contracts and digests, which only refuse more, are left out.            *)
(***************************************************************************)
EXTENDS Integers, Sequences, FiniteSets

CONSTANTS
  Owners,      \* the lifetimes of a side, numbered as they are made, from 1
  Parent,      \* the owner each was made from with Child, 0 for a root
  Line,        \* each owner with its ancestors
  Calls,       \* the invocations
  MaxMinted,   \* bound of the model: bindings a side exports
  MaxAttached, \* bound of the model: times a binding is attached
  Settings     \* the configurations and surroundings a behaviour may have

Sides == {"a", "b"}
Other(p) == IF p = "a" THEN "b" ELSE "a"
None == 0
Ids == Sides \X (1 .. MaxMinted)   \* the exporter's nonce and its next

ASSUME BoundsAssumption == MaxMinted \in Nat \ {0} /\ MaxAttached \in Nat

ASSUME FamilyAssumption ==
  /\ Owners \subseteq Nat \ {None}
  /\ Parent \in [Owners -> Owners \cup {None}] /\ Line \in [Owners -> SUBSET Owners]
  /\ \A o \in Owners :
       /\ Parent[o] < o
       /\ Line[o] = {o} \cup (IF Parent[o] = None THEN {} ELSE Line[Parent[o]])

ASSUME SettingsAssumption ==
  \A s \in Settings :
    /\ {s.exports, s.imports, s.nested} \subseteq Nat
    /\ s.minted \in [Sides -> 0 .. MaxMinted]
    /\ s.attachments \in [1 .. MaxMinted -> 0 .. MaxAttached]

VARIABLES
  setting,    \* one of Settings
  up,         \* per side: whether its peer runs
  scope,      \* per side: its scope's tables and owners
  batch,      \* per side: the value being built, one entry for each nested build
  publishing, \* per side: what a complete build allocated, while it is published
  unwinding,  \* per side: what a failed build allocated, until it is discarded
  known,      \* per side: the references the other side has sent it
  notices,    \* per side: releases told and not handled by the other side
  call        \* the invocations

vars == <<setting, up, scope, batch, publishing, unwinding, known, notices, call>>
buildVars == <<batch, publishing, unwinding>>

Exported(s) == {id \in Ids : s.exports[id] # None}
Imported(s) == {id \in Ids : s.importer[id] # None}
Tombstones(s) == {s.gone[i] : i \in 1 .. Len(s.gone)}

NoTable == [id \in Ids |-> None]
NewScope ==
  [closed |-> FALSE, minted |-> 0,
   exports |-> NoTable,   \* the owner of each binding exported here
   importer |-> NoTable,  \* the owner of each attachment
   attached |-> [id \in Ids |-> 0],  \* which attachment to the binding that is
   gone |-> <<>>, dead |-> {},       \* tombstones; history: all that was released
   owned |-> [o \in Owners |-> {}],
   linked |-> {},         \* the owners in their parents' children
   released |-> {}]

-----------------------------------------------------------------------------
(* Owners.                                                                 *)

Ended(s, o) == \E a \in Line[o] : a \in s.released

\* Scope.Owner hands out a fresh root once the one before it is released.
HandedOut(s, o) == \A r \in Owners :
  Parent[r] = None /\ r < (CHOOSE a \in Line[o] : Parent[a] = None) => r \in s.released

\* Mutant: record links the owner to its parent and no further.
RecordOwn(s, o, id) ==
  [s EXCEPT !.owned[o] = @ \cup {id}, !.linked = @ \cup ({o} \ {a \in Owners : Parent[a] = None})]

Record(s, o, id) ==
  [s EXCEPT !.owned[o] = @ \cup {id},
            !.linked = @ \cup {a \in Line[o] : Parent[a] # None}]

\* prune leaves the parent's children, upward while nothing is left.
Pruned(s, o) == {a \in Line[o] : \A b \in Line[o] : a \in Line[b] =>
  s.owned[b] = {} /\ \A d \in s.linked : Parent[d] = b => d \in Line[o]}
Prune(s, o) == [s EXCEPT !.linked = @ \ Pruned(s, o)]
Forget(s, o, id) ==
  IF o = None THEN s ELSE Prune([s EXCEPT !.owned[o] = @ \ {id}], o)

\* The owners that end reaches from o, children first.
Reached(s, o) ==
  {d \in Owners : o \in Line[d] /\ \A a \in Line[d] \ Line[o] : a \in s.linked \ s.released}
EndOwner(s, o) ==
  IF o \in s.released THEN s
  ELSE LET below == Reached(s, o) IN
       Prune([s EXCEPT !.released = @ \cup below,
                       !.owned = [d \in Owners |-> IF d \in below THEN {} ELSE @[d]],
                       !.linked = @ \ (below \ {o})], o)
EndedIds(s, o) == IF o \in s.released THEN {} ELSE UNION {s.owned[d] : d \in Reached(s, o)}

-----------------------------------------------------------------------------
(* Releasing.                                                              *)

\* What a batch notes of a binding, and whether it is still that one.
Allocation(s, id) == [id |-> id, attached |-> s.attached[id]]
Current(s, a) ==
  s.exports[a.id] # None \/ (s.importer[a.id] # None /\ s.attached[a.id] = a.attached)

\* takeRelease does something, and its notice may be told.
Takes(s, id) == ~s.closed /\ (id \in Exported(s) \cup Imported(s) \/ id \notin Tombstones(s))

Limit == setting.exports + setting.imports
\* Mutant: tombstones are never dropped.
BuriedForGood(gone, id) ==
  IF \E i \in 1 .. Len(gone) : gone[i] = id THEN gone ELSE Append(gone, id)

Buried(gone, id) ==
  LET more == IF \E i \in 1 .. Len(gone) : gone[i] = id THEN gone ELSE Append(gone, id)
  IN SubSeq(more, IF Len(more) > Limit THEN Len(more) - Limit + 1 ELSE 1, Len(more))

\* Mutant: takeRelease keeps the attachment in the table.
TakeReleaseKeeps(s, id) ==
  IF ~Takes(s, id) THEN s
  ELSE [s EXCEPT !.gone = Buried(@, id), !.dead = @ \cup {id}]

TakeRelease(s, id) ==
  IF ~Takes(s, id) THEN s
  ELSE Forget(Forget([s EXCEPT !.exports[id] = None, !.importer[id] = None,
                               !.gone = Buried(@, id), !.dead = @ \cup {id}],
                     s.exports[id], id), s.importer[id], id)

TakeAll(s, order) ==
  LET after[i \in 0 .. Len(order)] == IF i = 0 THEN s ELSE TakeRelease(after[i - 1], order[i])
  IN after[Len(order)]
\* Those of the allocations that are still what is in the tables.
TakeCurrent(s, made) ==
  LET after[i \in 0 .. Len(made)] ==
        IF i = 0 THEN s
        ELSE IF Current(after[i - 1], made[i]) THEN TakeRelease(after[i - 1], made[i].id)
        ELSE after[i - 1]
  IN after[Len(made)]
Orders(ids) == {f \in [1 .. Cardinality(ids) -> ids] : \A i, j \in DOMAIN f : i # j => f[i] # f[j]}

\* Emit fails only when the peer has ended.
Tell(p, ids) ==
  notices' = IF up[p] THEN [notices EXCEPT ![p] = @ \cup ids] ELSE notices

Release(p, id) ==
  /\ p \in setting.releasers
  /\ id \in known[p] \/ (id[1] = p /\ id[2] <= scope[p].minted)
  /\ Takes(scope[p], id)
  /\ scope' = [scope EXCEPT ![p] = TakeRelease(@, id)]
  /\ Tell(p, {id})
  /\ UNCHANGED <<setting, up, buildVars, known, call>>

OnRelease(p, id) ==
  /\ up[p] /\ id \in notices[Other(p)]
  /\ notices' = [notices EXCEPT ![Other(p)] = @ \ {id}]
  /\ scope' = [scope EXCEPT ![p] = TakeRelease(@, id)]
  /\ UNCHANGED <<setting, up, buildVars, known, call>>

OwnerRelease(p, o) ==
  /\ p \in setting.releasers /\ o \in setting.owners[p]
  /\ HandedOut(scope[p], o) /\ o \notin scope[p].released
  /\ LET ids == EndedIds(scope[p], o) IN
       /\ \E order \in Orders(ids) :
            scope' = [scope EXCEPT ![p] = TakeAll(EndOwner(@, o), order)]
       /\ Tell(p, IF scope[p].closed THEN {} ELSE ids)
  /\ UNCHANGED <<setting, up, buildVars, known, call>>

-----------------------------------------------------------------------------
(* Allocating: Export and Import, through an owner or through the view of  *)
(* a batch, which notes what it allocated.                                 *)

\* o is the owner, or a child of the owner, that view v was made for; the view
\* 0 is an owner outside any batch.
Views(p) == 0 .. Len(batch[p])
MayAllocate(p, o, v) ==
  /\ o \in setting.owners[p] /\ HandedOut(scope[p], o)
  /\ v > 0 => batch[p][v].owner \in Line[o]
  /\ ~scope[p].closed /\ ~Ended(scope[p], o)

Allocate(p, v, s, id) ==
  /\ scope' = [scope EXCEPT ![p] = s]
  /\ batch' = IF v = 0 THEN batch
              ELSE [batch EXCEPT ![p][v].allocations = Append(@, Allocation(s, id))]
  /\ UNCHANGED <<setting, up, publishing, unwinding, known, notices, call>>

Export(p, o, v) ==
  /\ MayAllocate(p, o, v)
  /\ Cardinality(Exported(scope[p])) < setting.exports
  /\ scope[p].minted < setting.minted[p]
  /\ LET id == <<p, scope[p].minted + 1>> IN
       Allocate(p, v, Record([scope[p] EXCEPT !.minted = @ + 1, !.exports[id] = o], o, id), id)

\* An attachment that is there already is borrowed, which changes nothing.
Attach(p, o, v, id) ==
  /\ MayAllocate(p, o, v) /\ id \in known[p]
  /\ id \notin Tombstones(scope[p]) \cup Imported(scope[p])
  /\ Cardinality(Imported(scope[p])) < setting.imports
  /\ scope[p].attached[id] < setting.attachments[id[2]]
  /\ Allocate(p, v, Record([scope[p] EXCEPT !.importer[id] = o, !.attached[id] = @ + 1], o, id), id)

-----------------------------------------------------------------------------
(* Values built in a batch: ExportValue, PublishValue and ImportValue.  A  *)
(* side builds one value at a time, nested builds within it.               *)

Building(p) == batch[p] # <<>> /\ unwinding[p] = <<>>

Begin(p, o, v) ==
  /\ p \in setting.builders /\ Len(batch[p]) < setting.nested
  /\ unwinding[p] = <<>> /\ publishing[p] = <<>>
  /\ v = Len(batch[p]) /\ MayAllocate(p, o, v)
  /\ batch' = [batch EXCEPT ![p] = Append(@, [owner |-> o, allocations |-> <<>>])]
  /\ UNCHANGED <<setting, up, scope, publishing, unwinding, known, notices, call>>

\* finish: a nested build joins its parent, the outer one is the owner's from
\* now on and may still be published.
Commit(p) ==
  /\ Building(p)
  /\ LET n == Len(batch[p])
         outer == SubSeq(batch[p], 1, n - 1)
         done == batch[p][n].allocations
     IN IF n > 1
          THEN /\ batch' = [batch EXCEPT ![p] = [outer EXCEPT ![n - 1].allocations = @ \o done]]
               /\ UNCHANGED publishing
          ELSE /\ batch' = [batch EXCEPT ![p] = <<>>]
               /\ publishing' \in {publishing, [publishing EXCEPT ![p] = done]}
  /\ UNCHANGED <<setting, up, scope, unwinding, known, notices, call>>

Fail(p) ==
  /\ Building(p)
  /\ LET n == Len(batch[p]) IN
       /\ unwinding' = [unwinding EXCEPT ![p] = batch[p][n].allocations]
       /\ batch' = [batch EXCEPT ![p] = SubSeq(@, 1, n - 1)]
  /\ UNCHANGED <<setting, up, scope, publishing, known, notices, call>>

\* discard: what is still this batch's is released, imports with a notice.
\* Mutant: discard goes by the id of a binding.
DiscardById(p) ==
  /\ unwinding[p] # <<>>
  /\ LET ids == [i \in DOMAIN unwinding[p] |-> unwinding[p][i].id] IN
       /\ scope' = [scope EXCEPT ![p] = TakeAll(@, ids)]
       /\ Tell(p, {id \in {ids[i] : i \in DOMAIN ids} : id \in Imported(scope[p])})
  /\ unwinding' = [unwinding EXCEPT ![p] = <<>>]
  /\ UNCHANGED <<setting, up, batch, publishing, known, call>>

Discard(p) ==
  /\ unwinding[p] # <<>>
  /\ scope' = [scope EXCEPT ![p] = TakeCurrent(@, unwinding[p])]
  /\ LET mine == {i \in DOMAIN unwinding[p] : Current(scope[p], unwinding[p][i])}
     IN Tell(p, {unwinding[p][i].id : i \in mine} \cap Imported(scope[p]))
  /\ unwinding' = [unwinding EXCEPT ![p] = <<>>]
  /\ UNCHANGED <<setting, up, batch, publishing, known, call>>

\* Mutant: any error of the publication unwinds it, a lost reply among them.
PublishUnwinds(p) ==
  /\ publishing[p] # <<>>
  /\ known' = [known EXCEPT ![Other(p)] =
       @ \cup {publishing[p][i].id : i \in {j \in DOMAIN publishing[p] : publishing[p][j].id[1] = p}}]
  /\ unwinding' = [unwinding EXCEPT ![p] = publishing[p]]
  /\ publishing' = [publishing EXCEPT ![p] = <<>>]
  /\ UNCHANGED <<setting, up, scope, batch, notices, call>>

\* The complete value is published, whatever comes back, or provably was not.
Publish(p) ==
  /\ publishing[p] # <<>>
  /\ \/ /\ up[p]
        /\ known' = [known EXCEPT ![Other(p)] =
             @ \cup {publishing[p][i].id : i \in {j \in DOMAIN publishing[p] : publishing[p][j].id[1] = p}}]
        /\ UNCHANGED unwinding
     \/ /\ unwinding' = [unwinding EXCEPT ![p] = publishing[p]]
        /\ UNCHANGED known
  /\ publishing' = [publishing EXCEPT ![p] = <<>>]
  /\ UNCHANGED <<setting, up, scope, batch, notices, call>>

Pending(p) ==
  LET of(made) == {made[i].id : i \in DOMAIN made}
  IN of(publishing[p]) \cup of(unwinding[p])
       \cup UNION {of(batch[p][v].allocations) : v \in DOMAIN batch[p]}

\* The application sends a reference to what it holds outside any build.
Send(p, id) ==
  /\ up[p] /\ id[1] = p /\ id \in Exported(scope[p]) \ Pending(p)
  /\ id \notin known[Other(p)] /\ setting.attachments[id[2]] > 0
  /\ known' = [known EXCEPT ![Other(p)] = @ \cup {id}]
  /\ UNCHANGED <<setting, up, scope, buildVars, notices, call>>

-----------------------------------------------------------------------------
(* Invocations: at the caller remote or local, at the exporter onInvoke    *)
(* and invokeScoped.                                                       *)

By(c) == call[c].by
At(c) == call[c].id[1]
Idle == [at |-> "idle", by |-> "a", id |-> <<"a", 1>>, served |-> "none", answer |-> "none",
         late |-> FALSE]

\* History: the release of the binding already took effect where it was
\* exported, or is remembered where it is called.
Late(p, id) == id \in Tombstones(scope[p]) \/ id \in scope[id[1]].dead

Invoke(c, p, id, k) ==
  /\ call[c].at = "idle" /\ p = setting.callers[c]
  /\ IF id[1] = p THEN id[2] <= scope[p].minted /\ k = 0
                  ELSE k \in 1 .. scope[p].attached[id]
  /\ LET s == scope[p]
         here == IF id[1] = p THEN s.exports[id] # None
                              ELSE s.importer[id] # None /\ s.attached[id] = k
         passed == ~s.closed /\ here
     IN call' = [call EXCEPT ![c] =
          [at |-> IF passed THEN "waiting" ELSE "returned", by |-> p, id |-> id,
           served |-> IF ~passed THEN "none" ELSE IF id[1] = p THEN "found" ELSE "sent",
           answer |-> IF s.closed THEN "closed" ELSE IF here THEN "none" ELSE "released",
           late |-> Late(p, id)]]
  /\ UNCHANGED <<setting, up, scope, buildVars, known, notices>>

Serve(c, served, answer) ==
  /\ call' = [call EXCEPT ![c].served = served, ![c].answer = answer]
  /\ UNCHANGED <<setting, up, scope, buildVars, known, notices>>

\* The binding of a released export is out of the table, so the case of a
\* released one never applies.
Lookup(c) ==
  /\ call[c].served = "sent" /\ up[At(c)]
  /\ \/ scope[At(c)].closed /\ Serve(c, "done", "closed")
     \/ /\ ~scope[At(c)].closed
        /\ IF scope[At(c)].exports[call[c].id] = None
             THEN Serve(c, "done", "unknown") ELSE Serve(c, "found", "none")

Start(c) ==
  /\ call[c].served = "found"
  /\ IF scope[At(c)].closed THEN Serve(c, "done", "closed") ELSE Serve(c, "running", "none")

BodyReturns(c) == call[c].served = "running" /\ Serve(c, "result", "none")

\* The select of invokeScoped: the body's result, or the end of the context.
Cancelled(c) ==
  \/ scope[At(c)].closed
  \/ call[c].at = "returned"
  \/ By(c) # At(c) /\ ~up[At(c)]
  \/ By(c) = At(c) /\ By(c) \in setting.impatient
\* Mutant: the caller waits for a body that ignores cancellation.
SettleWaits(c) ==
  /\ call[c].served = "result"
  /\ Serve(c, "done", IF scope[At(c)].closed THEN "closed" ELSE "ok")

Settle(c) ==
  /\ call[c].served = "result" \/ (call[c].served = "running" /\ Cancelled(c))
  /\ Serve(c, "done", IF scope[At(c)].closed THEN "closed"
                      ELSE IF call[c].served = "result" THEN "ok" ELSE "failed")

Return(c) ==
  /\ call[c].at = "waiting" /\ call[c].served = "done"
  /\ By(c) # At(c) => up["a"] /\ up["b"]
  /\ call' = [call EXCEPT ![c].at = "returned"]
  /\ UNCHANGED <<setting, up, scope, buildVars, known, notices>>

\* The call of a remote binding ends with its context, the scope or the peer;
\* a local one settles as an exported one does.
GivesUp(c) ==
  /\ call[c].at = "waiting" /\ By(c) # At(c)
  /\ scope[By(c)].closed \/ ~up[By(c)] \/ By(c) \in setting.impatient
  /\ call' = [call EXCEPT ![c].at = "returned"]
  /\ UNCHANGED <<setting, up, scope, buildVars, known, notices>>

-----------------------------------------------------------------------------
(* The end of a scope, by Close or by the watch of its peer.               *)

Root(s) == {o \in Owners : Parent[o] = None /\ o \notin s.released /\ HandedOut(s, o)}

EndScope(p) ==
  /\ ~scope[p].closed
  /\ p \in setting.closers \/ ~up[p]
  /\ LET s == scope[p]
         t == IF Root(s) = {} THEN s ELSE EndOwner(s, CHOOSE o \in Root(s) : TRUE)
     IN scope' = [scope EXCEPT ![p] =
          [t EXCEPT !.closed = TRUE, !.exports = NoTable, !.importer = NoTable]]
  /\ UNCHANGED <<setting, up, buildVars, known, notices, call>>

PeerEnds(p) ==
  /\ up[p] /\ (p \in setting.enders \/ ~up[Other(p)])
  /\ up' = [up EXCEPT ![p] = FALSE]
  /\ UNCHANGED <<setting, scope, buildVars, known, notices, call>>

-----------------------------------------------------------------------------
Init ==
  /\ setting \in Settings
  /\ up = [p \in Sides |-> TRUE] /\ scope = [p \in Sides |-> NewScope]
  /\ batch = [p \in Sides |-> <<>>] /\ publishing = batch /\ unwinding = batch
  /\ known = [p \in Sides |-> {}] /\ notices = known
  /\ call = [c \in Calls |-> Idle]

Releasing(p) == \/ \E id \in Ids : Release(p, id) \/ OnRelease(p, id)
                \/ \E o \in Owners : OwnerRelease(p, o)
Allocating(p) == \E o \in Owners, v \in Views(p) :
  Export(p, o, v) \/ (\E id \in Ids : Attach(p, o, v, id)) \/ Begin(p, o, v)
Converting(p) == Commit(p) \/ Fail(p) \/ Discard(p) \/ Publish(p) \/ \E id \in Ids : Send(p, id)
Invoking(c) ==
  \/ \E p \in Sides, id \in Ids, k \in 0 .. MaxAttached : Invoke(c, p, id, k)
  \/ Lookup(c) \/ Start(c) \/ BodyReturns(c) \/ Settle(c) \/ Return(c) \/ GivesUp(c)

Next ==
  \/ \E p \in Sides : Releasing(p) \/ Allocating(p) \/ Converting(p) \/ EndScope(p) \/ PeerEnds(p)
  \/ \E c \in Calls : Invoking(c)

Spec == Init /\ [][Next]_vars

\* Handlers and the goroutines of calls run, and the end of a peer reaches the
\* other and its scope.  A body need not return.
Fairness ==
  /\ \A c \in Calls :
       /\ WF_call(Lookup(c) \/ Start(c) \/ Settle(c))
       /\ WF_call(Return(c) \/ ((scope[By(c)].closed \/ ~up[By(c)]) /\ GivesUp(c)))
  /\ \A p \in Sides :
       WF_<<up, scope>>((~up[Other(p)] /\ PeerEnds(p)) \/ (~up[p] /\ EndScope(p)))

FairSpec == Spec /\ Fairness

-----------------------------------------------------------------------------
(* Properties.                                                             *)

TypeOK ==
  /\ setting \in Settings /\ up \in [Sides -> BOOLEAN]
  /\ \A p \in Sides :
       /\ scope[p].closed \in BOOLEAN /\ scope[p].minted \in 0 .. setting.minted[p]
       /\ scope[p].exports \in [Ids -> Owners \cup {None}]
       /\ scope[p].importer \in [Ids -> Owners \cup {None}]
       /\ scope[p].attached \in [Ids -> 0 .. MaxAttached]
       /\ scope[p].owned \in [Owners -> SUBSET Ids]
       /\ scope[p].linked \subseteq Owners /\ scope[p].released \subseteq Owners
       /\ Tombstones(scope[p]) \subseteq scope[p].dead /\ scope[p].dead \subseteq Ids
       /\ Len(scope[p].gone) <= Limit /\ Cardinality(Tombstones(scope[p])) = Len(scope[p].gone)
       /\ Len(batch[p]) <= setting.nested
       /\ known[p] \subseteq Ids /\ notices[p] \subseteq Ids
  /\ \A c \in Calls :
       /\ call[c].at \in {"idle", "waiting", "returned"}
       /\ call[c].served \in {"none", "sent", "found", "running", "result", "done"}
       /\ call[c].answer \in {"none", "ok", "closed", "released", "unknown", "failed"}

\* Whatever order owners, bindings and batches end in, each entry of a scope's
\* tables belongs to one owner that lives, so do its ancestors, and each of
\* them finds it through its children when it is released; and no parent keeps
\* a child that holds nothing.
HeldByALivingOwner == \A p \in Sides : LET s == scope[p] IN ~s.closed =>
  /\ \A id \in Exported(s) \cup Imported(s) :
       \E o \in Owners :
         /\ {d \in Owners : id \in s.owned[d]} = {o} /\ {s.exports[id], s.importer[id]} = {o, None}
         /\ ~Ended(s, o) /\ \A a \in Line[o] : Parent[a] = None \/ a \in s.linked
  /\ \A o \in Owners : s.owned[o] \subseteq Exported(s) \cup Imported(s)
  /\ \A a \in s.linked : \E o \in Owners : a \in Line[o] /\ s.owned[o] # {}

\* No attachment dangles untold: while both scopes are open, a binding its
\* exporter no longer has was released with a notice, which is still on its way
\* if the attachment is there; only a failed build whose value was never sent
\* is discarded in silence.  A binding released at the importer too, and
\* attached again once its tombstone was dropped, is told nothing more.
AliasesLearn == \A p \in Sides : \A id \in Imported(scope[p]) \ scope[p].dead :
  LET q == Other(p) IN
  ~scope[p].closed /\ ~scope[q].closed /\ up[p] /\ up[q]
    => id \in Exported(scope[q]) \cup notices[q]

\* Release is a barrier: a call begun after the release took effect where the
\* binding was exported, or while it is remembered where it is called, reaches
\* no body, through whichever alias.
BarrierHolds == \A c \in Calls : call[c].late => call[c].served \notin {"running", "result"}

\* A failed build revokes what it allocated and nothing else: a binding that
\* was released meanwhile and attached again is another allocation.
UnwindsItsOwn == [][\A p \in Sides : unwinding[p] # <<>> /\ unwinding'[p] = <<>> =>
  \A id \in Ids :
    \/ Current(scope'[p], Allocation(scope[p], id)) \/ ~Current(scope[p], Allocation(scope[p], id))
    \/ \E i \in DOMAIN unwinding[p] : unwinding[p][i] = Allocation(scope[p], id)]_vars

\* The end of either scope settles the calls it made and the calls it serves,
\* even those whose bodies never return.
CloseSettles == \A c \in Calls :
  (call[c].at = "waiting" /\ (scope[By(c)].closed \/ scope[At(c)].closed))
    ~> (call[c].at = "returned")
=============================================================================
