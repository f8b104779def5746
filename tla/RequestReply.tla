---------------------------- MODULE RequestReply ----------------------------
(***************************************************************************)
(* What a peer promises to whoever calls through it, without queues,       *)
(* loops or timers: a call runs the far side's handler at most once, a     *)
(* result is reported only after that handler returned, and a call that    *)
(* returns with the proof that it was never published never runs there at  *)
(* all, not even later.                                                    *)
(***************************************************************************)
CONSTANT Calls          \* the calls, each named once and for all

VARIABLES
  outcome,   \* per call: "none", "open", or how it returned
  run        \* per call: the far handler, "none", "running" or "returned"

Refusals == {"error", "cancelled", "busy", "method_not_found", "expired", "ended"}

Init == outcome = [c \in Calls |-> "none"] /\ run = [c \in Calls |-> "none"]

Begin(c) ==
  /\ outcome[c] = "none"
  /\ outcome' = [outcome EXCEPT ![c] = "open"]
  /\ UNCHANGED run

\* Refused at once, or withdrawn before it was published.
NeverPublished(c) ==
  /\ outcome[c] \in {"none", "open"} /\ run[c] = "none"
  /\ outcome' = [outcome EXCEPT ![c] = "unpublished"]
  /\ UNCHANGED run

\* The far handler may start after the caller stopped waiting.
Start(c) ==
  /\ outcome[c] \notin {"none", "unpublished"} /\ run[c] = "none"
  /\ run' = [run EXCEPT ![c] = "running"]
  /\ UNCHANGED outcome

Return(c) ==
  /\ run[c] = "running"
  /\ run' = [run EXCEPT ![c] = "returned"]
  /\ UNCHANGED outcome

Succeed(c) ==
  /\ outcome[c] = "open" /\ run[c] = "returned"
  /\ outcome' = [outcome EXCEPT ![c] = "result"]
  /\ UNCHANGED run

Fail(c) ==
  /\ outcome[c] = "open"
  /\ \E r \in Refusals : outcome' = [outcome EXCEPT ![c] = r]
  /\ UNCHANGED run

Next == \E c \in Calls :
  Begin(c) \/ NeverPublished(c) \/ Start(c) \/ Return(c) \/ Succeed(c) \/ Fail(c)

Spec == Init /\ [][Next]_<<outcome, run>>
=============================================================================
