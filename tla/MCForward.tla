----------------------------- MODULE MCForward ------------------------------
\* Instances of Forward for TLC: calls 1 and 2 use the same return identity.
EXTENDS Forward

Reused == [c \in Calls |-> IF c <= 2 THEN 11 ELSE 9 + c]

To(p, w) == [x \in Carriers |-> IF x = "pair" THEN p ELSE w]

\* Requests to the pair, whose handlers may ignore their deadlines: more than
\* it has slots for, and two under one identity.
Served == [to |-> To({1, 3, 4}, {}), receiver |-> "app", emits |-> {}, ends |-> {}, detaches |-> FALSE,
           passes |-> {}]
Renewed == [Served EXCEPT !.to = To({1, 2, 3}, {})]

\* Requests among events, while the receiver comes and goes and the pair ends.
Unsettled == [Served EXCEPT !.to = To({1, 3}, {}), !.emits = {"pair"}, !.ends = {"pair"}, !.detaches = TRUE]

\* Three requests and events to the peer, which ends.
Direct == [Served EXCEPT !.to = To({}, {1, 2, 3}), !.emits = {"wire"}, !.ends = {"wire"}]

\* Two requests forwarded, and the peer ends.
Joined == [Served EXCEPT !.to = To({1, 3}, {}), !.receiver = "forward", !.ends = {"wire"}]

\* One forwarded and one direct, and both carriers end.
Crowded == [Joined EXCEPT !.to = To({1}, {3}), !.ends = Carriers]

\* One forwarded among events, which may overflow either queue.
Flooded == [Joined EXCEPT !.to = To({1}, {}), !.emits = {"pair"}, !.ends = {}]

\* One passed by the peer while the pair has requests of its own, and it ends.
Passed == [Served EXCEPT !.to = To({3, 4}, {}), !.passes = {1}, !.ends = {"pair"}]

Mixed == {Served, Renewed, Unsettled, Direct, Joined, Crowded, Flooded, Passed}
=============================================================================
