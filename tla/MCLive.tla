------------------------------- MODULE MCLive -------------------------------
\* Instances of Live for TLC.  Owner 2 is a child of root 1, 3 a child of 2,
\* and 4 the root that follows 1.
EXTENDS Live

Family == <<0, 1, 2, 0>>
Lines == <<{1}, {1, 2}, {1, 2, 3}, {4}>>

Each(a, b) == [p \in Sides |-> IF p = "a" THEN a ELSE b]
Nobody == [c \in Calls |-> "none"]

\* One side exports and the other imports, nothing fails and nobody calls: what
\* the others differ from.
Calm == [exports |-> 1, imports |-> 1, minted |-> Each(1, 0), attachments |-> <<1, 1, 1>>,
         owners |-> Each({1}, {1}), releasers |-> {"a", "b"}, builders |-> {}, nested |-> 1,
         callers |-> Nobody, closers |-> {}, enders |-> {}, impatient |-> {}]

\* Nested builds under a family of owners that end meanwhile.
Families == [Calm EXCEPT !.exports = 2, !.minted = Each(2, 0),
                         !.owners = Each({1, 2, 3}, {}), !.releasers = {"a"},
                         !.builders = {"a"}, !.nested = 2]

\* The scope's root is released and another takes its place.
Roots == [Families EXCEPT !.owners = Each({1, 2, 4}, {}), !.builders = {}]

\* Builds of either side over tables so small that tombstones are forgotten.
Forgetting == [Calm EXCEPT !.minted = Each(3, 0), !.attachments = <<2, 0, 0>>, !.releasers = {"a"}, !.builders = {"b"}]
Publishing == [Calm EXCEPT !.exports = 2, !.minted = Each(2, 0), !.builders = {"a"}]

\* A remote and a local call while scopes and peers end.
Calling == [Calm EXCEPT !.closers = {"a", "b"}, !.enders = {"a"}, !.impatient = {"a", "b"},
                        !.callers = [c \in Calls |-> IF c = 1 THEN "b" ELSE "a"]]

Mixed == {Families, Roots, Forgetting, Publishing, Calling}
=============================================================================
