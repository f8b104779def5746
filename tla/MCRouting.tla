------------------------------ MODULE MCRouting ------------------------------
\* Instances of Routing for TLC.
EXTENDS Routing, TLC

CONSTANTS r1, r2, T, M, D, V, W, E, PV, PW

Kinds == r1 :> "root" @@ r2 :> "root" @@ T :> "through" @@ M :> "mount" @@ D :> "dispatcher"
           @@ V :> "view" @@ W :> "view" @@ PV :> "prefix" @@ PW :> "prefix" @@ E :> "exact"

\* The routes of two views, one below the other, and an exact one.
Paths == PV :> <<>> @@ PW :> <<"x">> @@ E :> <<"x">>

Nothing == [e \in Endpoints |-> <<>>]
Nowhere == [n \in Apps |-> "nowhere"]

\* Participants of an invocation in any order, and no endpoints: what the
\* others differ from.
Participants == [below |-> Nothing, at |-> Nowhere, closers |-> {}, owns |-> FALSE, selected |-> Routes,
                 request |-> "none", from |-> r1, path |-> <<"x">>]

\* Two applications after one another at an endpoint over one origin.
Lent == [Participants EXCEPT !.below = [Nothing EXCEPT ![T] = <<r1>>], !.request = "sent",
                             !.at = [n \in Apps |-> IF n < 3 THEN T ELSE "nowhere"],
                             !.closers = {T, r1}]

\* A mount over an endpoint and a carrier, each of which may end.
Mounted == [Lent EXCEPT !.below[M] = <<T, r2>>, !.at[1] = M,
                        !.closers = {M, T, r2}, !.request = "refused"]

\* Views and an exact route that come and go while a request arrives.
Routed == [Participants EXCEPT !.below = [Nothing EXCEPT ![D] = <<r1>>, ![V] = <<PV>>, ![W] = <<PW>>],
                               !.selected = Routes \cup {V, W}, !.request = "sent", !.at = <<V, W, E>>]

\* A dispatcher that ends while a view attaches, with what is below it.
Ending == [Routed EXCEPT !.at = <<V, V, "nowhere">>, !.closers = {V, D}, !.owns = TRUE,
                        !.request = "refused"]

\* A dispatcher over a mount.
Stacked == [Routed EXCEPT !.below[D] = <<M>>, !.below[M] = <<r1, r2>>,
                          !.at = <<V, "nowhere", "nowhere">>, !.closers = {M, r1}]

\* A mount over an endpoint over one view and over another view, all of which
\* may be lent to others and end.
Above == [Ending EXCEPT !.below[T] = <<V>>, !.below[M] = <<T, W>>, !.at = <<M, T, "nowhere">>,
                        !.selected = Routes \cup {V, W, T, M}, !.closers = {V, D}]

Mixed == {Participants, Lent, Mounted, Routed, Ending, Stacked, Above}
=============================================================================
