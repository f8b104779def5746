------------------------------ MODULE MCTunnel ------------------------------
\* Instances of Tunnel for TLC: the settings the configurations choose from.
EXTENDS Tunnel

End(p, c) == {<<p, c>>}
Both(c) == End("client", c) \cup End("server", c)

\* One channel, nothing that ends or fails: what the others differ from.
Calm == [window |-> 2, frames |-> 3, opened |-> {1}, mismatched |-> {},
         senders |-> End("client", 1), idle |-> {}, closers |-> {},
         impatient |-> {}, stalling |-> {}, greedy |-> {}, unfit |-> {}, outerEnds |-> {}]

\* Sends are abandoned, credit and closes are lost to a full queue, an open is
\* refused, and one side ignores credit.
Lossy == [Calm EXCEPT !.window = 1, !.opened = {1, 2}, !.mismatched = {2},
                      !.senders = Both(1), !.closers = End("server", 1),
                      !.impatient = {"client"}, !.stalling = {"server"}, !.greedy = {"client"}]

\* Two channels of one outer connection, the consumer of one never receiving.
Isolated == [Calm EXCEPT !.window = 4, !.frames = 6, !.opened = {1, 3},
                         !.senders = End("client", 1) \cup End("client", 3),
                         !.idle = End("server", 3)]

\* A channel that either end closes, that is sent an unfit frame, and whose
\* outer peer may end.
Ending == [Calm EXCEPT !.window = 1, !.frames = 2, !.closers = Both(1),
                       !.unfit = End("client", 1), !.outerEnds = {"client"}]

Mixed == {Lossy, Isolated, Ending}
Reliable == {[Isolated EXCEPT !.window = 2, !.frames = 3], Ending}
LostCredit == {[Calm EXCEPT !.impatient = {"client"}]}
LateOpen == {[Calm EXCEPT !.senders = {}, !.outerEnds = {"server"}]}
=============================================================================
