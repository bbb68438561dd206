--------------------------- MODULE MCServerProcess ---------------------------
\* Three pids; the ports of a list come and go or change their names.
EXTENDS ServerProcess, TLC

Port(d, e) == [device |-> d, device2 |-> e]
Edited == {<<>>, <<Port("a", "x"), Port("", "z"), Port("a", "y")>>,
           <<Port("b", "y"), Port("a", "x")>>,
           <<Port("c", "x")>>}
=============================================================================
