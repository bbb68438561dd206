--------------------------- MODULE ConnectionPool ---------------------------
(***************************************************************************)
(* What the TCP server promises about its sessions: a bounded pool that    *)
(* only an up server admits to, and that going down cuts off as a whole.   *)
(* A session that was cut off stays in the pool until its handler leaves.  *)
(***************************************************************************)
EXTENDS Naturals, FiniteSets

CONSTANTS Sockets, MaxClients

VARIABLES up,    \* clients are admitted
          pool,  \* sessions that count against the limit
          live   \* those whose connection is still open

vars == <<up, pool, live>>

Init == up = FALSE /\ pool = {} /\ live = {}

Up == ~up /\ up' = TRUE /\ UNCHANGED <<pool, live>>

Down == up /\ up' = FALSE /\ live' = {} /\ UNCHANGED pool

Admit(s) ==
  /\ up /\ s \notin pool /\ Cardinality(pool) < MaxClients
  /\ pool' = pool \cup {s} /\ live' = live \cup {s}
  /\ UNCHANGED up

\* The connection of a session that leaves by itself is closed right after.
Leave(s) ==
  /\ s \in pool
  /\ pool' = pool \ {s} /\ live' = live \ {s}
  /\ UNCHANGED up

Next == Up \/ Down \/ \E s \in Sockets : Admit(s) \/ Leave(s)

Spec == Init /\ [][Next]_vars /\ \A s \in Sockets : WF_vars(s \notin live /\ Leave(s))
=============================================================================
