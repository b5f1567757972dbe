--------------------------- MODULE RequestBridge ---------------------------
(***************************************************************************)
(* What the launcher promises the MCP client whose stdin it bridges to the *)
(* daemon: a request is handed to the daemon at most once, and it is lost  *)
(* only after a connection broke or the launcher was told to stop.  A lost *)
(* request is never delivered later.                                       *)
(***************************************************************************)
EXTENDS Sequences

CONSTANT Requests

VARIABLES
  status,   \* "unsent", "pending", "delivered" or "lost"
  log,      \* the requests the daemon was handed, in order
  broken    \* a connection to the daemon failed, or the launcher is stopping

vars == <<status, log, broken>>

Init == status = [q \in Requests |-> "unsent"] /\ log = <<>> /\ broken = FALSE

Move(Q, from, to) ==
  /\ \A q \in Q : status[q] = from
  /\ status' = [q \in Requests |-> IF q \in Q THEN to ELSE status[q]]

Submit(q) == Move({q}, "unsent", "pending") /\ UNCHANGED <<log, broken>>

\* The daemon has the request; its acknowledgement may be what breaks.
Deliver(q) ==
  /\ Move({q}, "pending", "delivered")
  /\ log' = Append(log, q)
  /\ broken' \in {broken, TRUE}

\* Breaking, or later, any of the pending requests may be lost.
Lose(Q) == broken' = TRUE /\ Move(Q, "pending", "lost") /\ UNCHANGED log

Next ==
  \/ \E q \in Requests : Submit(q) \/ Deliver(q)
  \/ \E Q \in SUBSET Requests : Lose(Q)

Spec == Init /\ [][Next]_vars
=============================================================================
