---------------------------- MODULE MCSSHManager ----------------------------
(***************************************************************************)
(* Small instances of SSHManager.                                          *)
(***************************************************************************)
EXTENDS SSHManager, TLC

\* ssh_connect without options, and with auto_reconnect and forward_agent.
PlainAndAuto == {[keepalive |-> FALSE, auto |-> FALSE, agent |-> FALSE],
                 [keepalive |-> TRUE, auto |-> TRUE, agent |-> TRUE]}

\* The two keepalives: one that reconnects, one that only reports.
Keepalives == {[keepalive |-> TRUE, auto |-> TRUE, agent |-> FALSE],
               [keepalive |-> TRUE, auto |-> FALSE, agent |-> FALSE]}

\* Handlers, sessions, transports and ids are interchangeable in the safety
\* runs; the liveness run uses no symmetry.
Symmetry == Permutations(Handlers) \cup Permutations(Sessions)
              \cup Permutations(Clients) \cup Permutations(Ids)
=============================================================================
