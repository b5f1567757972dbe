----------------------------- MODULE SSHManager -----------------------------
(***************************************************************************)
(* The SSH session manager of the daemon: internal/sshx/manager.go and     *)
(* session.go, with the lazily opened SFTP client of sftp.go.              *)
(*                                                                         *)
(* Every tool call runs in a goroutine of its own (a Handler); every       *)
(* session with a keepalive has one more goroutine, identified here with   *)
(* the session itself; Main is the goroutine that runs CloseAll when the   *)
(* daemon shuts down.  A step is one critical section of the code, or one  *)
(* network call together with the local computation that follows it.       *)
(*                                                                         *)
(* Abstracted: a client stands for an *ssh.Client with its jump chain;     *)
(* activeAddr, connectedAt and lastError are display data.  What close()   *)
(* does to shells is in ShellRegistry.                                     *)
(***************************************************************************)

CONSTANTS
  Ids,            \* session ids that clients use
  Sessions,       \* Session objects, one fresh one per ssh_connect
  Clients,        \* transports, one fresh one per successful dialFinal
  Handlers,       \* tool calls that can be running at the same time
  Main,           \* the daemon's main goroutine
  Specs,          \* the ConnectSpecs in use, [keepalive, auto, agent]
  EarlyReconnect, \* may ssh_reconnect name a session still in ssh_connect?
  EarlyReuse,     \* may ssh_connect reuse an id still in another ssh_connect?
  None

Actors == Handlers \cup {Main} \cup Sessions

ASSUME ConstantsAssumption ==
  /\ Specs \subseteq [keepalive : BOOLEAN, auto : BOOLEAN, agent : BOOLEAN]
  /\ Specs # {}
  /\ EarlyReconnect \in BOOLEAN
  /\ EarlyReuse \in BOOLEAN
  /\ Main \notin Handlers \cup Sessions
  /\ Handlers \cap Sessions = {}
  /\ None \notin Ids \cup Clients \cup Actors

VARIABLES
  sessions,  \* Manager.sessions: id -> Session object
  mmu,       \* holder of Manager.mu where it is held over several steps
  spec,      \* Session.Spec
  client,    \* Session.client
  sftp,      \* Session.sftp: the transport the SFTP client rides on
  agent,     \* agentForwardOn and agentForwardConn: off, on, or stale
             \* (the flag is set and the connection is closed)
  state,     \* Session.state
  closed,    \* Session.closed
  ctx,       \* the keepalive context: none, live or cancelled
  rmu,       \* holder of Session.reconnectMu
  smu,       \* holder of Session.sftpMu while an SFTP client is built
  net,       \* the transports: closed by us, open, hung or dropped
  pc,        \* where each goroutine is
  hid, hs, hc  \* its local variables: the id, the session, the client

sessionVars == <<spec, client, sftp, agent, state, closed, ctx, rmu, smu>>
vars == <<sessions, mmu, sessionVars, net, pc, hid, hs, hc>>

(***************************************************************************)
(* Program points.  A handler's name its tool call's next step; "tick",    *)
(* "request" and "loop" belong to runKeepalive and attemptReconnect.       *)
(***************************************************************************)
ConnectPoints == {"dial", "install", "cleanup", "agent", "agentfwd",
                  "agenterr", "startka"}
ClosePoints == {"cas", "cancel", "drain", "detach", "markdis"}
ReconnectPoints == {"rclear", "rmark", "rdial", "rinstall", "rebind"}
HandlerPoints == {"idle", "rlock", "sftplock", "sftpnew"} \cup ConnectPoints
                   \cup ClosePoints \cup ReconnectPoints
MainPoints == {"serving", "closeall", "exited"} \cup ClosePoints
KeepalivePoints == {"off", "tick", "request", "loop"} \cup ReconnectPoints

(***************************************************************************)
(* A transport is fresh when it is closed and no variable refers to it;    *)
(* likewise a Session object.  The sets are bounds on what is alive at the *)
(* same time, not on how many connects there are.                          *)
(***************************************************************************)
FreshClient(c) ==
  /\ net[c] = "closed"
  /\ \A s \in Sessions : client[s] # c /\ sftp[s] # c
  /\ \A a \in Actors : hc[a] # c

FreshSession(s) ==
  /\ \A id \in Ids : sessions[id] # s
  /\ \A a \in Handlers \cup {Main} : hs[a] # s
  /\ pc[s] = "off" /\ client[s] = None

Init ==
  /\ sessions = [id \in Ids |-> None]
  /\ mmu = None
  /\ spec \in [Sessions -> {CHOOSE sp \in Specs : TRUE}]
  /\ client = [s \in Sessions |-> None]
  /\ sftp = [s \in Sessions |-> None]
  /\ agent = [s \in Sessions |-> "off"]
  /\ state = [s \in Sessions |-> "disconnected"]
  /\ closed = [s \in Sessions |-> TRUE]
  /\ ctx = [s \in Sessions |-> "none"]
  /\ rmu = [s \in Sessions |-> None]
  /\ smu = [s \in Sessions |-> None]
  /\ net = [c \in Clients |-> "closed"]
  /\ pc = [a \in Actors |-> IF a \in Sessions THEN "off"
                            ELSE IF a = Main THEN "serving" ELSE "idle"]
  /\ hid = [a \in Actors |-> None]
  /\ hs = [a \in Actors |-> IF a \in Sessions THEN a ELSE None]
  /\ hc = [a \in Actors |-> None]

\* A goroutine takes a step only while the process runs.
Running == pc[Main] # "exited"

At(a, point) == Running /\ pc[a] = point

Goto(a, point) == pc' = [pc EXCEPT ![a] = point]

\* Mutant: a keepalive that has reconnected ends like a tool call does.
MutReturn(a) ==
  /\ pc' = [pc EXCEPT ![a] = "idle"]
  /\ hid' = [hid EXCEPT ![a] = None]
  /\ hs' = [hs EXCEPT ![a] = None]
  /\ hc' = [hc EXCEPT ![a] = None]

\* The call a is in returns: its local variables are gone.
Return(a) ==
  /\ pc' = [pc EXCEPT ![a] = IF a \in Sessions THEN "tick" ELSE "idle"]
  /\ hid' = [hid EXCEPT ![a] = None]
  /\ hs' = [hs EXCEPT ![a] = IF a \in Sessions THEN a ELSE None]
  /\ hc' = [hc EXCEPT ![a] = None]

CloseTransport(c) == net' = [d \in Clients |-> IF d = c THEN "closed" ELSE net[d]]

-----------------------------------------------------------------------------
(* dialFinal: the network call, at "dial" in Connect and at "rdial" in a   *)
(* reconnect.  A failed dial leaves nothing behind.                        *)

DialOk(a) ==
  /\ At(a, "dial") \/ At(a, "rdial")
  /\ \E c \in Clients :
       /\ FreshClient(c)
       /\ net' = [net EXCEPT ![c] = "open"]
       /\ hc' = [hc EXCEPT ![a] = c]
  /\ Goto(a, IF pc[a] = "dial" THEN "install" ELSE "rinstall")
  /\ UNCHANGED <<sessions, mmu, sessionVars, hid, hs>>

\* Mutant: setClient returns false and forgets to close the dialed client.
MutSetClientRefused(a) == closed[hs[a]] /\ UNCHANGED <<client, state, net>>

\* setClient when the session was closed meanwhile: the dialed client is
\* closed, not installed.
SetClientRefused(a) ==
  /\ closed[hs[a]]
  /\ CloseTransport(hc[a])
  /\ UNCHANGED <<client, state>>

\* Mutant: setClient without the closed check under s.mu.
MutSetClientUnchecked(a) ==
  /\ client' = [client EXCEPT ![hs[a]] = hc[a]]
  /\ state' = [state EXCEPT ![hs[a]] = "connected"]
  /\ UNCHANGED net

\* Mutant: setClient leaves the state as markState(StateReconnecting) put it.
MutSetClientUnmarked(a) ==
  /\ ~closed[hs[a]]
  /\ client' = [client EXCEPT ![hs[a]] = hc[a]]
  /\ UNCHANGED <<state, net>>

\* setClient: whatever client the session had is overwritten.
SetClientInstalled(a) ==
  /\ ~closed[hs[a]]
  /\ client' = [client EXCEPT ![hs[a]] = hc[a]]
  /\ state' = [state EXCEPT ![hs[a]] = "connected"]
  /\ UNCHANGED net

-----------------------------------------------------------------------------
(* Manager.Connect and Manager.CloneSession                                *)

ConnectBegin(h, id, sp) ==
  /\ At(h, "idle")
  /\ mmu = None
  /\ sessions[id] = None
  /\ EarlyReuse \/ \A g \in Handlers : ~(hid[g] = id /\ pc[g] \in ConnectPoints)
  /\ \E s \in Sessions :
       /\ FreshSession(s)
       /\ sessions' = [sessions EXCEPT ![id] = s]
       /\ hs' = [hs EXCEPT ![h] = s]
       /\ spec' = [spec EXCEPT ![s] = sp]
       /\ state' = [state EXCEPT ![s] = "connecting"]
       /\ closed' = [closed EXCEPT ![s] = FALSE]
       /\ ctx' = [ctx EXCEPT ![s] = "none"]
       /\ agent' = [agent EXCEPT ![s] = "off"]
       /\ sftp' = [sftp EXCEPT ![s] = None]
  /\ hid' = [hid EXCEPT ![h] = id]
  /\ Goto(h, "dial")
  /\ UNCHANGED <<mmu, client, rmu, smu, net, hc>>

\* CloneSession: Connect under a new id with the source's Spec.
CloneBegin(h, src, id) ==
  /\ sessions[src] # None
  /\ ConnectBegin(h, id, spec[sessions[src]])

\* The dial failed: the map entry of this id is deleted, whatever it is.
ConnectDialFail(h) ==
  /\ At(h, "dial")
  /\ mmu = None
  /\ sessions' = [sessions EXCEPT ![hid[h]] = None]
  /\ Return(h)
  /\ UNCHANGED <<mmu, sessionVars, net>>

ConnectInstalled(h) ==
  /\ At(h, "install")
  /\ SetClientInstalled(h)
  /\ Goto(h, IF spec[hs[h]].agent THEN "agent" ELSE "startka")
  /\ hc' = [hc EXCEPT ![h] = None]
  /\ UNCHANGED <<sessions, mmu, spec, sftp, agent, closed, ctx, rmu, smu, hid, hs>>

ConnectRefused(h) ==
  /\ At(h, "install")
  /\ SetClientRefused(h)
  /\ Goto(h, "cleanup")
  /\ hc' = [hc EXCEPT ![h] = None]
  /\ UNCHANGED <<sessions, mmu, spec, sftp, agent, closed, ctx, rmu, smu, hid, hs>>

\* "session was disconnected during connect": the entry goes if it is ours.
ConnectCleanup(h) ==
  /\ At(h, "cleanup")
  /\ mmu = None
  /\ sessions' = [sessions EXCEPT ![hid[h]] = IF @ = hs[h] THEN None ELSE @]
  /\ Return(h)
  /\ UNCHANGED <<mmu, sessionVars, net>>

\* enableAgentForwarding: there is no agent socket, or nobody listens on it.
AgentUnavailable(h) ==
  /\ At(h, "agent")
  /\ Goto(h, "agenterr")
  /\ UNCHANGED <<sessions, mmu, sessionVars, net, hid, hs, hc>>

\* Up to its first unlock: the connection to the agent is stored, and closed
\* again, but not taken back, if there is no client now.
EnableAgentForwarding(h) ==
  /\ At(h, "agent")
  /\ agent' = [agent EXCEPT ![hs[h]] = IF client[hs[h]] = None THEN "stale" ELSE "on"]
  /\ Goto(h, IF client[hs[h]] = None THEN "agenterr" ELSE "agentfwd")
  /\ UNCHANGED <<sessions, mmu, spec, client, sftp, state, closed, ctx, rmu, smu,
                 net, hid, hs, hc>>

\* The rest of it: agent.ForwardToAgent on the client read above.
ForwardToAgent(h) ==
  /\ At(h, "agentfwd")
  /\ Goto(h, "startka")
  /\ UNCHANGED <<sessions, mmu, sessionVars, net, hid, hs, hc>>

ForwardToAgentFails(h) ==
  /\ At(h, "agentfwd")
  /\ agent' = [agent EXCEPT ![hs[h]] = "off"]
  /\ Goto(h, "agenterr")
  /\ UNCHANGED <<sessions, mmu, spec, client, sftp, state, closed, ctx, rmu, smu,
                 net, hid, hs, hc>>

\* Connect records the failure with markState(StateConnected, err).
MarkAgentError(h) ==
  /\ At(h, "agenterr")
  /\ state' = [state EXCEPT ![hs[h]] = "connected"]
  /\ Goto(h, "startka")
  /\ UNCHANGED <<sessions, mmu, spec, client, sftp, agent, closed, ctx, rmu, smu,
                 net, hid, hs, hc>>

StartsKeepalive(s) == (spec[s].keepalive \/ spec[s].auto) /\ ~closed[s]

\* startKeepalive, which looks at closed under s.mu, and the return of Connect.
StartKeepalive(h) ==
  /\ At(h, "startka")
  /\ StartsKeepalive(hs[h])
  /\ ctx' = [ctx EXCEPT ![hs[h]] = "live"]
  /\ pc' = [pc EXCEPT ![h] = "idle", ![hs[h]] = "tick"]
  /\ hid' = [hid EXCEPT ![h] = None]
  /\ hs' = [hs EXCEPT ![h] = None]
  /\ UNCHANGED <<sessions, mmu, spec, client, sftp, agent, state, closed, rmu, smu,
                 net, hc>>

NoKeepalive(h) ==
  /\ At(h, "startka")
  /\ ~StartsKeepalive(hs[h])
  /\ Return(h)
  /\ UNCHANGED <<sessions, mmu, sessionVars, net>>

-----------------------------------------------------------------------------
(* Session.close, at "cas" in a Disconnect or in CloseAll, and the          *)
(* clearClient that it shares with the reconnects.                          *)

\* Mutant: clearClient without sftpMu.
MutClearClient(s) ==
  /\ client' = [client EXCEPT ![s] = None]
  /\ sftp' = [sftp EXCEPT ![s] = None]
  /\ agent' = [agent EXCEPT ![s] = "off"]
  /\ CloseTransport(client[s])

\* clearClient: both locks are free, so no SFTP client is being built; the
\* detached client, with its SFTP and agent connections, is closed.  That
\* happens after the unlock, when only this goroutine can still reach them.
ClearClient(s) ==
  /\ smu[s] = None
  /\ client' = [client EXCEPT ![s] = None]
  /\ sftp' = [sftp EXCEPT ![s] = None]
  /\ agent' = [agent EXCEPT ![s] = "off"]
  /\ CloseTransport(client[s])

\* Mutant: Disconnect forgets s.close().
MutDisconnect(h, id) ==
  /\ At(h, "idle")
  /\ mmu = None
  /\ sessions[id] # None
  /\ sessions' = [sessions EXCEPT ![id] = None]
  /\ UNCHANGED <<mmu, sessionVars, net, pc, hid, hs, hc>>

Disconnect(h, id) ==
  /\ At(h, "idle")
  /\ mmu = None
  /\ sessions[id] # None
  /\ sessions' = [sessions EXCEPT ![id] = None]
  /\ hs' = [hs EXCEPT ![h] = sessions[id]]
  /\ hid' = [hid EXCEPT ![h] = id]
  /\ Goto(h, "cas")
  /\ UNCHANGED <<mmu, sessionVars, net, hc>>

\* The end of close(): Disconnect returns, CloseAll deletes the map entry
\* and goes on with the next session.
CloseReturn(a) ==
  /\ sessions' = IF a = Main THEN [sessions EXCEPT ![hid[a]] = None] ELSE sessions
  /\ Goto(a, IF a = Main THEN "closeall" ELSE "idle")
  /\ hid' = [hid EXCEPT ![a] = None]
  /\ hs' = [hs EXCEPT ![a] = None]
  /\ UNCHANGED hc

CloseWon(a) ==
  /\ At(a, "cas")
  /\ ~closed[hs[a]]
  /\ closed' = [closed EXCEPT ![hs[a]] = TRUE]
  /\ Goto(a, "cancel")
  /\ UNCHANGED <<sessions, mmu, spec, client, sftp, agent, state, ctx, rmu, smu,
                 net, hid, hs, hc>>

\* Somebody else has closed the session.  Disconnect and CloseAll take a
\* session out of the map before a second close() could find it, so this is
\* not reached.
CloseLost(a) ==
  /\ At(a, "cas")
  /\ closed[hs[a]]
  /\ CloseReturn(a)
  /\ UNCHANGED <<mmu, sessionVars, net>>

\* The CompareAndSwap on closed.
CloseCas(a) ==
  /\ At(a, "cas")
  /\ IF closed[hs[a]] THEN CloseLost(a) ELSE CloseWon(a)

\* Mutant: close() forgets keepaliveCancel.
MutCloseCancel(a) ==
  /\ At(a, "cancel")
  /\ Goto(a, "drain")
  /\ UNCHANGED <<sessions, mmu, sessionVars, net, hid, hs, hc>>

\* keepaliveCancel is taken under s.mu and called if it was set.
CloseCancel(a) ==
  /\ At(a, "cancel")
  /\ ctx' = [ctx EXCEPT ![hs[a]] = IF @ = "live" THEN "cancelled" ELSE @]
  /\ Goto(a, "drain")
  /\ UNCHANGED <<sessions, mmu, spec, client, sftp, agent, state, closed, rmu, smu,
                 net, hid, hs, hc>>

\* The loops that close the session's forwards and shells, which are the
\* state of SSHForwards and ShellRegistry.  Here it matters that they can
\* take long: see WaitsForReply.
CloseDrain(a) ==
  /\ At(a, "drain")
  /\ Goto(a, "detach")
  /\ UNCHANGED <<sessions, mmu, sessionVars, net, hid, hs, hc>>

CloseDetach(a) ==
  /\ At(a, "detach")
  /\ ClearClient(hs[a])
  /\ Goto(a, "markdis")
  /\ UNCHANGED <<sessions, mmu, spec, state, closed, ctx, rmu, smu, hid, hs, hc>>

CloseMark(a) ==
  /\ At(a, "markdis")
  /\ state' = [state EXCEPT ![hs[a]] = "disconnected"]
  /\ CloseReturn(a)
  /\ UNCHANGED <<mmu, spec, client, sftp, agent, closed, ctx, rmu, smu, net>>

\* Manager.CloseAll, which holds Manager.mu until every session is closed.
CloseAllBegin ==
  /\ At(Main, "serving")
  /\ mmu = None
  /\ mmu' = Main
  /\ Goto(Main, "closeall")
  /\ UNCHANGED <<sessions, sessionVars, net, hid, hs, hc>>

CloseAllNext(id) ==
  /\ At(Main, "closeall")
  /\ sessions[id] # None
  /\ hid' = [hid EXCEPT ![Main] = id]
  /\ hs' = [hs EXCEPT ![Main] = sessions[id]]
  /\ Goto(Main, "cas")
  /\ UNCHANGED <<sessions, mmu, sessionVars, net, hc>>

\* The map is empty: CloseAll returns and the process ends.
CloseAllEnd ==
  /\ At(Main, "closeall")
  /\ \A id \in Ids : sessions[id] = None
  /\ mmu' = None
  /\ Goto(Main, "exited")
  /\ UNCHANGED <<sessions, sessionVars, net, hid, hs, hc>>

-----------------------------------------------------------------------------
(* Manager.Reconnect (a handler) and attemptReconnect (the keepalive of s), *)
(* both under reconnectMu.                                                  *)

\* Get(id).  Without EarlyReconnect the caller waits for ssh_connect first.
ReconnectBegin(h, id) ==
  /\ At(h, "idle")
  /\ mmu = None
  /\ sessions[id] # None
  /\ EarlyReconnect \/ \A g \in Handlers : ~(hs[g] = sessions[id] /\ pc[g] \in ConnectPoints)
  /\ hs' = [hs EXCEPT ![h] = sessions[id]]
  /\ Goto(h, "rlock")
  /\ UNCHANGED <<sessions, mmu, sessionVars, net, hid, hc>>

ReconnectLock(h) ==
  /\ At(h, "rlock")
  /\ rmu[hs[h]] = None
  /\ rmu' = [rmu EXCEPT ![hs[h]] = h]
  /\ Goto(h, "rclear")
  /\ UNCHANGED <<sessions, mmu, spec, client, sftp, agent, state, closed, ctx, smu,
                 net, hid, hs, hc>>

ReconnectUnlock(a) == rmu' = [rmu EXCEPT ![hs[a]] = None]

ReconnectClear(a) ==
  /\ At(a, "rclear")
  /\ ClearClient(hs[a])
  /\ Goto(a, "rmark")
  /\ UNCHANGED <<sessions, mmu, spec, state, closed, ctx, rmu, smu, hid, hs, hc>>

ReconnectMark(a) ==
  /\ At(a, "rmark")
  /\ state' = [state EXCEPT ![hs[a]] = "reconnecting"]
  /\ Goto(a, IF a \in Sessions THEN "loop" ELSE "rdial")
  /\ UNCHANGED <<sessions, mmu, spec, client, sftp, agent, closed, ctx, rmu, smu,
                 net, hid, hs, hc>>

\* ssh_reconnect gives up after one failed dial.
ReconnectDialFail(h) ==
  /\ At(h, "rdial")
  /\ state' = [state EXCEPT ![hs[h]] = "disconnected"]
  /\ ReconnectUnlock(h)
  /\ Return(h)
  /\ UNCHANGED <<sessions, mmu, spec, client, sftp, agent, closed, ctx, smu, net>>

ReconnectInstalled(a) ==
  /\ At(a, "rinstall")
  /\ SetClientInstalled(a)
  /\ Goto(a, "rebind")
  /\ hc' = [hc EXCEPT ![a] = None]
  /\ UNCHANGED <<sessions, mmu, spec, sftp, agent, closed, ctx, rmu, smu, hid, hs>>

ReconnectRefused(a) ==
  /\ At(a, "rinstall")
  /\ SetClientRefused(a)
  /\ ReconnectUnlock(a)
  /\ Return(a)
  /\ UNCHANGED <<sessions, mmu, spec, sftp, agent, closed, ctx, smu>>

\* Mutant: reconnectMu stays locked when the reconnect worked.
MutReconnectEnd(a) ==
  /\ At(a, "rebind")
  /\ Return(a)
  /\ UNCHANGED <<sessions, mmu, sessionVars, net>>

\* rebindForwards has run and the call returns.
ReconnectEnd(a) ==
  /\ At(a, "rebind")
  /\ ReconnectUnlock(a)
  /\ Return(a)
  /\ UNCHANGED <<sessions, mmu, spec, client, sftp, agent, state, closed, ctx, smu, net>>

-----------------------------------------------------------------------------
(* runKeepalive of session s                                                *)

KeepaliveStop(s) ==
  /\ At(s, "tick")
  /\ ctx[s] = "cancelled"
  /\ Goto(s, "off")
  /\ UNCHANGED <<sessions, mmu, sessionVars, net, hid, hs, hc>>

\* The ticker fires: getClient, then the request; select may choose this
\* even when the context is cancelled.
KeepaliveTick(s) ==
  /\ At(s, "tick")
  /\ client[s] # None
  /\ hc' = [hc EXCEPT ![s] = client[s]]
  /\ Goto(s, "request")
  /\ UNCHANGED <<sessions, mmu, sessionVars, net, hid, hs>>

\* The answer to keepalive@openssh.com.  A hung transport gives none.
KeepaliveOk(s) ==
  /\ At(s, "request")
  /\ net[hc[s]] = "open"
  /\ Return(s)
  /\ UNCHANGED <<sessions, mmu, sessionVars, net>>

\* The request failed, on the client read at the tick.
RequestFailed(s) == At(s, "request") /\ net[hc[s]] \in {"dead", "closed"}

\* Mutant: without auto_reconnect a failed request is passed over.
MutKeepaliveMarks(s) ==
  /\ RequestFailed(s) /\ ~spec[s].auto
  /\ Return(s)
  /\ UNCHANGED <<sessions, mmu, sessionVars, net>>

\* Without auto_reconnect the session is marked and keeps its client.
KeepaliveMarks(s) ==
  /\ RequestFailed(s) /\ ~spec[s].auto
  /\ state' = [state EXCEPT ![s] = "disconnected"]
  /\ Return(s)
  /\ UNCHANGED <<sessions, mmu, spec, client, sftp, agent, closed, ctx, rmu, smu, net>>

\* Mutant: a tick that finds no client waits for the next one.
MutNoticesDrop(s) == RequestFailed(s) /\ spec[s].auto

\* runKeepalive calls attemptReconnect.
NoticesDrop(s) ==
  /\ spec[s].auto
  /\ RequestFailed(s) \/ (At(s, "tick") /\ client[s] = None)

\* Mutant: attemptReconnect goes on whether or not TryLock worked.
MutAttemptReconnect(s) ==
  /\ NoticesDrop(s)
  /\ rmu' = [rmu EXCEPT ![s] = s]
  /\ Goto(s, "rclear")
  /\ hc' = [hc EXCEPT ![s] = None]
  /\ UNCHANGED <<sessions, mmu, spec, client, sftp, agent, state, closed, ctx, smu,
                 net, hid, hs>>

\* Its TryLock on reconnectMu: it is us, or somebody else reconnects.
AttemptReconnect(s) ==
  /\ NoticesDrop(s)
  /\ rmu[s] = None
  /\ rmu' = [rmu EXCEPT ![s] = s]
  /\ Goto(s, "rclear")
  /\ hc' = [hc EXCEPT ![s] = None]
  /\ UNCHANGED <<sessions, mmu, spec, client, sftp, agent, state, closed, ctx, smu,
                 net, hid, hs>>

AttemptSkipped(s) ==
  /\ NoticesDrop(s)
  /\ rmu[s] # None
  /\ Return(s)
  /\ UNCHANGED <<sessions, mmu, sessionVars, net>>

\* The head of its loop: dial, unless the context is cancelled.
KeepaliveRetry(s) ==
  /\ At(s, "loop")
  /\ ctx[s] # "cancelled"
  /\ Goto(s, "rdial")
  /\ UNCHANGED <<sessions, mmu, sessionVars, net, hid, hs, hc>>

KeepaliveGivesUp(s) ==
  /\ At(s, "loop")
  /\ ctx[s] = "cancelled"
  /\ ReconnectUnlock(s)
  /\ Return(s)
  /\ UNCHANGED <<sessions, mmu, spec, client, sftp, agent, state, closed, ctx, smu, net>>

\* The dial failed: back to the head of the loop after the backoff.
KeepaliveDialFail(s) ==
  /\ At(s, "rdial")
  /\ state' = [state EXCEPT ![s] = "reconnecting"]
  /\ Goto(s, "loop")
  /\ UNCHANGED <<sessions, mmu, spec, client, sftp, agent, closed, ctx, rmu, smu,
                 net, hid, hs, hc>>

-----------------------------------------------------------------------------
(* sftpClient, called by every file_* tool                                  *)

SftpBegin(h, id) ==
  /\ At(h, "idle")
  /\ mmu = None
  /\ sessions[id] # None
  /\ hs' = [hs EXCEPT ![h] = sessions[id]]
  /\ Goto(h, "sftplock")
  /\ UNCHANGED <<sessions, mmu, sessionVars, net, hid, hc>>

\* Under sftpMu: the SFTP client is there, or there is no transport.
SftpReturns(h) ==
  /\ At(h, "sftplock")
  /\ smu[hs[h]] = None
  /\ sftp[hs[h]] # None \/ client[hs[h]] = None
  /\ Return(h)
  /\ UNCHANGED <<sessions, mmu, sessionVars, net>>

\* Otherwise sftp.NewClient runs on the transport read here, sftpMu held.
SftpLock(h) ==
  /\ At(h, "sftplock")
  /\ smu[hs[h]] = None
  /\ sftp[hs[h]] = None /\ client[hs[h]] # None
  /\ smu' = [smu EXCEPT ![hs[h]] = h]
  /\ hc' = [hc EXCEPT ![h] = client[hs[h]]]
  /\ Goto(h, "sftpnew")
  /\ UNCHANGED <<sessions, mmu, spec, client, sftp, agent, state, closed, ctx, rmu,
                 net, hid, hs>>

SftpUnlock(h) == smu' = [smu EXCEPT ![hs[h]] = None]

\* The server's answer came, the transport may have failed since.
SftpNew(h) ==
  /\ At(h, "sftpnew")
  /\ net[hc[h]] # "hung"
  /\ sftp' = [sftp EXCEPT ![hs[h]] = hc[h]]
  /\ SftpUnlock(h)
  /\ Return(h)
  /\ UNCHANGED <<sessions, mmu, spec, client, agent, state, closed, ctx, rmu, net>>

\* The transport failed, or the server has no SFTP subsystem.
SftpNewFails(h) ==
  /\ At(h, "sftpnew")
  /\ net[hc[h]] # "hung"
  /\ SftpUnlock(h)
  /\ Return(h)
  /\ UNCHANGED <<sessions, mmu, spec, client, sftp, agent, state, closed, ctx, rmu, net>>

-----------------------------------------------------------------------------
(* The network: a connection is reset, or it hangs until TCP gives up.      *)

Drop(c) ==
  /\ net[c] = "open"
  /\ net' = [net EXCEPT ![c] = "dead"]
  /\ UNCHANGED <<sessions, mmu, sessionVars, pc, hid, hs, hc>>

Hang(c) ==
  /\ net[c] = "open"
  /\ net' = [net EXCEPT ![c] = "hung"]
  /\ UNCHANGED <<sessions, mmu, sessionVars, pc, hid, hs, hc>>

HangResolved(c) ==
  /\ net[c] = "hung"
  /\ net' = [net EXCEPT ![c] = "dead"]
  /\ UNCHANGED <<sessions, mmu, sessionVars, pc, hid, hs, hc>>

-----------------------------------------------------------------------------
(* The steps a goroutine takes by itself, once it has begun                 *)

HandlerStep(h) ==
  \/ ConnectDialFail(h) \/ ConnectInstalled(h) \/ ConnectRefused(h) \/ ConnectCleanup(h)
  \/ AgentUnavailable(h) \/ EnableAgentForwarding(h) \/ ForwardToAgent(h)
  \/ ForwardToAgentFails(h) \/ MarkAgentError(h) \/ StartKeepalive(h) \/ NoKeepalive(h)
  \/ ReconnectDialFail(h) \/ SftpReturns(h) \/ SftpLock(h) \/ SftpNew(h) \/ SftpNewFails(h)

CloseStep(a) ==
  CloseCas(a) \/ CloseCancel(a) \/ CloseDrain(a) \/ CloseDetach(a) \/ CloseMark(a)

ReconnectStep(a) ==
  \/ ReconnectClear(a) \/ ReconnectMark(a) \/ ReconnectInstalled(a)
  \/ ReconnectRefused(a) \/ ReconnectEnd(a)

KeepaliveStep(s) ==
  \/ KeepaliveTick(s) \/ KeepaliveOk(s) \/ KeepaliveMarks(s) \/ AttemptReconnect(s)
  \/ AttemptSkipped(s) \/ KeepaliveRetry(s) \/ KeepaliveGivesUp(s) \/ KeepaliveDialFail(s)

\* What clients of the daemon ask for
Request(h) ==
  \E id \in Ids :
    \/ \E sp \in Specs : ConnectBegin(h, id, sp)
    \/ \E src \in Ids : CloneBegin(h, src, id)
    \/ Disconnect(h, id)
    \/ ReconnectBegin(h, id)
    \/ SftpBegin(h, id)

Exited == ~Running /\ UNCHANGED vars

HandlerNext(h) ==
  \/ Request(h) \/ HandlerStep(h) \/ DialOk(h) \/ CloseStep(h)
  \/ ReconnectLock(h) \/ ReconnectStep(h)

KeepaliveNext(s) ==
  KeepaliveStop(s) \/ KeepaliveStep(s) \/ DialOk(s) \/ ReconnectStep(s)

MainNext ==
  \/ CloseAllBegin \/ CloseAllEnd \/ CloseStep(Main)
  \/ \E id \in Ids : CloseAllNext(id)

NetworkNext == \E c \in Clients : Drop(c) \/ Hang(c) \/ HangResolved(c)

Next ==
  \/ \E h \in Handlers : HandlerNext(h)
  \/ \E s \in Sessions : KeepaliveNext(s)
  \/ MainNext \/ NetworkNext \/ Exited

Spec == Init /\ [][Next]_vars

\* A session with a -R forward asks the server to give the port back (the
\* drain in close) or to listen again (rebindForwards), and the answer does
\* not come while the transport hangs.  A session without one goes on.
WaitsForReply(a) ==
  /\ pc[a] \in {"drain", "rebind"}
  /\ client[hs[a]] # None /\ net[client[hs[a]]] = "hung"

\* Every goroutine that can run does, unless it waits for a server that does
\* not answer; a dial ends, one way or the other; reconnectMu, sftpMu and
\* select are not unfair for ever; TCP gives up on a hung connection.
\* Nothing makes a dial work, clients call, the network fail, or the daemon
\* stop.
Fairness ==
  /\ \A h \in Handlers :
       /\ WF_vars((HandlerStep(h) \/ DialOk(h) \/ CloseStep(h) \/ ReconnectStep(h))
                  /\ ~WaitsForReply(h))
       /\ SF_vars(ReconnectLock(h))
       /\ SF_vars(SftpLock(h) \/ SftpReturns(h))
       /\ SF_vars(CloseDetach(h) \/ ReconnectClear(h))
  /\ \A s \in Sessions :
       /\ WF_vars((KeepaliveStep(s) \/ DialOk(s) \/ ReconnectStep(s))
                  /\ ~WaitsForReply(s))
       /\ SF_vars(KeepaliveStop(s))
       /\ SF_vars(ReconnectClear(s))
  /\ WF_vars((CloseStep(Main) /\ ~WaitsForReply(Main))
             \/ CloseAllEnd \/ \E id \in Ids : CloseAllNext(id))
  /\ SF_vars(CloseDetach(Main))
  /\ \A c \in Clients : WF_vars(HangResolved(c))

FairSpec == Spec /\ Fairness

-----------------------------------------------------------------------------
(* Properties                                                               *)

\* The shared state, and the locals of each kind of goroutine.
DataOK ==
  /\ sessions \in [Ids -> Sessions \cup {None}]
  /\ mmu \in {Main, None}
  /\ spec \in [Sessions -> Specs]
  /\ client \in [Sessions -> Clients \cup {None}]
  /\ sftp \in [Sessions -> Clients \cup {None}]
  /\ agent \in [Sessions -> {"off", "on", "stale"}]
  /\ state \in [Sessions -> {"connecting", "connected", "reconnecting", "disconnected"}]
  /\ closed \in [Sessions -> BOOLEAN]
  /\ ctx \in [Sessions -> {"none", "live", "cancelled"}]
  /\ rmu \in [Sessions -> Handlers \cup Sessions \cup {None}]
  /\ smu \in [Sessions -> Handlers \cup {None}]
  /\ net \in [Clients -> {"closed", "open", "hung", "dead"}]

LocalsOK ==
  /\ pc \in [Actors -> HandlerPoints \cup MainPoints \cup KeepalivePoints]
  /\ hid \in [Actors -> Ids \cup {None}]
  /\ hs \in [Actors -> Sessions \cup {None}]
  /\ hc \in [Actors -> Clients \cup {None}]
  /\ \A h \in Handlers :
       pc[h] \in HandlerPoints /\ (pc[h] # "idle" => hs[h] \in Sessions)
  /\ pc[Main] \in MainPoints /\ (pc[Main] \in ClosePoints => hs[Main] \in Sessions)
  /\ \A s \in Sessions : pc[s] \in KeepalivePoints /\ hs[s] = s

TypeOK == DataOK /\ LocalsOK

\* Somebody is inside close() on s and has yet to detach the client.
Closing(s) ==
  \E a \in Handlers \cup {Main} : hs[a] = s /\ pc[a] \in {"cancel", "drain", "detach"}

\* What a closed session still holds, close() is about to take from it: no
\* connect, reconnect, keepalive or file call that was under way gives a
\* disconnected session a transport, an SFTP client, an agent connection or
\* a keepalive again (setClient and startKeepalive look at closed under s.mu,
\* clearClient takes sftpMu).
ClosedHoldsNothing ==
  \A s \in Sessions :
    closed[s] /\ ~Closing(s) =>
      /\ client[s] = None /\ sftp[s] = None
      /\ agent[s] # "on" /\ ctx[s] # "live"

\* The SFTP client of a session rides on the transport the session has now:
\* clearClient's comment, "closes a window where sftpClient() could ...
\* build a new SFTP on a transport that is about to be closed".
SftpRidesClient == \A s \in Sessions : sftp[s] # None => sftp[s] = client[s]

\* A transport that is not closed belongs to a session or to the call that
\* is about to install it ("closed immediately so it isn't leaked").
NoLeakedTransport ==
  \A c \in Clients :
    net[c] \in {"open", "hung"} =>
      \/ \E s \in Sessions : client[s] = c
      \/ \E a \in Actors : hc[a] = c /\ pc[a] \in {"install", "rinstall"}

\* A session with a transport can still be disconnected: an id names it, or
\* a call is in its close().
NoOrphan ==
  \A s \in Sessions :
    client[s] # None =>
      \/ \E id \in Ids : sessions[id] = s
      \/ \E a \in Handlers \cup {Main} :
           hs[a] = s /\ pc[a] \in {"cas", "cancel", "drain", "detach"}

\* No step replaces one transport by another: every install finds the slot
\* that clearClient emptied, which is what reconnectMu and TryLock are for.
NeverOverwrites ==
  [][\A s \in Sessions :
       client'[s] # client[s] => client[s] = None \/ client'[s] = None]_vars

\* Nobody is in the middle of connecting, reconnecting or closing s.
Settled(s) ==
  /\ \A h \in Handlers \cup {Main} :
       hs[h] = s => pc[h] \notin ConnectPoints \cup ClosePoints \cup ReconnectPoints
  /\ pc[s] \notin ReconnectPoints \cup {"loop"}

\* What ssh_list and ssh_info show: "connected" is shown only with a
\* transport, and a session that has a working one shows nothing else.  A
\* session with a keepalive and no auto_reconnect is left out: its keepalive
\* marks it disconnected, by a result that may be about an earlier client.
StatusTruthful ==
  \A s \in Sessions :
    ~closed[s] /\ Settled(s) /\ (spec[s].keepalive => spec[s].auto) =>
      /\ state[s] = "connected" => client[s] # None
      /\ client[s] # None => state[s] = "connected"

\* The network is bad for ever: connections go on failing, or dials do.
NetworkFails ==
  \/ []<><<\E c \in Clients : Drop(c) \/ Hang(c)>>_vars
  \/ []<><<\E a \in Sessions : KeepaliveDialFail(a)>>_vars
  \/ []<><<\E h \in Handlers : ReconnectDialFail(h)>>_vars

\* An auto_reconnect session that lost its transport gets a working one
\* again (README: "back by 2:05am"), unless it is closed, the daemon ends, or
\* the network goes on failing for ever.
AutoReconnects ==
  NetworkFails
  \/ \A s \in Sessions :
       ctx[s] = "live" /\ spec[s].auto /\ (client[s] = None \/ net[client[s]] # "open")
         ~> \/ client[s] # None /\ net[client[s]] = "open"
            \/ closed[s] \/ ~Running

\* Without auto_reconnect a connection that was lost is at least shown as
\* lost, for as long as the session keeps it.
LossIsShown ==
  \A s \in Sessions, c \in Clients :
    ctx[s] = "live" /\ client[s] = c /\ net[c] = "dead"
      ~> state[s] = "disconnected" \/ client[s] # c \/ closed[s] \/ ~Running

\* The keepalive goroutine of a closed session ends.
KeepaliveStops == \A s \in Sessions : closed[s] ~> pc[s] = "off" \/ ~Running

\* No tool call waits for ever: for a lock, for a dial, or for a transport
\* that hangs.  There is one exception: an ssh_reconnect waits for
\* reconnectMu while the session's keepalive holds it in the backoff loop of
\* attemptReconnect, which ends only when a dial works or the session is
\* closed.
CallsReturn ==
  \A h \in Handlers :
    \/ pc[h] # "idle" ~> pc[h] = "idle" \/ ~Running
    \/ \E s \in Sessions :
         /\ <>[](pc[h] = "rlock" /\ hs[h] = s /\ rmu[s] = s)
         /\ []<><<KeepaliveDialFail(s)>>_vars
=============================================================================
