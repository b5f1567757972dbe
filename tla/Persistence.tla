----------------------------- MODULE Persistence -----------------------------
(***************************************************************************)
(* What survives the daemon: the debounced flusher of internal/mcptools/   *)
(* server.go, Capture and Restore of internal/state/sync.go, the store of  *)
(* internal/state/store.go, and the start and stop of the daemon in        *)
(* cmd/remote-shell-mcpd/main.go.                                          *)
(*                                                                         *)
(* Everything here is marked persistent: SSH sessions, one forward per     *)
(* session, Docker hosts.  A record is an id; the secrets that Capture     *)
(* scrubs are left out.  What happens to a session while it is in the map  *)
(* is the business of SSHManager.                                          *)
(***************************************************************************)

CONSTANTS
  Ids,       \* SSH session ids
  Hosts,     \* Docker host ids
  Handlers,  \* tool calls that can be running at the same time
  Flusher,   \* the goroutine of flushLoop
  Main       \* the daemon's main goroutine

Writers == Handlers \cup {Flusher, Main}

ASSUME WritersAssumption == Flusher # Main /\ Flusher \notin Handlers /\ Main \notin Handlers

Snapshots == [ssh : SUBSET Ids, fwd : SUBSET Ids, dk : SUBSET Hosts]
Empty == [ssh |-> {}, fwd |-> {}, dk |-> {}]

VARIABLES
  ssh, fwd, dk,  \* the managers: sessions, sessions with a forward, hosts
  req,           \* a token is in flushReqCh
  timer,         \* the debounce timer runs
  flush,         \* flushLoop runs
  file,          \* state.json
  main,          \* where the main goroutine is
  todo,          \* what Restore has yet to restore
  hpc, hid,      \* per tool call: where it is, and the session it dials
  wpc, snap,     \* per writer: where its PersistNow is, and its Snapshot
  kept,          \* history: sessions whose record has no reason to leave the file
  stopped,       \* history: what was connected when the last shutdown began
  failed,        \* history: the last write failed
  snapshots      \* history: the snapshot tool was used

managers == <<ssh, fwd, dk>>
flusher == <<req, timer, flush>>
calls == <<hpc, hid>>
writes == <<wpc, snap>>
reasons == <<kept, stopped>>
history == <<reasons, failed, snapshots>>
vars == <<managers, flusher, file, main, todo, calls, writes, history>>

Init ==
  /\ ssh = {} /\ fwd = {} /\ dk = {}
  /\ req = FALSE /\ timer = FALSE /\ flush = FALSE
  /\ file = Empty /\ main = "down" /\ todo = Empty
  /\ hpc = [h \in Handlers |-> "idle"] /\ hid = [h \in Handlers |-> {}]
  /\ wpc = [w \in Writers |-> "off"] /\ snap = [w \in Writers |-> Empty]
  /\ kept = {} /\ stopped = {} /\ failed = FALSE /\ snapshots = FALSE

\* Sessions in the map that have a client.
Connected == ssh \ UNION {hid[h] : h \in {g \in Handlers : hpc[g] = "dial"}}

\* Somebody gave up these sessions: their records may go.
Forget(S) ==
  /\ kept' = kept \ S
  /\ stopped' = stopped \ S

-----------------------------------------------------------------------------
(* PersistNow: Capture reads the managers one after the other, then Save    *)
(* replaces the file.  Nothing is held from the one to the other.           *)

\* ssh.Sessions(): sessions that still dial are in the map, too.
CaptureSSH(w) ==
  /\ wpc[w] = "ssh"
  /\ snap' = [snap EXCEPT ![w] = [Empty EXCEPT !.ssh = ssh]]
  /\ wpc' = [wpc EXCEPT ![w] = "fwd"]
  /\ UNCHANGED <<managers, flusher, file, main, todo, calls, history>>

\* ListForwards by the ids captured; a session that is gone has none, and
\* one that was disconnected and connected again meanwhile has those of the
\* new session.  The calls for different sessions are one step: no property
\* relates them.
CaptureForwards(w) ==
  /\ wpc[w] = "fwd"
  /\ snap' = [snap EXCEPT ![w].fwd = fwd \cap snap[w].ssh]
  /\ wpc' = [wpc EXCEPT ![w] = "dk"]
  /\ UNCHANGED <<managers, flusher, file, main, todo, calls, history>>

CaptureHosts(w) ==
  /\ wpc[w] = "dk"
  /\ snap' = [snap EXCEPT ![w].dk = dk]
  /\ wpc' = [wpc EXCEPT ![w] = "save"]
  /\ UNCHANGED <<managers, flusher, file, main, todo, calls, history>>

\* PersistNow returns: the flusher goes back to its loop, the snapshot tool
\* answers, and after Stop comes CloseAll, whether or not it worked.
WriteEnds(w) ==
  /\ wpc' = [wpc EXCEPT ![w] = "off"]
  /\ snap' = [snap EXCEPT ![w] = Empty]
  /\ main' = IF w = Main THEN "close" ELSE main

\* Store.Save: the temporary file is renamed, which is atomic.
Save(w) ==
  /\ wpc[w] = "save"
  /\ file' = snap[w]
  /\ kept' = kept \cup (snap[w].ssh \cap Connected)
  /\ failed' = FALSE
  /\ WriteEnds(w)
  /\ UNCHANGED <<managers, flusher, todo, calls, stopped, snapshots>>

\* The write or the rename fails: logged, reported or ignored; not repeated.
SaveFails(w) ==
  /\ wpc[w] = "save"
  /\ failed' = TRUE
  /\ WriteEnds(w)
  /\ UNCHANGED <<managers, flusher, file, todo, calls, reasons, snapshots>>

-----------------------------------------------------------------------------
(* Tool calls.  One that has arrived before the shutdown may act after it.  *)

\* What a call does once it has changed a manager.
Changed(h) ==
  /\ hpc' = [hpc EXCEPT ![h] = "persist"]
  /\ hid' = [hid EXCEPT ![h] = {}]

Returns(h) ==
  /\ hpc' = [hpc EXCEPT ![h] = "idle"]
  /\ hid' = [hid EXCEPT ![h] = {}]

Arrive(h) ==
  /\ main = "serve"
  /\ hpc[h] = "idle" /\ wpc[h] = "off"
  /\ hpc' = [hpc EXCEPT ![h] = "run"]
  /\ UNCHANGED <<managers, flusher, file, main, todo, hid, writes, history>>

\* Calls that change nothing here, or that fail before they do.
OtherCall(h) ==
  /\ hpc[h] = "run"
  /\ Returns(h)
  /\ UNCHANGED <<managers, flusher, file, main, todo, writes, history>>

\* Connect puts the session into the map before it dials.
ConnectBegin(h, i) ==
  /\ hpc[h] = "run"
  /\ i \notin ssh
  /\ ssh' = ssh \cup {i}
  /\ hpc' = [hpc EXCEPT ![h] = "dial"]
  /\ hid' = [hid EXCEPT ![h] = {i}]
  /\ UNCHANGED <<fwd, dk, flusher, file, main, todo, writes, history>>

\* The calls, where those that dial a session of S learn what became of it.
Dialers(S, what) ==
  [g \in Handlers |-> IF hpc[g] = "dial" /\ hid[g] \subseteq S THEN what ELSE hpc[g]]

\* setClient succeeds unless the session was closed; "lost" is a session
\* that is out of the map without having been closed.
ConnectOk(h) ==
  /\ hpc[h] \in {"dial", "lost"}
  /\ Changed(h)
  /\ UNCHANGED <<managers, flusher, file, main, todo, writes, history>>

\* The dial failed: the entry of that id is deleted, whosoever it is by now.
\* The handler returns without Persist.
ConnectFails(h) ==
  /\ hpc[h] \in {"dial", "lost", "closed"}
  /\ ssh' = ssh \ hid[h]
  /\ fwd' = fwd \ hid[h]
  /\ Forget(hid[h])
  /\ hpc' = [Dialers(hid[h], "lost") EXCEPT ![h] = "idle"]
  /\ hid' = [hid EXCEPT ![h] = {}]
  /\ UNCHANGED <<dk, flusher, file, main, todo, writes, failed, snapshots>>

\* The dial succeeded and the session has been closed.
ConnectRefused(h) ==
  /\ hpc[h] = "closed"
  /\ Returns(h)
  /\ UNCHANGED <<managers, flusher, file, main, todo, writes, history>>

\* Mutant: the forwards of the session stay.
MutDisconnect(h, i) ==
  /\ hpc[h] = "run"
  /\ i \in ssh
  /\ ssh' = ssh \ {i}
  /\ Forget({i})
  /\ hpc' = [Dialers({i}, "closed") EXCEPT ![h] = "persist"]
  /\ UNCHANGED <<fwd, dk, flusher, file, main, todo, hid, writes, failed, snapshots>>

\* ssh_disconnect, also of a session that still dials.
Disconnect(h, i) ==
  /\ hpc[h] = "run"
  /\ i \in ssh
  /\ ssh' = ssh \ {i}
  /\ fwd' = fwd \ {i}
  /\ Forget({i})
  /\ hpc' = [Dialers({i}, "closed") EXCEPT ![h] = "persist"]
  /\ UNCHANGED <<dk, flusher, file, main, todo, hid, writes, failed, snapshots>>

\* Mutant: the tool opens the forward and does not call Persist.
MutOpenForward(h, i) ==
  /\ hpc[h] = "run"
  /\ i \in Connected \ fwd
  /\ fwd' = fwd \cup {i}
  /\ Returns(h)
  /\ UNCHANGED <<ssh, dk, flusher, file, main, todo, writes, history>>

OpenForward(h, i) ==
  /\ hpc[h] = "run"
  /\ i \in Connected \ fwd
  /\ fwd' = fwd \cup {i}
  /\ Changed(h)
  /\ UNCHANGED <<ssh, dk, flusher, file, main, todo, writes, history>>

CloseForward(h, i) ==
  /\ hpc[h] = "run"
  /\ i \in fwd
  /\ fwd' = fwd \ {i}
  /\ Changed(h)
  /\ UNCHANGED <<ssh, dk, flusher, file, main, todo, writes, history>>

\* docker_connect adds the host when it has dialed.
DockerConnect(h, d) ==
  /\ hpc[h] = "run"
  /\ d \notin dk
  /\ dk' = dk \cup {d}
  /\ Changed(h)
  /\ UNCHANGED <<ssh, fwd, flusher, file, main, todo, writes, history>>

DockerDisconnect(h, d) ==
  /\ hpc[h] = "run"
  /\ d \in dk
  /\ dk' = dk \ {d}
  /\ Changed(h)
  /\ UNCHANGED <<ssh, fwd, flusher, file, main, todo, writes, history>>

\* Mutant: flushReqCh has no buffer, so the token is lost while the flusher
\* is in fire().
MutPersist(h) ==
  /\ hpc[h] = "persist"
  /\ req' = (req \/ wpc[Flusher] = "off")
  /\ Returns(h)
  /\ UNCHANGED <<managers, timer, flush, file, main, todo, writes, history>>

\* Persist: a send that never blocks.
Persist(h) ==
  /\ hpc[h] = "persist"
  /\ req' = TRUE
  /\ Returns(h)
  /\ UNCHANGED <<managers, timer, flush, file, main, todo, writes, history>>

\* The snapshot tool calls PersistNow itself.
SnapshotTool(h) ==
  /\ hpc[h] = "run"
  /\ wpc' = [wpc EXCEPT ![h] = "ssh"]
  /\ snapshots' = TRUE
  /\ Returns(h)
  /\ UNCHANGED <<managers, flusher, file, main, todo, snap, reasons, failed>>

-----------------------------------------------------------------------------
(* flushLoop: its select, taken when it is not in fire()                    *)

AtSelect == flush /\ wpc[Flusher] = "off"

\* A request starts the timer or starts it again.
FlushRequest ==
  /\ AtSelect /\ req
  /\ req' = FALSE
  /\ timer' = TRUE
  /\ UNCHANGED <<managers, flush, file, main, todo, calls, writes, history>>

FlushFire ==
  /\ AtSelect /\ timer
  /\ timer' = FALSE
  /\ wpc' = [wpc EXCEPT ![Flusher] = "ssh"]
  /\ UNCHANGED <<managers, req, flush, file, main, todo, calls, snap, history>>

FlushStop ==
  /\ AtSelect /\ main = "stop"
  /\ flush' = FALSE /\ timer' = FALSE
  /\ UNCHANGED <<managers, req, file, main, todo, calls, writes, history>>

-----------------------------------------------------------------------------
(* The daemon                                                               *)

\* store.Load, and Restore begins.
Load ==
  /\ main = "down"
  /\ main' = "restore"
  /\ todo' = file
  /\ UNCHANGED <<managers, flusher, file, calls, writes, history>>

\* The file cannot be read: logged, and the daemon starts with nothing.
LoadFails ==
  /\ main = "down"
  /\ main' = "restore"
  /\ Forget(Ids)
  /\ UNCHANGED <<managers, flusher, file, todo, calls, writes, failed, snapshots>>

\* Sessions first, then forwards, then hosts; what fails is logged.
RestoreSession(i, ok) ==
  /\ main = "restore"
  /\ i \in todo.ssh
  /\ todo' = [todo EXCEPT !.ssh = @ \ {i}]
  /\ ssh' = IF ok THEN ssh \cup {i} ELSE ssh
  /\ Forget(IF ok THEN {} ELSE {i})
  /\ UNCHANGED <<fwd, dk, flusher, file, main, calls, writes, failed, snapshots>>

RestoreForward(i, ok) ==
  /\ main = "restore"
  /\ todo.ssh = {} /\ i \in todo.fwd
  /\ ok => i \in ssh
  /\ todo' = [todo EXCEPT !.fwd = @ \ {i}]
  /\ fwd' = IF ok THEN fwd \cup {i} ELSE fwd
  /\ UNCHANGED <<ssh, dk, flusher, file, main, calls, writes, history>>

RestoreHost(d, ok) ==
  /\ main = "restore"
  /\ todo.ssh = {} /\ todo.fwd = {} /\ d \in todo.dk
  /\ todo' = [todo EXCEPT !.dk = @ \ {d}]
  /\ dk' = IF ok THEN dk \cup {d} ELSE dk
  /\ UNCHANGED <<ssh, fwd, flusher, file, main, calls, writes, history>>

\* Everything has been tried: the flusher is started and requests are served.
Start ==
  /\ main = "restore"
  /\ todo = Empty
  /\ main' = "serve"
  /\ flush' = TRUE
  /\ UNCHANGED <<managers, req, timer, file, todo, calls, writes, history>>

\* A signal: Shutdown waits for calls, 5 s at most, and Stop closes flushStopCh.
Signal ==
  /\ main = "serve"
  /\ main' = "stop"
  /\ UNCHANGED <<managers, flusher, file, todo, calls, writes, history>>

\* Mutant: CloseAll comes first, then Stop and its last write.
MutCloseFirst ==
  /\ main = "stop" /\ ~flush
  /\ main' = "final"
  /\ wpc' = [wpc EXCEPT ![Main] = "ssh"]
  /\ stopped' = Connected
  /\ ssh' = {} /\ fwd' = {}
  /\ hpc' = Dialers(Ids, "closed")
  /\ UNCHANGED <<dk, flusher, file, todo, hid, snap, kept, failed, snapshots>>

\* Mutant: Stop relies on the flusher and does not write.
MutNoFinalWrite ==
  /\ main = "stop" /\ ~flush
  /\ main' = "close"
  /\ stopped' = Connected
  /\ UNCHANGED <<managers, flusher, file, todo, calls, writes, kept, failed, snapshots>>

\* The flusher is done: Stop's own PersistNow.
StopWrites ==
  /\ main = "stop" /\ ~flush
  /\ main' = "final"
  /\ wpc' = [wpc EXCEPT ![Main] = "ssh"]
  /\ stopped' = Connected
  /\ UNCHANGED <<managers, flusher, file, todo, calls, snap, kept, failed, snapshots>>

\* sshMgr.CloseAll, with Manager.mu held.
CloseAllSSH ==
  /\ main = "close"
  /\ ssh' = {} /\ fwd' = {}
  /\ hpc' = Dialers(Ids, "closed")
  /\ main' = "exit"
  /\ UNCHANGED <<dk, flusher, file, todo, hid, writes, history>>

\* The process is gone, and all it held with it.
Gone ==
  /\ main' = "down"
  /\ ssh' = {} /\ fwd' = {} /\ dk' = {}
  /\ req' = FALSE /\ timer' = FALSE /\ flush' = FALSE
  /\ todo' = Empty
  /\ hpc' = [h \in Handlers |-> "idle"] /\ hid' = [h \in Handlers |-> {}]
  /\ wpc' = [w \in Writers |-> "off"] /\ snap' = [w \in Writers |-> Empty]
  /\ UNCHANGED <<file, kept, failed, snapshots>>

\* dkMgr.CloseAll, and main returns.
Exit == main = "exit" /\ Gone /\ UNCHANGED stopped

\* kill -9, or the machine goes down.
Crash == main # "down" /\ Gone /\ stopped' = {}

-----------------------------------------------------------------------------

WriterStep(w) ==
  CaptureSSH(w) \/ CaptureForwards(w) \/ CaptureHosts(w) \/ Save(w) \/ SaveFails(w)

CallStep(h) ==
  \/ ConnectOk(h) \/ ConnectFails(h) \/ ConnectRefused(h)
  \/ OtherCall(h) \/ SnapshotTool(h) \/ Persist(h)
  \/ \E i \in Ids : \/ ConnectBegin(h, i) \/ Disconnect(h, i)
                    \/ OpenForward(h, i) \/ CloseForward(h, i)
  \/ \E d \in Hosts : DockerConnect(h, d) \/ DockerDisconnect(h, d)

MainStep ==
  \/ Load \/ LoadFails \/ Start \/ StopWrites \/ CloseAllSSH \/ Exit
  \/ \E i \in Ids, ok \in BOOLEAN : RestoreSession(i, ok) \/ RestoreForward(i, ok)
  \/ \E d \in Hosts, ok \in BOOLEAN : RestoreHost(d, ok)

Next ==
  \/ \E w \in Writers : WriterStep(w)
  \/ \E h \in Handlers : Arrive(h) \/ CallStep(h)
  \/ FlushRequest \/ FlushFire \/ FlushStop
  \/ MainStep \/ Signal \/ Crash

Spec == Init /\ [][Next]_vars

\* Goroutines that can run do, and a dial ends.  The timer that runs fires,
\* unless requests start it again for ever.
Fairness ==
  /\ \A w \in Writers : WF_vars(WriterStep(w))
  /\ \A h \in Handlers : WF_vars(CallStep(h))
  /\ WF_vars(FlushRequest) /\ WF_vars(FlushFire) /\ WF_vars(FlushStop)
  /\ WF_vars(MainStep)

FairSpec == Spec /\ Fairness

-----------------------------------------------------------------------------
(* Properties                                                               *)

\* The types; and the forwards are those of sessions in the map.
TypeOK ==
  /\ ssh \subseteq Ids /\ fwd \subseteq ssh /\ dk \subseteq Hosts
  /\ req \in BOOLEAN /\ timer \in BOOLEAN /\ flush \in BOOLEAN
  /\ file \in Snapshots /\ todo \in Snapshots
  /\ main \in {"down", "restore", "serve", "stop", "final", "close", "exit"}
  /\ hpc \in [Handlers -> {"idle", "run", "dial", "lost", "closed", "persist"}]
  /\ hid \in [Handlers -> SUBSET Ids]
  /\ wpc \in [Writers -> {"off", "ssh", "fwd", "dk", "save"}]
  /\ snap \in [Writers -> Snapshots]
  /\ kept \subseteq Ids /\ stopped \subseteq Ids
  /\ failed \in BOOLEAN /\ snapshots \in BOOLEAN

\* PersistNow "blocks until the current state is on disk" (server.go:98) and
\* the snapshot tool is "a fence, not a debounced hint" (meta.go:29-30): the
\* record of a connected session, once written, stays in the file until the
\* session is given up.  The code does not keep it: two writers may capture in
\* one order and save in the other.
SnapshotIsFence == kept \subseteq file.ssh

\* That holds through debounced writes, failed writes, shutdowns, crashes and
\* restarts as long as the snapshot tool is not used: the flusher and Stop are
\* never in PersistNow at the same time, and CloseAll comes after both.
RecordsStay == snapshots \/ SnapshotIsFence

\* After a clean shutdown the file has every session that was connected when
\* Stop began its write, the changes the flusher had not yet seen included:
\* Stop "can't leave a pending write on the floor" (server.go:67-68).
ShutdownKeeps == main = "down" /\ ~failed /\ ~snapshots => stopped \subseteq file.ssh

\* Calls come for ever and start the debounce timer again and again
\* (server.go:121-131), the last write failed, which nothing repeats, or the
\* snapshot tool saved out of order.
WritesUnsettled ==
  \/ []<><<\E h \in Handlers : Arrive(h)>>_vars
  \/ []<>failed \/ []<>snapshots

\* What stays connected while the daemon is up gets into the file.
ReachesDisk ==
  WritesUnsettled
  \/ \A i \in Ids :
       <>[](main = "serve" /\ i \in Connected) => <>[](i \in file.ssh)

\* The file follows the forwards: one that stays open gets into it, and one
\* that is closed, alone or with its session, leaves it once its call has
\* asked for a write.  Capture reads sessions and forwards at different times
\* and by id, so a write may have a session without its forward, or the
\* forward of another session that has the id by then (sync.go:22); the
\* request of the call that came in between is not lost and mends it.
ForwardsReachDisk ==
  WritesUnsettled
  \/ \A i \in Ids :
       /\ <>[](main = "serve" /\ i \in fwd) => <>[](i \in file.fwd)
       /\ \A h \in Handlers :
            hpc[h] = "persist" /\ i \notin fwd
              ~> [](i \notin file.fwd) \/ i \in fwd \/ main # "serve"
=============================================================================
