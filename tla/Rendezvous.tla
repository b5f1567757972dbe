----------------------------- MODULE Rendezvous -----------------------------
(***************************************************************************)
(* How launchers find, replace and start the daemon: EnsureDaemonAt in     *)
(* internal/launcher/spawn.go against the start and the exit of            *)
(* cmd/remote-shell-mcpd/main.go, through two files: daemon.lock (flock    *)
(* and pid, internal/daemon/lock.go) and daemon.json (the handle,          *)
(* internal/daemon/handle.go).                                             *)
(*                                                                         *)
(* flock locks an inode, Remove works on a path: the lock file is a set of *)
(* inodes and what the path names.  A handle is the daemon it names        *)
(* (address and token are made anew by every daemon).                      *)
(***************************************************************************)
EXTENDS Naturals, FiniteSets

CONSTANTS
  Daemons,     \* daemon processes (pids) referred to at the same time (bound)
  Launchers,   \* launcher processes
  Inodes,      \* inodes of the lock file in use at the same time (bound)
  MaxFaults,   \* crashes, hangs and stops from outside (bound)
  None

ASSUME RendezvousAssumption ==
  MaxFaults \in Nat /\ None \notin Daemons \cup Inodes /\ Daemons \cap Launchers = {}

VARIABLES
  pc,        \* program point of every daemon
  at,        \* program point of every launcher
  fd,        \* the inode a daemon has open
  path,      \* what daemon.lock names
  holder,    \* who holds the flock of an inode
  pid,       \* the pid written in an inode
  handle,    \* daemon.json
  target,    \* the daemon a launcher waits for to go, or uses
  faults,
  unlinked   \* history: a Release removed the lock file of another daemon

files == <<path, pid, handle>>
vars == <<pc, at, fd, files, holder, target, faults, unlinked>>

Starting == {"open", "flock", "truncate", "pid", "listen", "publish", "load"}

\* IsListening: the kernel accepts from net.Listen on, until Shutdown.
Listening == {d \in Daemons : pc[d] \in {"publish", "load", "serving"}}

\* A pid, or an inode, that nothing refers to may be used again.
FreshDaemon(d) ==
  /\ pc[d] = "gone" /\ handle # d
  /\ path # None => pid[path] # d
  /\ \A l \in Launchers : target[l] # d
FreshInode(i) == path # i /\ \A d \in Daemons : fd[d] # i

Init ==
  /\ pc = [d \in Daemons |-> "gone"]
  /\ at = [l \in Launchers |-> "off"]
  /\ fd = [d \in Daemons |-> None]
  /\ path = None /\ pid = [i \in Inodes |-> None] /\ handle = None
  /\ holder = [i \in Inodes |-> None]
  /\ target = [l \in Launchers |-> None]
  /\ faults = 0 /\ unlinked = FALSE

Goto(d, p) == pc' = [pc EXCEPT ![d] = p]
GoOn(l, p) == at' = [at EXCEPT ![l] = p]

-----------------------------------------------------------------------------
(* The daemon: AcquireLock, listen, WriteHandle, serve                     *)

OpenLock(d) ==
  /\ pc[d] = "open"
  /\ \/ path # None /\ UNCHANGED <<path, pid>>
     \/ /\ path = None /\ \E i \in Inodes : FreshInode(i)
        /\ path' = CHOOSE i \in Inodes : FreshInode(i)
        /\ pid' = [pid EXCEPT ![path'] = None]
  /\ fd' = [fd EXCEPT ![d] = path']
  /\ Goto(d, "flock")
  /\ UNCHANGED <<at, holder, handle, target, faults, unlinked>>

\* A process that ends, however it ends, gives up its flock.
Ends(d) ==
  /\ Goto(d, "gone")
  /\ fd' = [fd EXCEPT ![d] = None]
  /\ holder' = [i \in Inodes |-> IF holder[i] = d THEN None ELSE holder[i]]

\* Mutant: the error of flock is ignored.
MutMayLock(d) == TRUE

MayLock(d) == holder[fd[d]] = None

Flock(d) ==
  /\ pc[d] = "flock"
  /\ \/ /\ MayLock(d)
        /\ holder' = [holder EXCEPT ![fd[d]] = d]
        /\ Goto(d, "truncate") /\ UNCHANGED fd
     \/ ~MayLock(d) /\ Ends(d)
  /\ UNCHANGED <<at, files, target, faults, unlinked>>

\* Until Truncate and WriteString the file has the last daemon's pid, in
\* between none.
WritePid(d) ==
  /\ \/ pc[d] = "truncate" /\ Goto(d, "pid") /\ pid' = [pid EXCEPT ![fd[d]] = None]
     \/ pc[d] = "pid" /\ Goto(d, "listen") /\ pid' = [pid EXCEPT ![fd[d]] = d]
  /\ UNCHANGED <<at, fd, path, holder, handle, target, faults, unlinked>>

\* net.Listen, then WriteHandle (a rename), then Restore and the signal
\* handler.
Publish(d) ==
  /\ \/ pc[d] = "listen" /\ Goto(d, "publish") /\ UNCHANGED handle
     \/ pc[d] = "publish" /\ Goto(d, "load") /\ handle' = d
     \/ pc[d] = "load" /\ Goto(d, "serving") /\ UNCHANGED handle
  /\ UNCHANGED <<at, fd, path, pid, holder, target, faults, unlinked>>

-----------------------------------------------------------------------------
(* The daemon's exit: Shutdown, then the deferred calls in reverse order   *)

\* Mutant: the lock is released first.
MutStop(d) ==
  /\ \/ /\ pc[d] = "stopping" /\ Goto(d, "unlock")
        /\ holder' = [holder EXCEPT ![fd[d]] = None] /\ UNCHANGED handle
     \/ /\ pc[d] = "unlock" /\ Goto(d, "unlink")
        /\ handle' = None /\ UNCHANGED holder
  /\ UNCHANGED <<at, fd, path, pid, target, faults, unlinked>>

\* os.Remove(handlePath), whosever handle it is; then Lock.Release unlocks.
Stop(d) ==
  /\ \/ /\ pc[d] = "stopping" /\ Goto(d, "unlock")
        /\ handle' = None /\ UNCHANGED holder
     \/ /\ pc[d] = "unlock" /\ Goto(d, "unlink")
        /\ holder' = [holder EXCEPT ![fd[d]] = None] /\ UNCHANGED handle
  /\ UNCHANGED <<at, fd, path, pid, target, faults, unlinked>>

\* Lock.Release removes the path, whoever has opened or locked it meanwhile.
Unlink(d) ==
  /\ pc[d] = "unlink"
  /\ path' = None
  /\ unlinked' = (unlinked \/ \E e \in Daemons \ {d} : fd[e] # None /\ fd[e] = path)
  /\ Ends(d)
  /\ UNCHANGED <<at, pid, handle, target, faults>>

\* SIGINT: the default action until signals are handled, then a shutdown; a
\* daemon that is stopping, or stuck in it, does not react.
Interrupt(d) ==
  CASE pc[d] \in Starting -> Ends(d)
    [] pc[d] = "serving" -> Goto(d, "stopping") /\ UNCHANGED <<fd, holder>>
    [] OTHER -> UNCHANGED <<pc, fd, holder>>

StartDaemon ==
  /\ \E d \in Daemons : FreshDaemon(d)
  /\ Goto(CHOOSE d \in Daemons : FreshDaemon(d), "open")

\* The user starts a daemon by hand.
StartedByHand ==
  /\ faults < MaxFaults /\ StartDaemon
  /\ faults' = faults + 1
  /\ UNCHANGED <<at, fd, files, holder, target, unlinked>>

\* From outside: a crash, a stop by the user, and one that gets stuck on the
\* way with the listener closed (CloseAll behind a transport that hangs).
Fault(d) ==
  /\ faults < MaxFaults /\ pc[d] # "gone"
  /\ faults' = faults + 1
  /\ \/ Ends(d)
     \/ pc[d] = "serving" /\ Goto(d, "hung") /\ UNCHANGED <<fd, holder>>
     \/ pc[d] = "serving" /\ Interrupt(d)
  /\ UNCHANGED <<at, files, target, unlinked>>

-----------------------------------------------------------------------------
(* The launcher: EnsureDaemonAt                                            *)

\* ReadHandle and IsListening.
Found == handle \in Listening

Use(l) == GoOn(l, "have") /\ target' = [target EXCEPT ![l] = handle]

\* tryUseExistingDaemon
Look(l) ==
  /\ at[l] = "look"
  /\ \/ Found /\ Use(l)
     \/ ~Found /\ GoOn(l, "remove") /\ UNCHANGED target
  /\ UNCHANGED <<pc, fd, files, holder, faults, unlinked>>

\* killStaleDaemon: the handle first.
RemoveHandle(l) ==
  /\ at[l] = "remove"
  /\ handle' = None
  /\ GoOn(l, "readpid")
  /\ UNCHANGED <<pc, fd, path, pid, holder, target, faults, unlinked>>

\* ReadPid, and SIGINT to whoever that is.
InterruptStale(l) ==
  LET p == IF path = None THEN None ELSE pid[path] IN
  /\ at[l] = "readpid"
  /\ \/ p = None /\ GoOn(l, "spawn") /\ UNCHANGED <<pc, fd, holder, target>>
     \/ p # None /\ GoOn(l, "wait") /\ Interrupt(p) /\ target' = [target EXCEPT ![l] = p]
  /\ UNCHANGED <<files, faults, unlinked>>

\* Mutant: no escalation.
MutKillStale(l) == UNCHANGED <<pc, fd, holder>>

\* SIGKILL for a daemon that has not gone within 2 s.
KillStale(l) == IF pc[target[l]] = "gone" THEN UNCHANGED <<pc, fd, holder>> ELSE Ends(target[l])

\* waitForExit is over, one way or the other.
WaitForExit(l) ==
  /\ at[l] = "wait"
  /\ KillStale(l)
  /\ GoOn(l, "spawn")
  /\ target' = [target EXCEPT ![l] = None]
  /\ UNCHANGED <<files, faults, unlinked>>

SpawnDaemon(l) ==
  /\ at[l] = "spawn"
  /\ StartDaemon
  /\ GoOn(l, "await")
  /\ UNCHANGED <<fd, files, holder, target, faults, unlinked>>

\* waitForHandle; its timeout is longer than a daemon takes to start.
WaitForHandle(l) ==
  /\ at[l] = "await"
  /\ \/ Found /\ Use(l)
     \/ /\ ~Found /\ \A d \in Daemons : pc[d] \notin Starting
        /\ GoOn(l, "look") /\ UNCHANGED target
  /\ UNCHANGED <<pc, fd, files, holder, faults, unlinked>>

\* The bridge to a daemon that has gone fails, and EnsureDaemonAt is called
\* again.
BridgeFails(l) ==
  /\ at[l] = "have" /\ target[l] \notin Listening
  /\ GoOn(l, "look")
  /\ target' = [target EXCEPT ![l] = None]
  /\ UNCHANGED <<pc, fd, files, holder, faults, unlinked>>

\* Launchers come and go with their MCP clients.
Arrive(l) ==
  /\ at[l] = "off"
  /\ GoOn(l, "look")
  /\ UNCHANGED <<pc, fd, files, holder, target, faults, unlinked>>

Leave(l) ==
  /\ at[l] \in {"look", "have"}
  /\ GoOn(l, "off")
  /\ target' = [target EXCEPT ![l] = None]
  /\ UNCHANGED <<pc, fd, files, holder, faults, unlinked>>

-----------------------------------------------------------------------------
DaemonStep(d) ==
  OpenLock(d) \/ Flock(d) \/ WritePid(d) \/ Publish(d) \/ Stop(d) \/ Unlink(d)

LauncherStep(l) ==
  \/ Look(l) \/ RemoveHandle(l) \/ InterruptStale(l) \/ WaitForExit(l)
  \/ SpawnDaemon(l) \/ WaitForHandle(l) \/ BridgeFails(l)

Next ==
  \/ \E d \in Daemons : DaemonStep(d) \/ Fault(d)
  \/ \E l \in Launchers : LauncherStep(l) \/ Arrive(l) \/ Leave(l)
  \/ StartedByHand

Spec == Init /\ [][Next]_vars

\* The operating system runs every process.
FairSpec == /\ Spec
            /\ \A d \in Daemons : WF_vars(DaemonStep(d))
            /\ \A l \in Launchers : WF_vars(LauncherStep(l))

-----------------------------------------------------------------------------
\* One daemon at a time: two never serve on the same state file.  Excused: a
\* daemon whose lock file was removed by the Release of the one before it.
OneDaemon == unlinked \/ Cardinality({d \in Daemons : pc[d] \in {"load", "serving"}}) <= 1

\* A serving daemon can be found and replaced: the lock file names its pid,
\* and the handle names it unless a launcher has just removed the handle and is
\* about to stop it.  No daemon that stops takes away the handle of the next.
\* Excused as above.
NoOrphanDaemon ==
  unlinked \/ \A d \in Daemons : pc[d] \in {"load", "serving"} =>
    /\ path # None /\ pid[path] = d
    /\ handle = d \/ \E l \in Launchers : at[l] = "readpid"

\* A launcher gets a daemon that listens, whatever it finds: nothing, a handle
\* or a lock file left behind, a daemon that starts, stops, hangs or ignores
\* signals.  Excused: as above, and other launchers that go on replacing
\* daemons for ever.
GetsDaemon ==
  \A l \in Launchers :
    <>[](\A m \in Launchers \ {l} : at[m] \in {"off", "have"})
      => ((at[l] = "look") ~> (at[l] \in {"have", "off"} \/ unlinked))
=============================================================================
