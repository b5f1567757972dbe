# A TLA+ model of remote-shell-mcp

`remote-shell-mcpd` is a daemon that keeps SSH sessions, shells, port forwards
and Docker connections open for MCP clients; `remote-shell-mcp` is the launcher
that finds or starts it and carries JSON-RPC between stdin/stdout and the
daemon. Every tool call runs in a goroutine of its own beside keepalives, pumps
and accept loops, so what is hard about this program is concurrency, a network
that fails and hangs, and shutdown. This directory models those parts.

## 1. Inventory

| Component | State | Operations | Hard because | Correct when |
|-|-|-|-|-|
| SSH session manager (`internal/sshx/manager.go`, `session.go`) | map of sessions; per session: client, state, closed flag, keepalive context, three locks | connect, clone, disconnect, reconnect, keepalive, auto-reconnect, close all | dials run outside all locks; close may come at any point of a connect or reconnect | a closed session holds nothing; no transport is leaked, overwritten or out of reach; lost sessions come back; calls return |
| SFTP client (`sftp.go`) | one client per session, built on first use | get or build; dropped with the transport | built by a network call under its own lock | it rides on the session's present transport |
| SSH and Docker shells (`sshx/shell.go`, `dockerx/shell.go`) | bounded buffer, wake token, closed flag, done channel; a table per session or host | open, read, write, resize, close, auto-remove | two pumps, many readers, one token; close, exit and drain race | no lost wake-up, output in order, reads return, the table lists what can be used |
| Port forwards (`sshx/forward.go`) | listeners and connections per session | open local/remote/dynamic, close, rebind after reconnect | rebind swaps listeners while close runs | a closed forward has no listener; a reconnect leaves one accept loop each |
| Docker hosts (`dockerx/manager.go`, `connect.go`) | map of hosts, a docker client and perhaps an ssh connection each | connect, disconnect, close all | dial between two looks at the map; two layers to close | every connection is listed or about to be closed |
| Docker calls (`dockerx/container.go`, `image.go`, `run.go`, `copy.go`) | none in the daemon; containers in the engine, a tar goroutine and a pipe per upload | list, inspect, start, stop, restart, kill, remove, logs, pull, run, exec, upload, download | several requests each, any of which is refused, lost or cut off by the context | a failed run leaves nothing, a successful copy is whole, calls end |
| Persistence (`mcptools/server.go`, `internal/state`) | request token, debounce timer, state file | request a write, write now, restore | snapshots taken and written without a lock; crash; failed restore | the file ends up with the last state; restart loses nothing persistent |
| Daemon process (`cmd/remote-shell-mcpd`, `internal/daemon`) | lock file, handle file, listener | start, shut down | crash and restart between any two files | one daemon; a readable handle leads to it |
| Launcher (`internal/launcher`, `cmd/remote-shell-mcp`) | line queue, one SSE stream, up to 128 POSTs | ensure daemon, connect, reconnect, forward lines | the daemon restarts under it; goroutines of old connections; launchers that kill each other's daemons | a line is delivered at most once and lost only when something broke; a launcher gets a daemon |
| Pure code: durations, addresses, port specs, modes, ssh_config, known_hosts | none | parse, normalise | boundaries, overflow | not modelled |
| SFTP file operations, RPC endpoint, setup, command line | none in the daemon | I/O | - | not modelled |

Interactions: tool handlers call the managers; `Session.close` and `Host.close`
drain shells and forwards before the client goes; a reconnect clears the client
(ending shells and SFTP) and rebinds forwards; every handler that changes what
is persistent asks for a write; shutdown writes, then closes all. The hazards
this gives rise to are listed at their lines in `PROJECT.json`.

## 2. Modules

### SSHManager

One step is one critical section of the code, or one network call with the
local computation after it. A tool call is a `Handlers` element with a program
counter `pc` and locals `hid`, `hs`, `hc`; the keepalive goroutine of a session
is identified with the session; `Main` runs `CloseAll`. `client`, `sftp`,
`agent`, `state`, `closed`, `ctx`, `spec` are the fields of `Session`; `rmu` and
`smu` are `reconnectMu` and `sftpMu`, `mmu` is `Manager.mu` where it is held over
several steps (everywhere else a critical section is one step). A transport is
`closed` (by us), `open`, `hung` or `dead`. `Drop`, `Hang` and `HangResolved` are
the network.

- `Sessions` and `Clients` are pools: an object that nothing refers to may be
  taken again, so the sets bound what is alive at once and not how many connects
  a behaviour has.
- `clearClient` closes what it detached after it has unlocked. The model closes
  in the same step: from the unlock on only this goroutine can reach the old
  transport, apart from a keepalive that read it before and whose answer could
  as well have come before the detach.
- `SftpNew` may succeed on a transport that has failed since the answer arrived,
  so only `sftpMu` keeps it from storing a client on a detached transport.
- `close()` drains the forwards and shells (`CloseDrain`) before it detaches the
  transport; what happens to them is in SSHForwards and ShellRegistry. Closing a -R
  listener waits for the server's reply, and so does listening again in
  `rebindForwards`: on a hung transport these steps are not promised to go on
  (`WaitsForReply`) until TCP gives up.
- `select` in `runKeepalive` may choose the tick although the context is
  cancelled; `attemptReconnect` looks at the context at the head of its loop.
- Jump hosts, active address, timestamps and error texts are left out; a failed
  dial leaves nothing behind, as in `dialFinal`.
- `EarlyReconnect` and `EarlyReuse` say what clients do: may `ssh_reconnect` name
  a session, and may `ssh_connect` reuse an id, whose `ssh_connect` has not
  returned? The code excludes neither. With two calls each of them breaks a
  property (known divergences), and the safety run and the theorems that need it
  say FALSE; `ssh_sequential` needs neither.

### ShellStream

The buffer, the wake token and the end of one shell, for the SSH and the Docker
variant (`kind`). Output is numbered chunks per stream; `given`, the sequence of
chunks returned, and `dropped`, the set of chunks `appendBuffer` cut off, are
history. A read's `check`, `look` and `wait` are the places where it holds no lock:
before `bufMu`, between `bufMu` and the load of `closed`, and in `select`.

### ShellRegistry

The table of shells of one session or host: `OpenShell` (begin, start, register
or refuse), `CloseShell`, `Shell.Close` step by step, the goroutine that notices
the end of each shell, and the drain in `Session.close`/`Host.close`. A second
`close(doneCh)` sets `panic`, after which nothing moves. `alive` is the
connection to the remote process.

### Persistence

What is on disk, over any number of lives of the daemon. `ssh`, `fwd` and `dk`
are what the managers hold (everything persistent, one forward per session);
`file` is `state.json`. A `PersistNow` under way, in the flusher, in `Stop` or in
a snapshot call, is a writer: `Capture` reads sessions, forwards and hosts in
three steps (`CaptureSSH`, `CaptureForwards`, `CaptureHosts`) and `Save` replaces
the file in a fourth, or fails. `req` is the one token of `flushReqCh`, `timer`
the debounce timer. A tool call arrives while the daemon serves and may act after
the shutdown has begun, since `Shutdown` waits for 5 s only.

- `ConnectBegin`, `ConnectOk`, `ConnectFails`, `ConnectRefused` and `Disconnect`
  are the effects of the calls of SSHManager on the session map, the delete by id
  of a failed dial included. What else happens to a session is left to that module.
- A session that still dials is in the map and is captured; if the dial fails
  nobody asks for a write, and its record stays until the next one.
- `Capture` goes by id: a forward it finds may be of another session that has the id by
  then. The connect of that session asks for a write of its own, which replaces the
  snapshot; which session an id stands for is not part of the state.
- `Restore` runs alone: the flusher is not started and nobody is served, so a
  session comes back in one step or not at all.
- `kept` is history: sessions whose record was written while they were connected
  and that nobody has given up since. Giving up is a disconnect, a failed
  `ssh_connect` of that id, or a restore that failed.
- The write to the temporary file and the rename are one step; the rename is what
  counts, and a crash before it leaves the file as it was.

### SSHForwards

The forwards map of one session with its listeners, accept loops and tunnelled
connections. `Handlers` open and cancel, `Reconnector` is whoever holds
`reconnectMu` (its dial and `rebindForwards`), `Closer` is in `Session.close`. An
open listener is a record of where it listens (`Host` or a transport), for which
forward, and whether its accept loop has started; a transport that goes takes its
listeners with it. `forwardsMu` is a variable because the drain holds it over
several `Forward.Close`; sections under `bindMu` are single steps.

- A local forward is a dynamic one without the SOCKS handshake, so the run has the
  kinds `dynamic` and `remote` and loses nothing.
- `missed` is history: -R forwards whose listen failed during a rebind, or that were
  registered with a listener on a transport a reconnect had replaced by then.
- `Forwards`, `Listeners` and `Clients` are pools, as in SSHManager; `Forget` returns
  an object to its pool when the last reference goes.

### RequestBridge and Proxy

`RequestBridge` is what the launcher promises its client, in three actions: a
request is submitted, delivered, or lost, and lost only once something broke or the
launcher was told to stop. `Proxy` is the code: the stdin goroutine, the reconnect
loop of `main`, and for every `Proxy.Run` its stream, watchdog, `lineSource`,
`readStdin` and POSTs. `Bridge` maps the queues of all Runs, leftover ones included
(`Carried`), to the status of each request (`StatusOf`), and `BridgeRefined` says
that every step of `Proxy` is a step of `RequestBridge` or leaves it as it is.

- The channels have capacities `LinesCap`, `OutCap` and `MaxInFlight` (32, 16 and 128
  in the code).
- A POST that fails may have reached the daemon with only its answer lost. The line
  is not sent again.
- When input ends, lines still in `out` may be dropped, since `readStdin`'s `select`
  may choose `readDoneCh` first: closing stdin counts as breaking the bridge.
- The daemon is an incarnation number, odd when up; a new one has a new token.
  `DaemonStarts` stands for Rendezvous.

### Rendezvous

Launchers and daemons around `daemon.lock` and `daemon.json`. `flock` locks an
inode and `Remove` works on a path, so the lock file is what `path` names, with a
`holder` and a `pid` per inode. A daemon goes through open, flock, truncate, pid,
listen, publish and load before it serves; SIGINT kills it before its signal
handler is there, and starts the shutdown afterwards. A launcher looks, removes the
handle, reads the pid, interrupts, kills after a while, spawns and waits.

- `Fault` is a crash, a stop by the user, or a daemon that gets stuck in its shutdown
  with its listener closed (`CloseAll` behind a transport that hangs).
- `WaitForHandle` gives up only when no daemon is starting: its 10 s are longer than
  a daemon takes.
- `unlinked` is history: a `Release` removed a lock file that another daemon had open.
- A pid that nothing refers to may be used again. That an unrelated process has the
  pid left in the lock file, or the port left in the handle, is not modelled.

### DockerHosts

The map of hosts with the two layers of each connection, and the calls that go
through them. A call that needs the engine stops at a request; `Serve` is the
engine acting, `Answer`, `Refuse` and `RequestLost` what comes back, and one operator
per operation (`RunNext`, `ExecNext`, `LogsNext`, `DownloadNext`, `SimpleNext`) says
where the code goes from there. `pump` is the tar goroutine of an upload with the
state of its pipe, or the body of a download; `proc` is the process an exec started.

- The docker client of a plain host still works, after `Host.close`, for a call that
  has it; over ssh nothing works once the connection is closed or lost.
- `PullImage` takes the client again, in the middle of `Run`.
- `tw.Close` leaves out the trailer when the last file has shrunk, and its error is
  dropped (`copy.go:44`): `PumpShort` ends the pipe cleanly with less than the archive,
  which the engine refuses.
- A download takes any clean end of the body for the end of the archive
  (`copy.go:171`). That the engine ends it cleanly only behind the last entry, and that
  a broken connection is an error of the reader, is `BodyEnds`, an assumption about the
  engine. Links in a tree are skipped, as the code says; a single file is the first
  entry of whatever type.
- A container goes through created, running and exited; other calls and its own
  exit change it at any time.

## 3. Runs

| Run | Instance | What it shows |
|-|-|-|
| `ssh_safety` | 1 id, 2 sessions, 3 transports, 2 calls; plain and auto-reconnect with agent | `TypeOK`, `ClosedHoldsNothing`, `SftpRidesClient`, `NoLeakedTransport`, `NoOrphan`, `StatusTruthful`, `NeverOverwrites` hold, given that clients neither reconnect a session nor reuse its id before its `ssh_connect` has returned (1.5 million states) |
| `ssh_sequential` | 2 ids, 2 sessions, 3 transports, 1 call, no restriction on ids | a client that calls one thing at a time, clones included, needs neither of the two assumptions |
| `ssh_liveness` | 1 id, 1 session, 2 transports, 1 call; both keepalives | `AutoReconnects`, `LossIsShown`, `KeepaliveStops`, `CallsReturn`; the last with one exception, an `ssh_reconnect` behind a keepalive whose dials fail for ever |
| `shell_stream` | 2 streams of 2 chunks, buffer of 2, 2 reads | `TypeOK`, `NoLostWakeup`, `InOrder`, `OnlyOldestLost`, `ReadsReturn` |
| `shell_registry` | 2 ids, 3 shells, 2 calls, the drain | `TypeOK`, `NoStrayProcess`, `ClosedSessionIsEmpty`, `RemovesOnlyEnded` |
| `shell_panic` | the same | finding: `NoPanic` fails |
| `persistence` | 1 session id, 1 Docker host, 1 call, flusher, main | `TypeOK`, `RecordsStay`, `ShutdownKeeps`, `ReachesDisk`, `ForwardsReachDisk` (110 000 states) |
| `forwards` | 1 id, 2 forwards, 3 listeners, 2 transports, 1 connection, 1 call beside the reconnect and the close | `NoLeakedListener`, `ForwardsListen`, `ForwardsEnd` (450 000 states) |
| `proxy` | 2 lines, 3 Runs alive, 1 fault, queues of 1, 2 POSTs | `BridgeRefined`, `BridgeRecovers`, `ExitsWhenClosed` (220 000 states) |
| `proxy_dead` | 1 line, 2 Runs | finding: `NoDeadReader` fails |
| `rendezvous` | 3 daemons, 2 launchers, 2 inodes, 1 fault | `OneDaemon`, `NoOrphanDaemon`, `GetsDaemon` (390 000 states) |
| `docker` | 1 id, a plain and an ssh host, 1 container, archives of 2 entries, 2 calls, 1 lost connection | `ConnsAccounted`, `NoHusk`, `CopiesWhole`, `CallsEnd` (320 000 states) |

The findings, with the lines they contradict, are in `PROJECT.json`.

### Known divergences

Disagreements between the code and what it says of itself that the models show.
The first two have a run; the others are reached by giving the constant or the
property named here to an existing configuration.

- `shell_panic`: `Shell.Close` and the shell's goroutine may both close `doneCh`.
- `proxy_dead`: the goroutines of a Run that has returned go on reading lines.
- `ssh_safety` with `EarlyReuse = TRUE`: `NoOrphan` fails. When its dial fails, `Connect`
  deletes whatever entry the id has by then (`manager.go:54`); its other error path
  asks `existing == sess` first.
- `ssh_safety` with `EarlyReconnect = TRUE`: `NoLeakedTransport` fails. `Connect` does not
  take `reconnectMu`, so an `ssh_reconnect` meanwhile dials too, and `setClient`
  overwrites (`session.go:87`).
- `shell_registry` with `NoDeadListed`: a process that ends before `OpenShell` registers
  its shell is removed first and listed afterwards (`shell.go:239` and 258).
- `persistence` with `SnapshotIsFence`: `PersistNow` captures and saves without a lock
  (`server.go:104`), so a snapshot call and the flusher may save in the other order;
  `meta.go:29` calls it a fence.
- `rendezvous` without the excuse `unlinked`: `Release` removes a lock file that another
  daemon has locked meanwhile (`lock.go:50`), and two daemons can serve.
- `forwards` without the excuse `missed`: a -R forward opened during a reconnect may stay
  on the old transport (`forward.go:211`).
- `ssh_liveness` without the exception in `CallsReturn`: `ssh_reconnect` waits for
  `reconnectMu` (`manager.go:112`) as long as the keepalive's backoff loop
  (`manager.go:213`) runs against a host that stays down, for ever if need be.
- `docker`, by reading: the download of a single file takes the first entry whatever it
  is, so a symlink becomes an empty file (`copy.go:147`); the comment above it expects
  exactly one regular file.
- `docker`: an exec whose timeout is over returns and leaves its process running
  (`container.go:305`); the tool's description says it is force-killed.

Bounds. Two calls, a keepalive and `Main` are four goroutines on one session:
every race listed as a hazard is between two or three. Three transports are one
installed, one being dialed and one a keepalive still holds. A second session
lets an id be reused while the first is being closed. A buffer of two chunks
with four to come overflows; two reads are one that swallows the token and one
that needs it. Three shells over two ids are one ending, one that has its id,
and one beside them. Two calls, the flusher and `Stop` are
all the writers that can meet, and one session id is enough for a record to be
lost; the other ids would be captured and saved in the same steps. The run
`persistence` has one call, so that its liveness can be checked too; that two calls
change nothing for its safety properties is what the theorems say, for any number.

`forwards`: one call against a reconnect and a close are the three that meet at a
forward; two forward objects let an id be cancelled and opened again while the
reconnect still holds the old object, three listeners are its old one, its new one
and the other forward's. `proxy`: three Runs are two left over and the current one;
queues of one fill up with two lines; one fault is enough for each way to lose a
connection, and failed POSTs, signals and end of input are not bounded.
`rendezvous`: three daemons are one going, one coming and one that finds the lock
held; two launchers can take each other's daemon for stale. `docker`: two calls on
one container and one id; a tree of two entries can be copied in part, before, between
and in its entries. Of the second
call's operations `stop`, `restart`, `kill` and `rm -f` are left to the model, since
`start` and `rm` move a container between the same states.

Symmetry is used in the safety runs only. Deadlock is not checked where the system
may really stop: `proxy` (the launcher has exited), `docker` (shut down, all calls
over), `forwards` (session closed), and `rendezvous`, where the pools of pids and inodes can be
exhausted by launchers that wait beside an unlinked lock file.

Fairness. `SSHManager`: a goroutine that can run does (WF), unless it waits for a
reply on a hung transport; a dial ends, well or not, and nothing makes it work; locks
and `select` are not unfair for ever (SF; Go mutexes hand over to starving waiters, and
`select` chooses at random); TCP gives up on a hung connection. Nothing makes clients
call, the network fail, or the daemon stop. `AutoReconnects` excludes connections or
dials that fail for ever. `CallsReturn` holds without that excuse but for one call: an
`ssh_reconnect` that waits for ever while the keepalive of its session holds
`reconnectMu` and its dials fail for ever. It is checked with one call beside the
keepalive and the shutdown; two are beyond what TLC can do for liveness here.
`ShellStream`: pumps, enders and reads that can move do; timers are not relied
on, and nothing makes a process end or a client close. `Persistence`: goroutines
that can run do, dials end, and a timer that runs fires unless requests start it
again for ever, which is why `ReachesDisk` and `ForwardsReachDisk` exclude calls that
never stop. Nothing
makes writes work: a failed one is not repeated. `SSHForwards`: goroutines run, dials
end (30 s at most, or with the transport), a copy over a dead transport ends, and a
peer whose connection was half-closed hangs up; the code sets no deadline for that
last one, so it is an assumption about peers. `Proxy`: goroutines run, a daemon is
started again, a POST is answered or fails. `Rendezvous`: the operating system runs
every process. `DockerHosts`: goroutines run, the engine answers what reaches it, and
the context of an exec ends, which `execContext` sees to; no other call has a timeout,
so without an answer it waits until its client gives up. It is also assumed that the
handshake of `ssh.Dial` ends (`connect.go:93` bounds only the TCP connect) and that
`os.Open` of a file to upload returns (`copy.go:100`), which it does not for a FIFO.
`NoHusk` leaves out runs whose context or connection is gone when the clean-up, which
shares them, is due.

## 4. Proofs

Every invariant and every action property that a run checks, and the refinement
`BridgeRefined`, is also a theorem of the specification, for every value of the
constants that satisfies the module's assumption. A component's theorems are in the
module `<component>Proofs`. Each rests on one inductive invariant, which TLC has
checked on the instance of the component's run before it was proved; the proof that a
step preserves it has one step per action.

`SSHManagerProofs`, whose invariants build on each other:

1. `TypeCorrect`: `TypeOK`, which includes that a call under way has its session.
2. `ClosedStaysEmpty`: `ClosedHoldsNothing`. It is not inductive by itself. The
   strengthening `LockInv` says who owns what: a dialed transport is in the hands
   of whoever installs it; `sftp.NewClient` runs under `sftpMu` on a session that
   has a client, so `clearClient` cannot pass it; `close()` works on a session
   already marked closed and cancels the keepalive before it detaches; a
   reconnect under way holds `reconnectMu`.
3. `ClientNeverOverwritten` and `SftpFollowsClient`, assuming `~EarlyReconnect`:
   `SlotInv` adds that nobody else connects or reconnects a session in
   `ssh_connect`, that whoever dials finds the slot empty, and that the transport
   under an SFTP client being built is still the session's.
4. `NothingLeaks`, assuming `~EarlyReconnect`: `NoLeakedTransport` from the same
   invariants.
5. `NoOrphanEver`, assuming `~EarlyReconnect` and `~EarlyReuse`: `NoOrphan`. It says
   nothing of a session that is being dialed, so `MapInv` says it of every session in
   use: an open session that has a transport, or for which a connect, a reconnect or a
   keepalive is under way, is in the map or in the hands of a `close()` that has not
   won its CAS yet (`ReachInv`). That a failed connect may delete its entry by id
   needs `EntryInv` (the entry of a connect's id is its own or gone) and `SlotInv`
   (nobody else uses the session).
6. `StatusStaysTruthful`, assuming `~EarlyReconnect`: `StatusTruthful`. `StatusInv` says
   that the state follows the client even of a session that is not settled, except
   between `clearClient` and the `markState` after it, and that the connect that marks a
   session connected because of its agent still has its transport.

The two assumptions are about clients; without them TLC finds counterexamples to
`NoLeakedTransport` and `NoOrphan` (known divergences).

`ShellStreamProofs`: `WakeupsNeverLost` (`NoLostWakeup`), where the strengthening
`WakeInv` owes the hint already to a read that has found the buffer empty and is on
its way to `select`; `StreamTypeCorrect` (`TypeOK`, the limit of the buffer with it) and
`OutputStaysInOrder` (`InOrder`) from `OrderInv`, which adds that nothing is newer than
the last chunk its pump has read; `OnlyOldestIsLost` (`OnlyOldestLost`), because
`appendBuffer` cuts off a prefix of a sequence that `OrderInv` says is in order.

`ShellRegistryProofs`: `RegistryTypeCorrect`, `NoStrayProcessEver`,
`ClosedSessionStaysEmpty` and the action property `OnlyEndedRemoved`
(`RemovesOnlyEnded`). `RegistryInv` adds that an entry is found under its shell's id, how
far the end of a shell has got at each point of `Shell.Close`, and that the drain holds
`shellsMu` from its first entry to its last.

`SSHForwardsProofs`: `NoListenerLeaksEver` (`NoLeakedListener`) and `ForwardsListenAlways`
(`ForwardsListen`). `ForwardsInv` is about ownership: a forward is known to its own call
alone until it is registered, then it has one id, then one closer; whatever
`rebindForwards` still has in its snapshot is closed, in the map or about to be closed;
a listener belongs to the forward it was opened for and has an owner at every moment,
the two moments in a rebind included when a forward has an old and a new one.

`DockerHostsProofs`: `ConnsAlwaysAccounted`, `NoHuskEver` and `CopiesAlwaysWhole`.
`DockerInv` adds that a connection has one owner, an id or a call; that a call is at a
point of its operation; what a run knows of its container at each point; and that the
pipe of an upload and the body of a download end without an error only behind the last
entry, or short of the trailer, which the engine refuses.

`RendezvousProofs`: `OneDaemonAtATime` and `NoOrphanDaemonEver`. `RendezvousInv` says that a
daemon past `Flock` holds the flock of the inode it has open, that the pid in it is its
own, and that all daemons have the inode at the path open as long as no `Release` has
removed the lock file of another (`unlinked`, as in the properties).

`ProxyProofs`: `BridgeImplements` (`BridgeRefined`): the initial states map to the initial
state of `RequestBridge`, and every step to a submit, a delivery, a loss, or nothing. It
needs `BridgeInv` (`LinesStayApart`): a line is in one place, be it `linesCh`, the hands or
the queue of one Run, or a POST, so that moving it between places is a stutter and
taking it out of its place is one delivery or one loss; and a goroutine that may drop
lines has seen a failure, the end of input or a signal, so that a loss comes after
`broken`.

`PersistenceProofs`, for any ids, hosts and tool calls:

1. `TypeCorrect`: `TypeOK`.
2. `RecordsAreKept`: `RecordsStay`, and 3. `ShutdownSaves`: `ShutdownKeeps`. Both
   follow from `WriteInv`: there is one writer at a time (`OneWriter`: the flusher
   until it ends, then `Stop`); a kept session is in the map, or yet to be
   restored, and in every snapshot already taken (`KeptInv`); and what was
   connected when `Stop` began is on its way from the map to the file
   (`StoppedInv`). With the snapshot tool there is a second writer, and
   `SnapshotIsFence` fails.

Assumptions on constants, one per module (`ConstantsAssumption`, `StreamAssumption`,
`RegistryAssumption`, `WritersAssumption`, `ForwardsAssumption`, `ProxyAssumption`,
`RendezvousAssumption`, `DockerAssumption`): sets are disjoint where the program has
different things, `None` is none of them, bounds are numbers, and channels and the
buffer hold at least one element. TLC evaluates them on the component's runs.

Only model-checked: liveness (`AutoReconnects`, `LossIsShown`, `KeepaliveStops`,
`CallsReturn`, `ReadsReturn`, `ReachesDisk`, `ForwardsReachDisk`, `ForwardsEnd`, `BridgeRecovers`,
`ExitsWhenClosed`, `GetsDaemon`, `CallsEnd`), since fairness and ENABLED are out of the
prover's reach, and what the two runs that end in a violation show.

## 5. Plan

Models left to write, in this order: the secrets of a session as state of `Persistence`
(`ScrubSSH` shares the jump hosts of the live session); Exec in `SSHManager`;
`ShellStream` and `ShellRegistry` composed, for the output that is lost when a shell
leaves the table; operators for durations, port specs and octal modes against reference
definitions.

Proofs left: the safety facts that the liveness properties rest on (in every state in
which a call waits for a lock, somebody who will release it holds it); the refinement of
the session map in `Persistence` by `SSHManager`.

## 6. Not modelled

- SFTP file operations, the RPC endpoint and token check, setup and the command line:
  sequential, and they keep no state in the daemon; setup edits configuration files
  of other programs.
- The inside of a dial: address order, jump hosts, authentication, known_hosts and
  ssh_config. A dial gives a transport or fails.
- One-shot SSH commands (`Exec`), which open a channel and keep nothing.
- Secrets, timestamps, error texts, output formats, logging.
- Windows: its lock, and its way to end processes.
- The MCP, SSE, SSH and Docker libraries, which are modelled only by what the code
  relies on.
