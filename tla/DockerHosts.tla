---------------------------- MODULE DockerHosts ----------------------------
(***************************************************************************)
(* Docker hosts and the tool calls that work through them                  *)
(* (internal/dockerx: manager.go, connect.go, container.go, image.go,      *)
(* run.go, copy.go; handlers in internal/mcptools/docker.go): the map of   *)
(* hosts and their connections, containers created, started and removed,   *)
(* one-shot execs, and trees copied in and out.                            *)
(*                                                                         *)
(* A call that needs the engine stops at a request point: the engine acts  *)
(* (Serve), the answer comes back or is lost (Answer), and a function per  *)
(* operation (RunNext, ExecNext...) says where the code goes from there.   *)
(* Shells are in ShellRegistry, the Persist after connect and disconnect   *)
(* in Persistence.                                                         *)
(***************************************************************************)
EXTENDS Naturals, FiniteSets

CONSTANTS
  Ids,         \* host ids
  Hosts,       \* *Host objects referred to at the same time (bound)
  SSHHosts,    \* those of them that are reached over ssh://
  Containers,  \* containers of the engine (bound)
  Calls,       \* concurrent tool calls
  Ops,         \* the operations a call may be (bound)
  NEntries,    \* entries of the tree an upload or a download copies (bound)
  MaxFaults,   \* ssh connections lost (bound)
  Closer,      \* the goroutine in CloseAll
  None

ContainerOps == {"start", "stop", "restart", "kill", "rm", "rm -f"}
OtherOps == {"connect", "disconnect", "look", "image", "logs", "run",
             "exec", "upload", "download"}

ASSUME DockerAssumption ==
  /\ NEntries \in Nat /\ MaxFaults \in Nat
  /\ None \notin Hosts \cup Containers \cup Ids /\ Closer \notin Calls
  /\ SSHHosts \subseteq Hosts
  /\ Ops \in [Calls -> SUBSET (ContainerOps \cup OtherOps)]

VARIABLES
  hosts,    \* Manager.hosts
  mu,       \* who holds Manager.mu across steps
  down,     \* the daemon shuts down: no new calls
  conn,     \* hosts whose conn is not nil
  docker,   \* docker clients not closed, by host
  ssh,      \* ssh connections not closed, by host
  cut,      \* ssh hosts whose connection is lost
  call,     \* program point and locals of every call
  pump,     \* Upload: the tar goroutine and the state of its pipe;
            \* Download: the state of the answer's body
  proc,     \* the process an exec started in its container
  ctr,      \* the engine: state of every container
  faults

hostVars == <<hosts, mu, down, conn, docker, ssh>>
vars == <<hostVars, cut, call, pump, proc, ctr, faults>>

Idle == [pc |-> "idle", op |-> "look", id |-> None, h |-> None, x |-> None,
         served |-> FALSE, ended |-> FALSE, lost |-> FALSE, n |-> 0]
NoPump == [run |-> FALSE, pipe |-> "closed"]

Init ==
  /\ hosts = [i \in Ids |-> None] /\ mu = None /\ down = FALSE
  /\ conn = {} /\ docker = {} /\ ssh = {} /\ cut = {}
  /\ call = [c \in Calls |-> Idle]
  /\ pump = [c \in Calls |-> NoPump]
  /\ proc = [c \in Calls |-> "none"]
  /\ ctr = [x \in Containers |-> "absent"]
  /\ faults = 0

Goto(c, p) == call' = [call EXCEPT ![c].pc = p]

\* A call that returns, with "ok" or "err".  What it did is kept for the
\* operations whose outcome a property is about.
Returned(r, res) ==
  LET done == [Idle EXCEPT !.pc = res, !.op = r.op]
  IN  CASE r.op = "run"  -> [done EXCEPT !.x = r.x, !.lost = r.lost]
        [] r.op \in {"upload", "download"} -> [done EXCEPT !.n = r.n]
        [] r.op = "exec" -> done
        [] OTHER -> Idle
Return(c, res) == call' = [call EXCEPT ![c] = Returned(@, res)]

\* The caller has the result; the slot is free once the tar goroutine ended.
Leave(c) ==
  /\ call[c].pc \in {"ok", "err"} /\ ~pump[c].run
  /\ call' = [call EXCEPT ![c] = Idle]
  /\ pump' = [pump EXCEPT ![c] = NoPump]
  /\ proc' = [proc EXCEPT ![c] = "none"]
  /\ UNCHANGED <<hostVars, cut, ctr, faults>>

-----------------------------------------------------------------------------
(* Manager: Connect, Disconnect, CloseAll                                  *)

FreshHost(h) ==
  /\ \A i \in Ids : hosts[i] # h
  /\ \A c \in Calls : call[c].h # h
  /\ h \notin docker \cup ssh

\* hostConn.close: the docker client, then the ssh connection under it.
CloseConn(h) == docker' = docker \ {h} /\ ssh' = ssh \ {h}

\* Host.close past its CAS: the connection goes, client() fails from now on.
HostClose(h) == CloseConn(h) /\ conn' = conn \ {h}

\* handleDockerConnect, and the first look of Connect.
ConnectBegin(c) ==
  /\ call[c].pc = "idle" /\ ~down /\ mu = None
  /\ "connect" \in Ops[c]
  /\ \E i \in Ids :
       /\ hosts[i] = None
       /\ call' = [call EXCEPT ![c].pc = "dial", ![c].id = i]
  /\ UNCHANGED <<hostVars, cut, pump, proc, ctr, faults>>

\* dialDocker, up to the ping: ssh.Dial for ssh:// hosts, then client.New.
Dial(c) ==
  /\ call[c].pc = "dial"
  /\ \E h \in Hosts :
       /\ FreshHost(h)
       /\ ssh' = ssh \cup ({h} \cap SSHHosts)
       /\ docker' = docker \cup {h}
       /\ cut' = cut \ {h}
       /\ call' = [call EXCEPT ![c].pc = "ping", ![c].h = h]
  /\ UNCHANGED <<hosts, mu, down, conn, pump, proc, ctr, faults>>

\* ssh.Dial or client.New fails: what was open is closed again.
DialFails(c) ==
  /\ call[c].pc = "dial"
  /\ Return(c, "err")
  /\ UNCHANGED <<hostVars, cut, pump, proc, ctr, faults>>

Ping(c) ==
  /\ call[c].pc = "ping"
  /\ Goto(c, "register")
  /\ UNCHANGED <<hostVars, cut, pump, proc, ctr, faults>>

\* The ping fails or its own timeout ends: both layers are closed.
PingFails(c) ==
  /\ call[c].pc = "ping"
  /\ CloseConn(call[c].h)
  /\ Return(c, "err")
  /\ UNCHANGED <<hosts, mu, down, conn, cut, pump, proc, ctr, faults>>

\* Mutant: the second connect forgets its connection.
MutKeepConn(h) == UNCHANGED <<docker, ssh>>

\* "created concurrently": the second of two connects closes what it dialled.
DropDuplicate(h) == CloseConn(h)

\* The end of Connect, under mu.
Register(c) ==
  LET h == call[c].h
      i == call[c].id
  IN  /\ call[c].pc = "register" /\ mu = None
      /\ \/ /\ hosts[i] = None
            /\ hosts' = [hosts EXCEPT ![i] = h]
            /\ conn' = conn \cup {h}
            /\ Return(c, "ok")
            /\ UNCHANGED <<docker, ssh>>
         \/ /\ hosts[i] # None
            /\ DropDuplicate(h)
            /\ Return(c, "err")
            /\ UNCHANGED <<hosts, conn>>
      /\ UNCHANGED <<mu, down, cut, pump, proc, ctr, faults>>

\* handleDockerDisconnect: Disconnect takes the host out of the map...
DisconnectBegin(c) ==
  /\ call[c].pc = "idle" /\ ~down /\ mu = None
  /\ "disconnect" \in Ops[c]
  /\ \E i \in Ids :
       /\ hosts[i] # None
       /\ hosts' = [hosts EXCEPT ![i] = None]
       /\ call' = [call EXCEPT ![c].pc = "close", ![c].h = hosts[i]]
  /\ UNCHANGED <<mu, down, conn, docker, ssh, cut, pump, proc, ctr, faults>>

\* ...and closes it after mu is released.
DisconnectEnd(c) ==
  /\ call[c].pc = "close"
  /\ HostClose(call[c].h)
  /\ Return(c, "ok")
  /\ UNCHANGED <<hosts, mu, down, cut, pump, proc, ctr, faults>>

\* CloseAll keeps mu while it closes host after host.
CloseAllBegin ==
  /\ mu = None /\ ~down
  /\ mu' = Closer /\ down' = TRUE
  /\ UNCHANGED <<hosts, conn, docker, ssh, cut, call, pump, proc, ctr, faults>>

CloseAllOne ==
  /\ mu = Closer
  /\ \E i \in Ids :
       /\ hosts[i] # None
       /\ HostClose(hosts[i])
       /\ hosts' = [hosts EXCEPT ![i] = None]
  /\ UNCHANGED <<mu, down, cut, call, pump, proc, ctr, faults>>

CloseAllEnds ==
  /\ mu = Closer /\ \A i \in Ids : hosts[i] = None
  /\ mu' = None
  /\ UNCHANGED <<hosts, down, conn, docker, ssh, cut, call, pump, proc, ctr, faults>>

-----------------------------------------------------------------------------
(* The handlers: Manager.Get under mu, Host.client under the host's mutex  *)

\* Get finds the host; what the call does first is still to be read.
Begin(c, o, x) ==
  /\ call[c].pc = "idle" /\ ~down /\ mu = None
  /\ o \in Ops[c]
  /\ \E i \in Ids :
       /\ hosts[i] # None
       /\ call' = [call EXCEPT ![c] = [Idle EXCEPT !.pc = "client", !.op = o,
                                       !.h = hosts[i], !.x = x]]
  /\ UNCHANGED <<hostVars, cut, pump, proc, ctr, faults>>

\* docker_containers and docker_inspect only read.
LookBegin(c) == \E x \in Containers : Begin(c, "look", x)
\* docker_start, stop, restart, kill and remove.
ContainerBegin(c) == \E o \in ContainerOps, x \in Containers : Begin(c, o, x)
LogsBegin(c) == \E x \in Containers : Begin(c, "logs", x)
\* docker_image_pull; docker_image_list and remove are one request as well.
ImageBegin(c) == Begin(c, "image", None)
RunBegin(c) == Begin(c, "run", None)
ExecBegin(c) == \E x \in Containers : Begin(c, "exec", x)
UploadBegin(c) == \E x \in Containers : Begin(c, "upload", x)
DownloadBegin(c) == \E x \in Containers : Begin(c, "download", x)

FirstRequest(o) ==
  CASE o \in ContainerOps \cup {"look"} -> {"op"}
    [] o = "image"        -> {"pull"}
    [] o = "logs"         -> {"logs"}
    [] o = "run"          -> {"probe", "create"}
    [] o = "exec"         -> {"exec create"}
    [] o = "upload"       -> {"put"}
    [] o = "download"     -> {"get"}

\* Host.client, and what each operation does before its first request: Upload
\* starts the goroutine that writes the tar into the pipe.
Client(c) ==
  LET o == call[c].op
  IN  /\ call[c].pc = "client" /\ call[c].h \in conn
      /\ \E p \in FirstRequest(o) : Goto(c, p)
      /\ pump' = IF o = "upload"
                 THEN [pump EXCEPT ![c] = [run |-> TRUE, pipe |-> "open"]]
                 ELSE pump
      /\ UNCHANGED <<hostVars, cut, proc, ctr, faults>>

\* "is disconnected", or an argument is refused: no image, no command, a local
\* path that Lstat does not find.
ClientFails(c) ==
  /\ call[c].pc = "client"
  /\ call[c].h \notin conn \/ call[c].op \in {"run", "exec", "upload"}
  /\ Return(c, "err")
  /\ UNCHANGED <<hostVars, cut, pump, proc, ctr, faults>>

-----------------------------------------------------------------------------
(* Where the code goes after an answer: ok says the request succeeded      *)

SimpleNext(p, ok) == IF ok THEN "ok" ELSE "err"

\* Logs inspects the container while it holds the log stream, and then reads
\* the stream to its end.
LogsNext(p, ok) ==
  CASE ~ok           -> "err"
    [] p = "logs"    -> "inspect"
    [] p = "inspect" -> "drain"
    [] p = "drain"   -> "ok"

\* Mutant: no clean-up after a failed start.
MutRunNext(p, ok) ==
  CASE p = "probe"   -> IF ok THEN "create" ELSE "pull"
    [] p = "pull"    -> IF ok THEN "create" ELSE "err"
    [] p = "create"  -> IF ok THEN "start" ELSE "err"
    [] p = "start"   -> IF ok THEN "ok" ELSE "err"
    [] p = "cleanup" -> "err"

\* Run: pull what the probe did not find, create (a port that does not parse
\* fails like a refused create), start; a container that does not start is
\* removed, whatever the removal says.
RunNext(p, ok) ==
  CASE p = "probe"   -> IF ok THEN "create" ELSE "pull"
    [] p = "pull"    -> IF ok THEN "create" ELSE "err"
    [] p = "create"  -> IF ok THEN "start" ELSE "err"
    [] p = "start"   -> IF ok THEN "ok" ELSE "cleanup"
    [] p = "cleanup" -> "err"

\* Exec: create, attach, wait for the output to end, inspect the exit code.
ExecNext(p, ok) ==
  CASE ~ok                -> "err"
    [] p = "exec create"  -> "attach"
    [] p = "attach"       -> "wait"
    [] p = "exec inspect" -> "ok"

DownloadNext(p, ok) == IF ok THEN "extract" ELSE "err"

After(c, ok) ==
  LET o == call[c].op
      p == call[c].pc
  IN  CASE o = "run"      -> RunNext(p, ok)
        [] o = "exec"     -> ExecNext(p, ok)
        [] o = "logs"     -> LogsNext(p, ok)
        [] o = "download" -> DownloadNext(p, ok)
        [] OTHER          -> SimpleNext(p, ok)

Requests == {"op", "logs", "inspect", "drain", "probe", "pull", "create", "start", "cleanup",
             "exec create", "attach", "exec inspect", "put", "get"}

-----------------------------------------------------------------------------
(* The engine, and the way to it                                           *)

\* The docker client of a closed plain host still works for a call that took
\* it before; over ssh nothing does once the connection is closed.
Reach(c) ==
  /\ ~call[c].ended
  /\ call[c].h \notin cut
  /\ call[c].h \in SSHHosts => call[c].h \in ssh

\* What a request does to the containers, if anything.
Verb(c) ==
  CASE call[c].pc = "op"      -> call[c].op
    [] call[c].pc = "cleanup" -> "rm -f"
    [] OTHER -> call[c].pc

Acts(c) == Verb(c) \in ContainerOps \cup {"create", "attach"}

Unclaimed(x) == ctr[x] = "absent" /\ \A c \in Calls : call[c].x # x

\* PullImage takes the client again, in the middle of Run; an error message
\* in its progress stream counts as a refusal.
MayPull(c) == call[c].h \in conn

\* What the engine does to a container when it accepts a request.
EngineDoes(c) ==
  LET x == call[c].x
      To(s) == ctr' = [ctr EXCEPT ![x] = s]
  IN  CASE Verb(c) \in {"start", "restart"} -> ctr[x] # "absent" /\ To("running")
        [] Verb(c) = "stop"  -> ctr[x] \in {"running", "exited"} /\ To("exited")
        [] Verb(c) = "kill"  -> ctr[x] = "running" /\ To("exited")
        [] Verb(c) = "rm"    -> ctr[x] \in {"created", "exited"} /\ To("absent")
        [] Verb(c) = "rm -f" -> ctr[x] # "absent" /\ To("absent")
        [] Verb(c) = "attach" -> ctr[x] = "running" /\ ctr' = ctr

Serve(c) ==
  /\ call[c].pc \in Requests /\ ~call[c].served /\ Reach(c) /\ Acts(c)
  /\ \/ /\ Verb(c) = "create"
        /\ \E x \in Containers :
             /\ Unclaimed(x)
             /\ ctr' = [ctr EXCEPT ![x] = "created"]
             /\ call' = [call EXCEPT ![c].served = TRUE, ![c].x = x]
     \/ /\ Verb(c) # "create" /\ EngineDoes(c)
        /\ call' = [call EXCEPT ![c].served = TRUE]
  /\ proc' = IF Verb(c) = "attach" THEN [proc EXCEPT ![c] = "runs"] ELSE proc
  /\ UNCHANGED <<hostVars, cut, pump, faults>>

\* What the call does with the outcome of its request.  The HTTP transport
\* closes the request's body when the request is over; the answer to a
\* download has a body of its own.
Proceed(c, ok, lost) ==
  LET p == After(c, ok)
      r == [call[c] EXCEPT !.pc = p, !.served = FALSE, !.lost = @ \/ lost]
  IN  /\ call' = [call EXCEPT ![c] = IF p \in {"ok", "err"} THEN Returned(r, p) ELSE r]
      /\ pump' = [pump EXCEPT ![c].pipe = CASE call[c].pc = "put" -> "closed"
                                            [] call[c].pc = "get" /\ ok -> "open"
                                            [] OTHER -> @]
      /\ UNCHANGED <<hostVars, cut, proc, ctr, faults>>

\* An archive is accepted at its end, if its last entry is whole.
Answer(c) ==
  /\ call[c].pc \in Requests /\ Reach(c)
  /\ Acts(c) => call[c].served
  /\ call[c].pc = "put" => pump[c].pipe = "eof"
  /\ call[c].pc = "pull" => MayPull(c)
  /\ Proceed(c, TRUE, FALSE)

\* The engine says no (a port is taken, no such container, the archive breaks
\* off...); it removes by force whatever is there.
Refuse(c) ==
  /\ call[c].pc \in Requests /\ ~call[c].served /\ Reach(c)
  /\ call[c].pc = "cleanup" => ctr[call[c].x] = "absent"
  /\ Proceed(c, FALSE, FALSE)

\* The context has ended or the engine is out of reach, before or after it
\* acted.
RequestLost(c) ==
  /\ call[c].pc \in Requests /\ ~Reach(c)
  /\ Proceed(c, FALSE, TRUE)

\* The transport reports an error of the request's body as its own.
BodyFails(c) ==
  /\ call[c].pc = "put" /\ pump[c].pipe = "error"
  /\ Proceed(c, FALSE, FALSE)

-----------------------------------------------------------------------------
(* Exec, and the copies                                                    *)

\* StdCopy saw the end of the output.
ExecOutput(c) ==
  /\ call[c].pc = "wait" /\ proc[c] = "ended" /\ Reach(c)
  /\ Goto(c, "exec inspect")
  /\ UNCHANGED <<hostVars, cut, pump, proc, ctr, faults>>

\* Mutant: the wait does not look at ctx.Done.
MutExecStops(c) == ~call[c].ended /\ ~Reach(c)

\* What ends the wait early: ctx.Done, or an error of the attached stream.
ExecStops(c) == ~Reach(c)

\* The call returns and drops the stream; nobody tells the process.
ExecTimeout(c) ==
  /\ call[c].pc = "wait" /\ ExecStops(c)
  /\ Return(c, "err")
  /\ UNCHANGED <<hostVars, cut, pump, proc, ctr, faults>>

\* The pipe has no buffer: an entry is written while the engine reads it.
PumpEntry(c) ==
  /\ pump[c] = [run |-> TRUE, pipe |-> "open"]
  /\ call[c].n < NEntries /\ ~call[c].served /\ Reach(c)
  /\ call' = [call EXCEPT ![c].n = @ + 1]
  /\ UNCHANGED <<hostVars, cut, pump, proc, ctr, faults>>

\* The walk is over: tw.Close writes the trailer, pw.Close ends the stream.
PumpEnds(c) ==
  /\ pump[c] = [run |-> TRUE, pipe |-> "open"]
  /\ call[c].n = NEntries /\ ~call[c].served /\ Reach(c)
  /\ pump' = [pump EXCEPT ![c] = [run |-> FALSE, pipe |-> "eof"]]
  /\ UNCHANGED <<hostVars, cut, call, proc, ctr, faults>>

\* The last file became shorter than its header says: io.Copy and so the
\* walk succeed, tw.Close finds it out and writes no trailer, its error is
\* dropped, and pw.Close ends the stream like any other.
PumpShort(c) ==
  /\ pump[c] = [run |-> TRUE, pipe |-> "open"]
  /\ call[c].n + 1 = NEntries /\ ~call[c].served /\ Reach(c)
  /\ pump' = [pump EXCEPT ![c] = [run |-> FALSE, pipe |-> "short"]]
  /\ UNCHANGED <<hostVars, cut, call, proc, ctr, faults>>

\* Mutant: no CloseWithError, only the deferred closes.
MutWalkError == "eof"

\* writeTar fails: CloseWithError comes before the deferred closes, so the
\* reader sees the error and no trailer.
WalkError == "error"

PumpFails(c) ==
  /\ pump[c] = [run |-> TRUE, pipe |-> "open"]
  /\ call[c].n < NEntries
  /\ pump' = [pump EXCEPT ![c] = [run |-> FALSE, pipe |-> WalkError]]
  /\ UNCHANGED <<hostVars, cut, call, proc, ctr, faults>>

\* A write to a pipe whose reader was closed fails, and ends the goroutine.
PumpStops(c) ==
  /\ pump[c] = [run |-> TRUE, pipe |-> "closed"]
  /\ pump' = [pump EXCEPT ![c].run = FALSE]
  /\ UNCHANGED <<hostVars, cut, call, proc, ctr, faults>>

\* The engine has sent the whole tree and ends the body.  A body that breaks
\* off is an error of the reader instead (ExtractFails).
BodyEnds(c) ==
  /\ call[c].pc = "extract" /\ pump[c].pipe = "open"
  /\ call[c].n = NEntries /\ Reach(c)
  /\ pump' = [pump EXCEPT ![c].pipe = "eof"]
  /\ UNCHANGED <<hostVars, cut, call, proc, ctr, faults>>

\* Download: one entry after the other, whatever its type; links are skipped.
ExtractEntry(c) ==
  /\ call[c].pc = "extract" /\ pump[c].pipe = "open"
  /\ call[c].n < NEntries /\ Reach(c)
  /\ call' = [call EXCEPT ![c].n = @ + 1]
  /\ UNCHANGED <<hostVars, cut, pump, proc, ctr, faults>>

\* A directory ends with the body: io.EOF is what tar.Next makes of any clean
\* end.  A file is one entry, and nothing behind it is read.
ExtractEnds(c) ==
  /\ call[c].pc = "extract"
  /\ pump[c].pipe = "eof" \/ (NEntries = 1 /\ call[c].n = 1)
  /\ Return(c, "ok")
  /\ pump' = [pump EXCEPT ![c].pipe = "closed"]
  /\ UNCHANGED <<hostVars, cut, proc, ctr, faults>>

\* The body breaks off, a local file cannot be written, an entry is of a type
\* the code does not know.
ExtractFails(c) ==
  /\ call[c].pc = "extract"
  /\ Return(c, "err")
  /\ pump' = [pump EXCEPT ![c].pipe = "closed"]
  /\ UNCHANGED <<hostVars, cut, proc, ctr, faults>>

-----------------------------------------------------------------------------
(* The surroundings                                                        *)

\* The client cancels the request, or docker_exec's timeout is over.
CtxEnds(c) ==
  /\ call[c].pc \in Requests \cup {"wait", "extract"} /\ ~call[c].ended
  /\ call' = [call EXCEPT ![c].ended = TRUE]
  /\ UNCHANGED <<hostVars, cut, pump, proc, ctr, faults>>

ProcEnds(c) ==
  /\ proc[c] = "runs"
  /\ proc' = [proc EXCEPT ![c] = "ended"]
  /\ UNCHANGED <<hostVars, cut, call, pump, ctr, faults>>

Exits(x) ==
  /\ ctr[x] = "running"
  /\ ctr' = [ctr EXCEPT ![x] = "exited"]
  /\ UNCHANGED <<hostVars, cut, call, pump, proc, faults>>

\* The ssh connection to an engine is lost, for good: dockerx never dials
\* again for a host it has.
Cut(h) ==
  /\ h \in SSHHosts \cap (conn \ cut) /\ faults < MaxFaults
  /\ cut' = cut \cup {h} /\ faults' = faults + 1
  /\ UNCHANGED <<hostVars, call, pump, proc, ctr>>

Begins(c) ==
  \/ ConnectBegin(c) \/ DisconnectBegin(c) \/ ContainerBegin(c) \/ LogsBegin(c)
  \/ LookBegin(c) \/ ImageBegin(c) \/ RunBegin(c) \/ ExecBegin(c) \/ UploadBegin(c) \/ DownloadBegin(c)

\* What a call does by itself once it has begun.
Runs(c) ==
  \/ Dial(c) \/ DialFails(c) \/ Ping(c) \/ PingFails(c) \/ Register(c) \/ DisconnectEnd(c)
  \/ Client(c) \/ ClientFails(c) \/ Answer(c) \/ RequestLost(c) \/ BodyFails(c) \/ Leave(c)
  \/ ExecOutput(c) \/ ExecTimeout(c) \/ ExtractEntry(c) \/ ExtractEnds(c) \/ ExtractFails(c)

Pumps(c) == PumpEntry(c) \/ PumpEnds(c) \/ PumpShort(c) \/ PumpFails(c) \/ PumpStops(c)
Engine(c) == Serve(c) \/ Refuse(c) \/ BodyEnds(c)
CloseAll == CloseAllBegin \/ CloseAllOne \/ CloseAllEnds
Surroundings ==
  \/ \E c \in Calls : CtxEnds(c) \/ ProcEnds(c)
  \/ \E x \in Containers : Exits(x)
  \/ \E h \in Hosts : Cut(h)

Next ==
  \/ \E c \in Calls : Begins(c) \/ Runs(c) \/ Pumps(c) \/ Engine(c)
  \/ CloseAll
  \/ Surroundings

Spec == Init /\ [][Next]_vars

\* The goroutines run, the engine answers what reaches it, and the context of
\* an exec ends (execContext); no other call is given a timeout by the code.
FairSpec ==
  /\ Spec /\ WF_vars(CloseAllOne \/ CloseAllEnds)
  /\ \A c \in Calls :
       /\ WF_vars(Runs(c)) /\ WF_vars(Pumps(c)) /\ WF_vars(Engine(c))
       /\ WF_vars(call[c].op = "exec" /\ CtxEnds(c))

-----------------------------------------------------------------------------
(* Properties                                                              *)

\* Every connection dialled is accounted for, and every host listed has one:
\* the docker clients that are open are those of the listed hosts, of the
\* connects that still hold one and of the disconnects about to close one;
\* an ssh connection is open exactly with the client on top of it (Connect,
\* Disconnect and CloseAll in any interleaving, dockerx/manager.go).
ConnsAccounted ==
  /\ docker = {h \in Hosts : \E i \in Ids : hosts[i] = h}
              \cup {call[c].h : c \in {d \in Calls : call[d].pc \in {"ping", "register", "close"}}}
  /\ ssh = docker \cap SSHHosts

\* A run that fails while all its requests were answered leaves no container
\* behind ("a failed start doesn't leave a stopped husk", run.go), whatever
\* the other calls do to the containers meanwhile.
NoHusk ==
  \A c \in Calls :
    call[c].op = "run" /\ call[c].pc = "err" /\ call[c].x # None /\ ~call[c].lost
      => ctr[call[c].x] = "absent"

\* An upload or a download that reports success has gone through the whole
\* archive: a walk that fails half way, a file that shrinks, a refusal, a lost
\* connection or an ended context cannot look like its end (copy.go).
CopiesWhole ==
  \A c \in Calls :
    call[c].op \in {"upload", "download"} /\ call[c].pc = "ok" => call[c].n = NEntries

\* Every docker tool call comes to its end, and its tar goroutine with it,
\* as long as the engine answers (Exec's select on ctx.Done, the pipe of Upload).
CallsEnd == \A c \in Calls : call[c].pc # "idle" ~> call[c].pc = "idle"
=============================================================================
