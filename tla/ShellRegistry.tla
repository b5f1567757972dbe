---------------------------- MODULE ShellRegistry ----------------------------
(***************************************************************************)
(* The shells of one SSH session (internal/sshx/shell.go) or one Docker    *)
(* host (internal/dockerx/shell.go): OpenShell, CloseShell, the drain in   *)
(* Session.close, and for every shell the goroutine that notices that its  *)
(* process is gone, ends the shell and takes it out of the table.          *)
(*                                                                         *)
(* The output of a shell is in ShellStream.                                *)
(***************************************************************************)

CONSTANTS
  ShellIds,  \* shell ids that clients use
  Shells,    \* Shell objects
  Handlers,  \* tool calls that can be running at the same time
  Drainer,   \* the call that closes the session
  None

Closers == Handlers \cup {Drainer}

ASSUME RegistryAssumption ==
  /\ Drainer \notin Handlers
  /\ None \notin Shells \cup ShellIds \cup Closers

VARIABLES
  table,    \* Session.shells
  shellsMu, \* its holder, where it is held over several steps
  sclosed,  \* Session.closed
  sid,      \* Shell.ID, None for an object not in use
  alive,    \* the connection to the shell's remote process is up
  closed,   \* Shell.closed
  done,     \* Shell.doneCh is closed
  panic,    \* "close of closed channel": the daemon is gone
  wpc,      \* per shell: wait, select, closing, remove, off
  hpc, hsh  \* per call: where it is and on which shell

vars == <<table, shellsMu, sclosed, sid, alive, closed, done, panic, wpc, hpc, hsh>>

Init ==
  /\ table = [id \in ShellIds |-> None]
  /\ shellsMu = None
  /\ sclosed = FALSE
  /\ sid = [sh \in Shells |-> None]
  /\ alive = [sh \in Shells |-> FALSE]
  /\ closed = [sh \in Shells |-> TRUE]
  /\ done = [sh \in Shells |-> TRUE]
  /\ panic = FALSE
  /\ wpc = [sh \in Shells |-> "off"]
  /\ hpc = [h \in Closers |-> "idle"]
  /\ hsh = [h \in Closers |-> None]

\* An object no variable refers to: its bound is on those in use.
Fresh(sh) ==
  /\ wpc[sh] = "off"
  /\ \A id \in ShellIds : table[id] # sh
  /\ \A h \in Closers : hsh[h] # sh

At(h, point) == ~panic /\ hpc[h] = point

Goto(h, point, sh) ==
  /\ hpc' = [hpc EXCEPT ![h] = point]
  /\ hsh' = [hsh EXCEPT ![h] = sh]

-----------------------------------------------------------------------------
(* OpenShell and CloseShell                                                 *)

\* getClient: the session still has its client.
OpenBegin(h) ==
  /\ At(h, "idle")
  /\ hpc[Drainer] # "over"
  /\ Goto(h, "open", None)
  /\ UNCHANGED <<table, shellsMu, sclosed, sid, alive, closed, done, panic, wpc>>

\* A channel, a terminal or the process cannot be had.
OpenFails(h) ==
  /\ At(h, "open")
  /\ Goto(h, "idle", None)
  /\ UNCHANGED <<table, shellsMu, sclosed, sid, alive, closed, done, panic, wpc>>

\* OpenShell up to its goroutines: the process runs and is waited for.
OpenShell(h, id) ==
  /\ At(h, "open")
  /\ \E sh \in Shells :
       /\ Fresh(sh)
       /\ sid' = [sid EXCEPT ![sh] = id]
       /\ alive' = [alive EXCEPT ![sh] = TRUE]
       /\ closed' = [closed EXCEPT ![sh] = FALSE]
       /\ done' = [done EXCEPT ![sh] = FALSE]
       /\ wpc' = [wpc EXCEPT ![sh] = "wait"]
       /\ Goto(h, "register", sh)
  /\ UNCHANGED <<table, shellsMu, sclosed, panic>>

\* Mutant: OpenShell registers without a look at sess.closed.
MutRegister(h) ==
  LET sh == hsh[h] IN
  /\ At(h, "register")
  /\ shellsMu = None
  /\ table[sid[sh]] = None
  /\ table' = [table EXCEPT ![sid[sh]] = sh]
  /\ Goto(h, "idle", None)
  /\ UNCHANGED <<shellsMu, sclosed, sid, alive, closed, done, panic, wpc>>

Register(h) ==
  LET sh == hsh[h] IN
  /\ At(h, "register")
  /\ shellsMu = None
  /\ ~sclosed /\ table[sid[sh]] = None
  /\ table' = [table EXCEPT ![sid[sh]] = sh]
  /\ Goto(h, "idle", None)
  /\ UNCHANGED <<shellsMu, sclosed, sid, alive, closed, done, panic, wpc>>

\* The session is closed or the id is taken: the shell is closed again, and
\* shellsMu is held (deferred unlock) until it is.
RegisterRefused(h) ==
  /\ At(h, "register")
  /\ shellsMu = None
  /\ sclosed \/ table[sid[hsh[h]]] # None
  /\ shellsMu' = h
  /\ Goto(h, "cas", hsh[h])
  /\ UNCHANGED <<table, sclosed, sid, alive, closed, done, panic, wpc>>

\* Mutant: CloseShell does not check that there is such a shell.
MutCloseShellNil(h, id) ==
  /\ At(h, "idle")
  /\ shellsMu = None
  /\ table' = [table EXCEPT ![id] = None]
  /\ Goto(h, "cas", table[id])
  /\ UNCHANGED <<shellsMu, sclosed, sid, alive, closed, done, panic, wpc>>

\* Mutant: CloseShell takes the shell out and forgets to close it.
MutCloseShell(h, id) ==
  /\ At(h, "idle")
  /\ shellsMu = None
  /\ table[id] # None
  /\ table' = [table EXCEPT ![id] = None]
  /\ UNCHANGED <<shellsMu, sclosed, sid, alive, closed, done, panic, wpc, hpc, hsh>>

CloseShell(h, id) ==
  /\ At(h, "idle")
  /\ shellsMu = None
  /\ table[id] # None
  /\ table' = [table EXCEPT ![id] = None]
  /\ Goto(h, "cas", table[id])
  /\ UNCHANGED <<shellsMu, sclosed, sid, alive, closed, done, panic, wpc>>

-----------------------------------------------------------------------------
(* Shell.Close                                                              *)

\* Back to the caller: a tool call returns and unlocks, the drain goes on.
CloseReturn(h) ==
  /\ Goto(h, IF h = Drainer THEN "drain" ELSE "idle", None)
  /\ shellsMu' = IF shellsMu = h /\ h # Drainer THEN None ELSE shellsMu
  /\ table' = IF h = Drainer THEN [table EXCEPT ![sid[hsh[h]]] = None] ELSE table

CloseCas(h) ==
  /\ At(h, "cas")
  /\ ~closed[hsh[h]]
  /\ closed' = [closed EXCEPT ![hsh[h]] = TRUE]
  /\ Goto(h, "hangup", hsh[h])
  /\ UNCHANGED <<table, shellsMu, sclosed, sid, alive, done, panic, wpc>>

CloseLost(h) ==
  /\ At(h, "cas")
  /\ closed[hsh[h]]
  /\ CloseReturn(h)
  /\ UNCHANGED <<sclosed, sid, alive, closed, done, panic, wpc>>

\* stdin.Close and session.Close (attach.Close): the process loses its
\* terminal.
CloseHangup(h) ==
  /\ At(h, "hangup")
  /\ alive' = [alive EXCEPT ![hsh[h]] = FALSE]
  /\ Goto(h, "select", hsh[h])
  /\ UNCHANGED <<table, shellsMu, sclosed, sid, closed, done, panic, wpc>>

\* select: doneCh is closed already, or default.
CloseSelectDone(h) ==
  /\ At(h, "select")
  /\ done[hsh[h]]
  /\ CloseReturn(h)
  /\ UNCHANGED <<sclosed, sid, alive, closed, done, panic, wpc>>

CloseSelectDefault(h) ==
  /\ At(h, "select")
  /\ ~done[hsh[h]]
  /\ Goto(h, "closing", hsh[h])
  /\ UNCHANGED <<table, shellsMu, sclosed, sid, alive, closed, done, panic, wpc>>

\* close(s.doneCh) panics if it is closed by now.
CloseDone(h) ==
  /\ At(h, "closing")
  /\ panic' = done[hsh[h]]
  /\ done' = [done EXCEPT ![hsh[h]] = TRUE]
  /\ CloseReturn(h)
  /\ UNCHANGED <<sclosed, sid, alive, closed, wpc>>

-----------------------------------------------------------------------------
(* The goroutine of shell sh: chSess.Wait, or the Docker pump's last read   *)

Exit(sh) ==
  /\ ~panic
  /\ alive[sh]
  /\ alive' = [alive EXCEPT ![sh] = FALSE]
  /\ UNCHANGED <<table, shellsMu, sclosed, sid, closed, done, panic, wpc, hpc, hsh>>

WaitReturns(sh) ==
  /\ ~panic /\ wpc[sh] = "wait"
  /\ ~alive[sh]
  /\ closed' = [closed EXCEPT ![sh] = TRUE]
  /\ wpc' = [wpc EXCEPT ![sh] = "select"]
  /\ UNCHANGED <<table, shellsMu, sclosed, sid, alive, done, panic, hpc, hsh>>

WaitSelect(sh) ==
  /\ ~panic /\ wpc[sh] = "select"
  /\ wpc' = [wpc EXCEPT ![sh] = IF done[sh] THEN "remove" ELSE "closing"]
  /\ UNCHANGED <<table, shellsMu, sclosed, sid, alive, closed, done, panic, hpc, hsh>>

WaitDone(sh) ==
  /\ ~panic /\ wpc[sh] = "closing"
  /\ panic' = done[sh]
  /\ done' = [done EXCEPT ![sh] = TRUE]
  /\ wpc' = [wpc EXCEPT ![sh] = "remove"]
  /\ UNCHANGED <<table, shellsMu, sclosed, sid, alive, closed, hpc, hsh>>

\* Mutant: the entry of this id goes, whatever shell it is by now.
MutRemove(sh) ==
  /\ ~panic /\ wpc[sh] = "remove"
  /\ shellsMu = None
  /\ table' = [table EXCEPT ![sid[sh]] = None]
  /\ wpc' = [wpc EXCEPT ![sh] = "off"]
  /\ UNCHANGED <<shellsMu, sclosed, sid, alive, closed, done, panic, hpc, hsh>>

\* Auto-remove, if the entry is this shell.
Remove(sh) ==
  /\ ~panic /\ wpc[sh] = "remove"
  /\ shellsMu = None
  /\ table' = [table EXCEPT ![sid[sh]] = IF @ = sh THEN None ELSE @]
  /\ wpc' = [wpc EXCEPT ![sh] = "off"]
  /\ UNCHANGED <<shellsMu, sclosed, sid, alive, closed, done, panic, hpc, hsh>>

-----------------------------------------------------------------------------
(* Session.close and Host.close: closed is set, then the table is drained   *)
(* under shellsMu, then the client goes, which ends what still runs on it   *)
(* (Exit).                                                                  *)

SessionClose ==
  /\ At(Drainer, "idle")
  /\ sclosed' = TRUE
  /\ Goto(Drainer, "lock", None)
  /\ UNCHANGED <<table, shellsMu, sid, alive, closed, done, panic, wpc>>

DrainLock ==
  /\ At(Drainer, "lock")
  /\ shellsMu = None
  /\ shellsMu' = Drainer
  /\ Goto(Drainer, "drain", None)
  /\ UNCHANGED <<table, sclosed, sid, alive, closed, done, panic, wpc>>

DrainNext(id) ==
  /\ At(Drainer, "drain")
  /\ table[id] # None
  /\ Goto(Drainer, "cas", table[id])
  /\ UNCHANGED <<table, shellsMu, sclosed, sid, alive, closed, done, panic, wpc>>

DrainEnd ==
  /\ At(Drainer, "drain")
  /\ \A id \in ShellIds : table[id] = None
  /\ shellsMu' = None
  /\ Goto(Drainer, "drained", None)
  /\ UNCHANGED <<table, sclosed, sid, alive, closed, done, panic, wpc>>

ClearClient ==
  /\ At(Drainer, "drained")
  /\ Goto(Drainer, "over", None)
  /\ UNCHANGED <<table, shellsMu, sclosed, sid, alive, closed, done, panic, wpc>>

CloseStep(h) ==
  \/ CloseCas(h) \/ CloseLost(h) \/ CloseHangup(h) \/ CloseSelectDone(h)
  \/ CloseSelectDefault(h) \/ CloseDone(h)

WaitStep(sh) == WaitReturns(sh) \/ WaitSelect(sh) \/ WaitDone(sh) \/ Remove(sh)

\* The session stays closed for good, or the daemon is gone.
Ended == (panic \/ hpc[Drainer] = "over") /\ UNCHANGED vars

Next ==
  \/ \E h \in Handlers, id \in ShellIds : OpenShell(h, id) \/ CloseShell(h, id)
  \/ \E h \in Handlers : OpenBegin(h) \/ OpenFails(h) \/ Register(h) \/ RegisterRefused(h)
  \/ \E h \in Closers : CloseStep(h)
  \/ \E sh \in Shells : Exit(sh) \/ WaitStep(sh)
  \/ SessionClose \/ DrainLock \/ DrainEnd \/ ClearClient
  \/ \E id \in ShellIds : DrainNext(id)
  \/ Ended

Spec == Init /\ [][Next]_vars

-----------------------------------------------------------------------------
(* Properties                                                               *)

\* Besides the types: a call in Register or Shell.Close has a shell.
TypeOK ==
  /\ table \in [ShellIds -> Shells \cup {None}]
  /\ shellsMu \in Closers \cup {None}
  /\ sclosed \in BOOLEAN /\ panic \in BOOLEAN
  /\ sid \in [Shells -> ShellIds \cup {None}]
  /\ alive \in [Shells -> BOOLEAN]
  /\ closed \in [Shells -> BOOLEAN]
  /\ done \in [Shells -> BOOLEAN]
  /\ wpc \in [Shells -> {"wait", "select", "closing", "remove", "off"}]
  /\ hpc \in [Closers -> {"idle", "open", "register", "cas", "hangup", "select", "closing",
                          "lock", "drain", "drained", "over"}]
  /\ hsh \in [Closers -> Shells \cup {None}]
  /\ \A h \in Closers :
       hpc[h] \in {"register", "cas", "hangup", "select", "closing"} => hsh[h] # None

\* No connection to a process is left that nobody could close: its shell is
\* in the table, or a call is registering or closing it.
NoStrayProcess ==
  \A sh \in Shells :
    alive[sh] => \/ \E id \in ShellIds : table[id] = sh
                 \/ \E h \in Closers : hsh[h] = sh /\ hpc[h] \in {"register", "cas", "hangup"}

\* Once Session.close has drained the table no shell is registered again,
\* and those that come too late are closed by their own OpenShell ("any
\* racing OpenShell ... fails the closed check").
ClosedSessionIsEmpty ==
  hpc[Drainer] \in {"drained", "over"} => \A id \in ShellIds : table[id] = None

\* An entry leaves the table only with a shell that has ended or that a call
\* has taken out in order to close it: auto-remove never hits the shell that
\* has taken over the id.
RemovesOnlyEnded ==
  [][\A id \in ShellIds :
       table[id] # None /\ table'[id] # table[id] =>
         \/ closed'[table[id]]
         \/ \E h \in Handlers : hsh'[h] = table[id]]_vars

\* What the tests ask of the daemon: it "survives ... without deadlocking or
\* panicking" (e2e_test.go:1482).  Shell.Close and the goroutine of the shell
\* each look at doneCh and then close it, with nothing in between to keep the
\* other out.
NoPanic == ~panic

\* "Auto-remove from the parent session so ssh_shell_list doesn't keep
\* reporting dead shells" (shell.go:239): a shell whose goroutine has ended
\* is not in the table.  The code does not keep it: a process may end before
\* OpenShell registers its shell.
NoDeadListed ==
  \A id \in ShellIds : table[id] # None => wpc[table[id]] # "off"
=============================================================================
