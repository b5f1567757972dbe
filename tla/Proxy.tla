------------------------------- MODULE Proxy -------------------------------
(***************************************************************************)
(* The launcher's bridge (internal/launcher/proxy.go and the loop in       *)
(* cmd/remote-shell-mcp/main.go): one goroutine reads stdin into linesCh,  *)
(* and the main loop starts one Proxy.Run after the other, each with an    *)
(* SSE stream, a watchdog, a readStdin loop, a lineSource goroutine that   *)
(* moves lines from linesCh to the loop, and POSTs in flight.              *)
(*                                                                         *)
(* Run returns at the first result in errCh.  Its readStdin and lineSource *)
(* goroutines are not told: they end with ctx, at end of input, or when a  *)
(* POST of their own fails.                                                *)
(***************************************************************************)
EXTENDS Naturals, Sequences, FiniteSets, SequencesExt

CONSTANTS
  NLines,        \* requests the client writes (bound)
  Runs,          \* Proxy.Run calls with a live goroutine (bound)
  MaxFaults,     \* daemon crashes and stream hangs (bound)
  LinesCap,      \* capacity of linesCh (32)
  OutCap,        \* capacity of lineSource's out (16)
  MaxInFlight,   \* POSTs at the same time (128)
  None

ASSUME ProxyAssumption ==
  /\ NLines \in Nat /\ MaxFaults \in Nat
  /\ LinesCap \in Nat \ {0} /\ OutCap \in Nat \ {0} /\ MaxInFlight \in Nat \ {0}
  /\ None \notin Runs

VARIABLES
  read,       \* lines read from stdin so far
  linesCh,    \* the shared channel
  eof,        \* linesCh is closed
  ctx,        \* ctx is cancelled (SIGINT, SIGTERM)
  main, cur,  \* the reconnect loop and its current Run
  run,        \* what every Run has: see NewRun
  daemon,     \* the daemon's incarnation; it is up when odd
  faults,
  delivered,  \* lines a daemon accepted, in order
  broken      \* history: some Run failed, or the launcher was told to stop

otherVars == <<read, eof, ctx, main, cur, daemon, faults, delivered, broken>>
vars == <<run, linesCh, otherVars>>

Up == daemon % 2 = 1

\* The process ends with main, and its goroutines with it.
Alive == main # "exit"

(***************************************************************************)
(* pc: Run itself.  sse: the stream, "eof" when it is over and readSSE has *)
(* not seen it yet.  stdin: the readStdin loop, "hold" with a line in its  *)
(* hands (hand), "wait" in wg.Wait.  src: lineSource, "push" with a line   *)
(* (srcHand).  why: what readStdin returns if no POST failed.              *)
(***************************************************************************)
NewRun == [pc |-> "get", sse |-> "none", inc |-> daemon, stdin |-> "off", hand |-> 0,
           src |-> "off", srcHand |-> 0, out |-> <<>>, post |-> {}, done |-> "no",
           fatal |-> FALSE, why |-> "no", errCh |-> <<>>]
Dead == [NewRun EXCEPT !.pc = "returned", !.inc = 0]

\* Every goroutine of the Run is gone.
Over(r) == run[r].pc = "returned" /\ run[r].stdin = "off" /\ run[r].src = "off"

Init ==
  /\ read = 0 /\ linesCh = <<>> /\ eof = FALSE /\ ctx = FALSE
  /\ main = "resolve" /\ cur = None
  /\ daemon = 1
  /\ run = [r \in Runs |-> Dead]
  /\ faults = 0 /\ delivered = <<>> /\ broken = FALSE

\* r's record gets the fields of new; a Run that is over is forgotten.
Set(r, new) ==
  run' = [run EXCEPT ![r] =
    IF new.pc = "returned" /\ new.stdin = "off" /\ new.src = "off" THEN Dead ELSE new]

-----------------------------------------------------------------------------
(* Standard input                                                          *)

StdinLine ==
  /\ ~eof /\ ~ctx /\ read < NLines /\ Len(linesCh) < LinesCap
  /\ read' = read + 1
  /\ linesCh' = Append(linesCh, read + 1)
  /\ UNCHANGED <<eof, ctx, main, cur, run, daemon, faults, delivered, broken>>

StdinCloses ==
  /\ ~eof
  /\ eof' = TRUE /\ broken' = TRUE
  /\ UNCHANGED <<read, linesCh, ctx, main, cur, run, daemon, faults, delivered>>

Signal ==
  /\ ~ctx
  /\ ctx' = TRUE /\ broken' = TRUE
  /\ UNCHANGED <<read, linesCh, eof, main, cur, run, daemon, faults, delivered>>

-----------------------------------------------------------------------------
(* The reconnect loop                                                      *)

\* resolveDaemonHandle succeeds and Run begins.
Resolve ==
  /\ main = "resolve" /\ ~ctx /\ Up
  /\ \E r \in Runs : Over(r)
  /\ cur' = CHOOSE r \in Runs : Over(r)
  /\ run' = [run EXCEPT ![cur'] = NewRun]
  /\ main' = "run"
  /\ UNCHANGED <<read, linesCh, eof, ctx, daemon, faults, delivered, broken>>

LoopEnds ==
  /\ main = "resolve" /\ ctx
  /\ main' = "exit"
  /\ UNCHANGED <<read, linesCh, eof, ctx, cur, run, daemon, faults, delivered, broken>>

\* Run returns err: its stream is closed; nil and context.Canceled end the
\* launcher, anything else waits and tries again.
RunReturns(r, err) ==
  /\ Set(r, [run[r] EXCEPT !.pc = "returned", !.sse = "off", !.errCh = <<>>])
  /\ main' = IF err \in {"nil", "canceled"} THEN "exit" ELSE "resolve"
  /\ cur' = None
  /\ broken' = TRUE
  /\ UNCHANGED <<read, linesCh, eof, ctx, daemon, faults, delivered>>

-----------------------------------------------------------------------------
(* Proxy.Run                                                               *)

\* GET /sse: another daemon by now rejects the token.
Get(r) ==
  /\ run[r].pc = "get" /\ ~ctx /\ Up /\ run[r].inc = daemon
  /\ run' = [run EXCEPT ![r].pc = "endpoint", ![r].sse = "up"]
  /\ UNCHANGED <<linesCh, otherVars>>

GetFails(r) ==
  /\ run[r].pc = "get"
  /\ ctx \/ ~Up \/ run[r].inc # daemon
  /\ RunReturns(r, IF ctx THEN "canceled" ELSE "err")

\* The endpoint event arrives: readStdin and its lineSource start.
Endpoint(r) ==
  /\ run[r].pc = "endpoint" /\ run[r].sse = "up"
  /\ run' = [run EXCEPT ![r].pc = "serve", ![r].stdin = "loop", ![r].src = "pull"]
  /\ UNCHANGED <<linesCh, otherVars>>

\* No endpoint event within 15 s.
EndpointTimeout(r) ==
  /\ run[r].pc = "endpoint" /\ run[r].sse = "hung"
  /\ RunReturns(r, "err")

\* readSSE's Read fails: its error goes to errCh.
ReadSSEEnds(r) ==
  /\ run[r].sse = "eof"
  /\ run' = [run EXCEPT ![r].sse = "off", ![r].errCh = Append(@, "err")]
  /\ UNCHANGED <<linesCh, otherVars>>

\* Mutant: no watchdog.
MutWatchdog(r) == FALSE /\ UNCHANGED vars

\* Nothing for 45 s: the watchdog closes the body.
Watchdog(r) ==
  /\ run[r].pc # "returned" /\ run[r].sse = "hung" /\ ~ctx
  /\ run' = [run EXCEPT ![r].sse = "eof"]
  /\ UNCHANGED <<linesCh, otherVars>>

\* Run's selects: ctx, or the first result in errCh.
RunEnds(r) ==
  /\ run[r].pc \in {"endpoint", "serve"}
  /\ \/ ctx /\ RunReturns(r, "canceled")
     \/ run[r].errCh # <<>> /\ RunReturns(r, Head(run[r].errCh))

-----------------------------------------------------------------------------
(* lineSource, shared case                                                 *)

SrcTake(r) ==
  /\ run[r].src = "pull" /\ linesCh # <<>>
  /\ linesCh' = Tail(linesCh)
  /\ run' = [run EXCEPT ![r].src = "push", ![r].srcHand = Head(linesCh)]
  /\ UNCHANGED otherVars

SrcPush(r) ==
  /\ run[r].src = "push" /\ Len(run[r].out) < OutCap
  /\ run' = [run EXCEPT ![r].src = "pull", ![r].srcHand = 0,
                        ![r].out = Append(@, run[r].srcHand)]
  /\ UNCHANGED <<linesCh, otherVars>>

\* Mutant: a closed linesCh is not noticed.
MutSrcDone(r, d) == (d = "nil" /\ run[r].fatal) \/ (d = "canceled" /\ ctx)

\* What ends lineSource: the end of linesCh, fatalCh or ctx.
SrcDone(r, d) ==
  \/ d = "nil" /\ run[r].src = "pull" /\ eof /\ linesCh = <<>>
  \/ d = "nil" /\ run[r].fatal
  \/ d = "canceled" /\ ctx

\* A line in its hands is dropped.
SrcEnds(r) ==
  /\ run[r].src # "off"
  /\ \E d \in {"nil", "canceled"} :
       /\ SrcDone(r, d)
       /\ Set(r, [run[r] EXCEPT !.src = "off", !.srcHand = 0, !.done = d])
  /\ UNCHANGED <<linesCh, otherVars>>

-----------------------------------------------------------------------------
(* readStdin                                                               *)

StdinTake(r) ==
  /\ run[r].stdin = "loop" /\ run[r].out # <<>>
  /\ run' = [run EXCEPT ![r].stdin = "hold", ![r].hand = Head(run[r].out),
                        ![r].out = Tail(@)]
  /\ UNCHANGED <<linesCh, otherVars>>

\* dispatch: a slot of sem, then a POST goroutine.
Dispatch(r) ==
  /\ run[r].stdin = "hold" /\ Cardinality(run[r].post) < MaxInFlight
  /\ run' = [run EXCEPT ![r].stdin = "loop", ![r].hand = 0,
                        ![r].post = @ \cup {run[r].hand}]
  /\ UNCHANGED <<linesCh, otherVars>>

DispatchDrops(r) ==
  /\ run[r].stdin = "hold" /\ (run[r].fatal \/ ctx)
  /\ run' = [run EXCEPT ![r].stdin = "loop", ![r].hand = 0]
  /\ UNCHANGED <<linesCh, otherVars>>

\* The select chose ctx, fatalCh or readDoneCh; out may still hold lines.
StdinLeaves(r) ==
  /\ run[r].stdin = "loop"
  /\ \E w \in {"nil", "canceled"} :
       /\ \/ w = "canceled" /\ ctx
          \/ w = "nil" /\ run[r].fatal
          \/ w = run[r].done
       /\ run' = [run EXCEPT ![r].stdin = "wait", ![r].why = w]
  /\ UNCHANGED <<linesCh, otherVars>>

\* wg.Wait is over: the first failed POST, else why, is the result.
StdinReturns(r) ==
  /\ run[r].stdin = "wait" /\ run[r].post = {}
  /\ Set(r, [run[r] EXCEPT !.stdin = "off", !.out = <<>>,
       !.errCh = IF run[r].pc = "returned" THEN @
                 ELSE Append(@, IF run[r].fatal THEN "err" ELSE run[r].why)])
  /\ UNCHANGED <<linesCh, otherVars>>

\* The daemon knows the session of r as long as it sees r's stream.
Session(r) == Up /\ run[r].inc = daemon /\ run[r].sse \in {"up", "hung"}

\* Mutant: a POST that failed is tried again, although the daemon may have it.
MutPostOk(r, line) ==
  /\ line \in run[r].post /\ Session(r)
  /\ delivered' = Append(delivered, line)
  /\ \E again \in BOOLEAN :
       run' = IF again THEN run ELSE [run EXCEPT ![r].post = @ \ {line}]
  /\ UNCHANGED <<read, linesCh, eof, ctx, main, cur, daemon, faults, broken>>

PostOk(r, line) ==
  /\ line \in run[r].post /\ Session(r)
  /\ delivered' = Append(delivered, line)
  /\ run' = [run EXCEPT ![r].post = @ \ {line}]
  /\ UNCHANGED <<read, linesCh, eof, ctx, main, cur, daemon, faults, broken>>

\* No session, no daemon, an error status, ctx: the line is gone, or the
\* daemon has it and only its answer is lost.  The first failure closes fatalCh.
PostFails(r, line) ==
  /\ line \in run[r].post
  /\ \/ UNCHANGED delivered
     \/ Session(r) /\ delivered' = Append(delivered, line)
  /\ run' = [run EXCEPT ![r].post = @ \ {line}, ![r].fatal = TRUE]
  /\ broken' = TRUE
  /\ UNCHANGED <<read, linesCh, eof, ctx, main, cur, daemon, faults>>

-----------------------------------------------------------------------------
(* The daemon and the network (external)                                   *)

DaemonDies ==
  /\ Up /\ faults < MaxFaults
  /\ faults' = faults + 1
  /\ daemon' = daemon + 1
  /\ broken' = TRUE
  /\ run' = [r \in Runs |-> IF run[r].sse \in {"up", "hung"} /\ run[r].inc = daemon
                            THEN [run[r] EXCEPT !.sse = "eof"] ELSE run[r]]
  /\ UNCHANGED <<read, linesCh, eof, ctx, main, cur, delivered>>

DaemonStarts ==
  /\ ~Up /\ Alive
  /\ daemon' = daemon + 1
  /\ UNCHANGED <<read, linesCh, eof, ctx, main, cur, run, faults, delivered, broken>>

StreamHangs(r) ==
  /\ run[r].sse = "up" /\ faults < MaxFaults
  /\ faults' = faults + 1
  /\ run' = [run EXCEPT ![r].sse = "hung"]
  /\ UNCHANGED <<read, linesCh, eof, ctx, main, cur, daemon, delivered, broken>>

-----------------------------------------------------------------------------
MainStep == Alive /\ (Resolve \/ LoopEnds)

RunStep(r) == Alive /\ (\/ Get(r) \/ GetFails(r) \/ Endpoint(r) \/ EndpointTimeout(r)
                        \/ ReadSSEEnds(r) \/ Watchdog(r) \/ RunEnds(r))

SrcStep(r) == Alive /\ (SrcTake(r) \/ SrcPush(r) \/ SrcEnds(r))

StdinStep(r) == Alive /\ (\/ StdinTake(r) \/ Dispatch(r) \/ DispatchDrops(r)
                          \/ StdinLeaves(r) \/ StdinReturns(r))

Post(r) == Alive /\ \E line \in 1..NLines : PostOk(r, line) \/ PostFails(r, line)

Environment ==
  Alive /\ (\/ StdinLine \/ StdinCloses \/ Signal
            \/ DaemonDies \/ \E r \in Runs : StreamHangs(r))

Next ==
  \/ MainStep \/ Environment \/ DaemonStarts
  \/ \E r \in Runs : RunStep(r) \/ SrcStep(r) \/ StdinStep(r) \/ Post(r)

Spec == Init /\ [][Next]_vars

\* Goroutines run; EnsureDaemon starts a daemon; a POST is answered or fails.
Fairness ==
  /\ WF_vars(MainStep) /\ WF_vars(DaemonStarts)
  /\ \A r \in Runs : /\ WF_vars(RunStep(r)) /\ WF_vars(SrcStep(r))
                     /\ WF_vars(StdinStep(r)) /\ WF_vars(Post(r))

FairSpec == Spec /\ Fairness

-----------------------------------------------------------------------------
\* Lines on their way.  One in out counts while the loop that reads out runs.
Carried(r) ==
  {run[r].srcHand, run[r].hand} \cup run[r].post
    \cup (IF run[r].stdin \in {"loop", "hold"} THEN ToSet(run[r].out) ELSE {})
OnTheWay == ToSet(linesCh) \cup UNION {Carried(r) : r \in Runs}

\* What has become of the client's request q.
StatusOf(q) ==
  IF q > read THEN "unsent"
  ELSE IF q \in ToSet(delivered) THEN "delivered"
  ELSE IF q \in OnTheWay THEN "pending" ELSE "lost"

Bridge == INSTANCE RequestBridge WITH
  Requests <- 1..NLines,
  status <- [q \in 1..NLines |-> StatusOf(q)],
  log <- delivered

\* The bridge with all its queues, retries and leftover goroutines implements
\* RequestBridge: no request reaches a daemon twice, and none is lost while no
\* POST or stream has failed and neither stdin nor the launcher was closed.
BridgeRefined == Bridge!Spec

Serving ==
  /\ main = "run" /\ run[cur].pc = "serve" /\ run[cur].stdin \in {"loop", "hold"}
  /\ Session(cur) /\ run[cur].sse = "up"

\* Once faults stop, a launcher that still runs serves on a live stream for
\* good: after a crash, a rotated token, a hung stream (the watchdog) or a
\* failed POST.
BridgeRecovers == <>[](Serving \/ ~Alive)

\* The launcher goes when its client has closed stdin or it got a signal, even
\* if that happens during a reconnect.
ExitsWhenClosed == (eof \/ ctx) ~> ~Alive

\* "two goroutines would race for bytes from os.Stdin and half the parent's
\* writes would be eaten by the dead reader" is what the shared reader is there
\* to avoid (main.go:59-62): a Run that has returned takes no more lines.
NoDeadReader ==
  [][\A r \in Runs : (run[r].pc = "returned" /\ run[r].src = "pull")
                        => run'[r].src # "push"]_vars
=============================================================================
