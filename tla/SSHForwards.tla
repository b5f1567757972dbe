---------------------------- MODULE SSHForwards ----------------------------
(***************************************************************************)
(* Port forwards of one SSH session (internal/sshx/forward.go): the        *)
(* forwards map, the listeners and their accept loops, the connections     *)
(* they tunnel, and what a reconnect and Session.close do to them.         *)
(*                                                                         *)
(* Handlers are the tool calls that open and cancel forwards, Reconnector  *)
(* whoever holds reconnectMu (Reconnect or attemptReconnect), Closer the   *)
(* goroutine in Session.close.  A mutex is a variable only where it is     *)
(* held across steps: forwardsMu during the drain.  bindMu sections are    *)
(* single steps.                                                           *)
(***************************************************************************)
EXTENDS Naturals, FiniteSets

CONSTANTS
  Ids,          \* forward ids
  Forwards,     \* *Forward objects alive at the same time (bound)
  Listeners,    \* net.Listener objects alive at the same time (bound)
  Clients,      \* ssh transports alive at the same time (bound)
  Conns,        \* tunnelled connections at the same time (bound)
  Handlers,     \* concurrent tool calls
  Kinds,        \* the forward kinds of this instance
  Ports,        \* bind ports of this instance; AnyPort is bind_port 0
  Reconnector, Closer,
  Host,         \* the daemon's own network stack, where -L and -D listen
  None

AnyPort == 0
Actors == Handlers \cup {Reconnector, Closer}

\* An open net.Listener: where it listens, for which forward, and whether its
\* accept loop runs.
ListenerRecords == [on : Clients \cup {Host}, port : Nat, f : Forwards, loop : BOOLEAN]

ASSUME ForwardsAssumption ==
  /\ Kinds \subseteq {"local", "remote", "dynamic"}
  /\ Ports \subseteq Nat
  /\ None \notin Ids \cup Forwards \cup Listeners \cup Clients \cup ListenerRecords
  /\ Host \notin Clients \cup {None} /\ Clients # {}
  /\ Reconnector # Closer /\ Reconnector \notin Handlers /\ Closer \notin Handlers

VARIABLES
  closed,     \* Session.closed
  client,     \* Session.client
  net,        \* transports that are up
  forwards,   \* Session.forwards
  fmu,        \* the actor that holds forwardsMu across steps
  fwd,        \* fields of every *Forward
  ln,         \* open listeners: where they listen, for whom, who accepts
  pc, loc,    \* program point and local variables of every actor
  todo,       \* rebindForwards: forwards of its snapshot still to visit
  conn,       \* tunnelled connections
  missed      \* history: forwards whose last listen on a client was lost

sessionVars == <<closed, client, net, forwards, fmu, fwd, ln, pc, loc, todo, missed>>
vars == <<sessionVars, conn>>

NoLocals == [f |-> None, l |-> None, c |-> None]
NoForward == [id |-> None, kind |-> "local", port |-> AnyPort, closed |-> TRUE,
              listener |-> None]
Idle == [at |-> "free", c |-> None, copies |-> {}]

Init ==
  /\ closed = FALSE
  /\ client = (CHOOSE c \in Clients : TRUE) /\ net = {client}
  /\ forwards = [id \in Ids |-> None]
  /\ fmu = None
  /\ fwd = [f \in Forwards |-> NoForward]
  /\ ln = [l \in Listeners |-> None]
  /\ pc = [a \in Actors |-> "idle"]
  /\ loc = [a \in Actors |-> NoLocals]
  /\ todo = {} /\ missed = {}
  /\ conn = [k \in Conns |-> Idle]

At(a, p) == pc[a] = p
Goto(a, p) == pc' = [pc EXCEPT ![a] = p]
Leave(a, p) == Goto(a, p) /\ loc' = [loc EXCEPT ![a] = NoLocals]
Return(a) == Leave(a, "idle")

Registered == {forwards[id] : id \in Ids} \ {None}
Held(A) == {loc[a].f : a \in A}

\* An object nobody refers to any more is as good as a new one; Forget(a, f) is
\* for the last step of a with f.
FreshForward(f) == f \notin Registered \cup Held(Actors) \cup todo
Forget(a, f) ==
  LET gone == {f} \ (Registered \cup Held(Actors \ {a})
                     \cup (IF a = Reconnector THEN {} ELSE todo)) IN
  /\ fwd' = [g \in Forwards |-> IF g \in gone THEN NoForward ELSE fwd[g]]
  /\ missed' = missed \ gone
FreshListener(l) ==
  /\ ln[l] = None
  /\ \A a \in Actors : loc[a].l # l
  /\ \A f \in Forwards : fwd[f].listener # l
FreshClient(c) ==
  /\ c \notin net /\ client # c
  /\ \A a \in Actors : loc[a].c # c
  /\ \A k \in Conns : conn[k].c # c

\* Objects are interchangeable: an allocation takes some fresh one, if any.
New(fresh) == IF fresh = {} THEN {} ELSE {CHOOSE x \in fresh : TRUE}
NewListener == New({l \in Listeners : FreshListener(l)})

\* net.Listen and client.Listen succeed only on a transport that is up and a
\* port nobody on that side listens on.
CanListen(on, port) ==
  /\ on \in net \cup {Host}
  /\ port = AnyPort \/ \A l \in Listeners :
       ln[l] # None => ~((ln[l].on = Host) = (on = Host) /\ ln[l].port = port)

Listening(l, on, f) ==
  ln' = [ln EXCEPT ![l] = [on |-> on, port |-> fwd[f].port, f |-> f, loop |-> FALSE]]

\* Closing a listener that is closed already is a no-op.
CloseListener(l) == ln' = [m \in Listeners |-> IF m = l THEN None ELSE ln[m]]

\* A transport that goes takes the listeners it carries with it: the accept
\* loops on them end.
CloseClient(c) ==
  /\ net' = net \ {c}
  /\ ln' = [l \in Listeners |-> IF ln[l] # None /\ ln[l].on = c THEN None ELSE ln[l]]

-----------------------------------------------------------------------------
(* OpenLocalForward, OpenRemoteForward, OpenDynamicForward                 *)

\* The session is found and has a client; -R remembers which.
OpenBegin(h, id, kind, port) ==
  /\ At(h, "idle") /\ ~closed /\ client # None
  /\ \E f \in New({g \in Forwards : FreshForward(g)}) :
       /\ fwd' = [fwd EXCEPT ![f] = [id |-> id, kind |-> kind, port |-> port,
                                     closed |-> FALSE, listener |-> None]]
       /\ loc' = [loc EXCEPT ![h] = [f |-> f, l |-> None,
                                     c |-> IF kind = "remote" THEN client ELSE Host]]
  /\ Goto(h, "listen")
  /\ UNCHANGED <<closed, client, net, forwards, fmu, ln, todo, conn, missed>>

OpenListen(h) ==
  /\ At(h, "listen")
  /\ CanListen(loc[h].c, fwd[loc[h].f].port)
  /\ \E l \in NewListener :
       /\ Listening(l, loc[h].c, loc[h].f)
       /\ fwd' = [fwd EXCEPT ![loc[h].f].listener = l]
       /\ loc' = [loc EXCEPT ![h].l = l]
  /\ Goto(h, "register")
  /\ UNCHANGED <<closed, client, net, forwards, fmu, todo, conn, missed>>

OpenListenFails(h) ==
  /\ At(h, "listen")
  /\ Return(h) /\ Forget(h, loc[h].f)
  /\ UNCHANGED <<closed, client, net, forwards, fmu, ln, todo, conn>>

\* Mutant: registerForward does not look at closed.
MutMayRegister(id) == forwards[id] = None

MayRegister(id) == ~closed /\ forwards[id] = None

\* registerForward.  History: a -R forward may be registered with a listener
\* on a transport that a reconnect has replaced meanwhile.
OpenRegister(h) ==
  LET f == loc[h].f IN
  /\ At(h, "register") /\ fmu = None
  /\ MayRegister(fwd[f].id)
  /\ forwards' = [forwards EXCEPT ![fwd[f].id] = f]
  /\ missed' = IF loc[h].c \in {Host, client} THEN missed ELSE missed \cup {f}
  /\ Goto(h, "start")
  /\ UNCHANGED <<closed, client, net, fmu, fwd, ln, loc, todo, conn>>

OpenRefused(h) ==
  /\ At(h, "register") /\ fmu = None
  /\ ~MayRegister(fwd[loc[h].f].id)
  /\ CloseListener(loc[h].l)
  /\ Return(h) /\ Forget(h, loc[h].f)
  /\ UNCHANGED <<closed, client, net, forwards, fmu, todo, conn>>

\* go runLocalForward, runRemoteForward or runSocksForward; on a listener that
\* has been closed meanwhile the loop ends at its first Accept.
StartLoop(l) ==
  ln' = [ln EXCEPT ![l] = IF @ = None THEN None ELSE [@ EXCEPT !.loop = TRUE]]

OpenStart(h) ==
  /\ At(h, "start")
  /\ StartLoop(loc[h].l)
  /\ Return(h) /\ Forget(h, loc[h].f)
  /\ UNCHANGED <<closed, client, net, forwards, fmu, todo, conn>>

-----------------------------------------------------------------------------
(* CloseForward, Forward.Close and Session.close                           *)

CloseForward(h, id) ==
  /\ At(h, "idle") /\ ~closed /\ fmu = None
  /\ forwards[id] # None
  /\ forwards' = [forwards EXCEPT ![id] = None]
  /\ loc' = [loc EXCEPT ![h].f = forwards[id]]
  /\ Goto(h, "cas")
  /\ UNCHANGED <<closed, client, net, fmu, fwd, ln, todo, conn, missed>>

\* Where an actor goes on after Forward.Close.
AfterClose(a) == Leave(a, IF a = Closer THEN "drain" ELSE "idle") /\ Forget(a, loc[a].f)

\* closed.CompareAndSwap(false, true)
ForwardCas(a) ==
  LET f == loc[a].f IN
  /\ At(a, "cas")
  /\ \/ /\ ~fwd[f].closed
        /\ fwd' = [fwd EXCEPT ![f].closed = TRUE]
        /\ Goto(a, "close") /\ UNCHANGED <<loc, missed>>
     \/ /\ fwd[f].closed
        /\ AfterClose(a)
  /\ UNCHANGED <<closed, client, net, forwards, fmu, ln, todo, conn>>

\* Under bindMu: whatever listener the forward has by now is closed.
ForwardClose(a) ==
  /\ At(a, "close")
  /\ CloseListener(fwd[loc[a].f].listener)
  /\ AfterClose(a)
  /\ UNCHANGED <<closed, client, net, forwards, fmu, todo, conn>>

\* Session.close, called by Disconnect and CloseAll once the session is out of
\* the manager's map: the closed flag, then the drain under forwardsMu.
SessionClose ==
  /\ At(Closer, "idle")
  /\ closed' = TRUE
  /\ Goto(Closer, "drain")
  /\ UNCHANGED <<client, net, forwards, fmu, fwd, ln, loc, todo, conn, missed>>

DrainOne(id) ==
  /\ At(Closer, "drain") /\ fmu \in {None, Closer}
  /\ forwards[id] # None
  /\ fmu' = Closer
  /\ forwards' = [forwards EXCEPT ![id] = None]
  /\ loc' = [loc EXCEPT ![Closer].f = forwards[id]]
  /\ Goto(Closer, "cas")
  /\ UNCHANGED <<closed, client, net, fwd, ln, todo, conn, missed>>

DrainEnds ==
  /\ At(Closer, "drain") /\ fmu \in {None, Closer}
  /\ \A id \in Ids : forwards[id] = None
  /\ fmu' = None
  /\ Goto(Closer, "clear")
  /\ UNCHANGED <<closed, client, net, forwards, fwd, ln, loc, todo, conn, missed>>

\* clearClient, as the last part of Session.close.
SessionClear ==
  /\ At(Closer, "clear")
  /\ CloseClient(client)
  /\ client' = None
  /\ Goto(Closer, "ended")
  /\ UNCHANGED <<closed, forwards, fmu, fwd, loc, todo, conn, missed>>

-----------------------------------------------------------------------------
(* Reconnect and attemptReconnect, as far as forwards see them             *)

\* clearClient.
ReconnectBegin ==
  /\ At(Reconnector, "idle") /\ ~closed
  /\ CloseClient(client)
  /\ client' = None
  /\ Goto(Reconnector, "dial")
  /\ UNCHANGED <<closed, forwards, fmu, fwd, loc, todo, conn, missed>>

\* dialFinal, then setClient: a client dialed for a session that was closed
\* meanwhile is closed, not installed.
ReconnectDial(ok) ==
  /\ At(Reconnector, "dial")
  /\ \/ /\ ~ok \/ closed
        /\ Goto(Reconnector, "idle") /\ UNCHANGED <<client, net>>
     \/ /\ ok /\ ~closed
        /\ \E c \in New({d \in Clients : FreshClient(d)}) :
             client' = c /\ net' = net \cup {c}
        /\ Goto(Reconnector, "snap")
  /\ UNCHANGED <<closed, forwards, fmu, fwd, ln, loc, todo, conn, missed>>

-----------------------------------------------------------------------------
(* rebindForwards                                                          *)

RebindSnapshot ==
  /\ At(Reconnector, "snap") /\ fmu = None
  /\ todo' = Registered
  /\ Goto(Reconnector, "rebind")
  /\ UNCHANGED <<closed, client, net, forwards, fmu, fwd, ln, loc, conn, missed>>

\* Mutant: a forward that has a listener is not bound again.
MutNeedsRebind(f) ==
  fwd[f].kind = "remote" /\ ~fwd[f].closed /\ client # None /\ fwd[f].listener = None

\* A -R forward that is not closed is bound again, while the session has a client.
NeedsRebind(f) == fwd[f].kind = "remote" /\ ~fwd[f].closed /\ client # None

RebindSkip(f) ==
  /\ At(Reconnector, "rebind") /\ f \in todo
  /\ ~NeedsRebind(f)
  /\ todo' = todo \ {f}
  /\ Forget(Reconnector, f)
  /\ UNCHANGED <<closed, client, net, forwards, fmu, ln, pc, loc, conn>>

RebindListen(f) ==
  /\ At(Reconnector, "rebind") /\ f \in todo
  /\ NeedsRebind(f) /\ CanListen(client, fwd[f].port)
  /\ \E l \in NewListener :
       /\ Listening(l, client, f)
       /\ loc' = [loc EXCEPT ![Reconnector] = [f |-> f, l |-> l, c |-> client]]
  /\ todo' = todo \ {f}
  /\ Goto(Reconnector, "swap")
  /\ UNCHANGED <<closed, client, net, forwards, fmu, fwd, conn, missed>>

RebindListenFails(f) ==
  /\ At(Reconnector, "rebind") /\ f \in todo
  /\ NeedsRebind(f)
  /\ todo' = todo \ {f}
  /\ missed' = missed \cup ({f} \cap Registered)
  /\ UNCHANGED <<closed, client, net, forwards, fmu, fwd, ln, pc, loc, conn>>

RebindEnds ==
  /\ At(Reconnector, "rebind") /\ todo = {}
  /\ Return(Reconnector)
  /\ UNCHANGED <<closed, client, net, forwards, fmu, fwd, ln, todo, conn, missed>>

\* Mutant: closed is not looked at again under bindMu.
MutRebindDropped(f) == FALSE

RebindDropped(f) == fwd[f].closed

\* Under bindMu: the forward was closed while the listener was opened.
RebindDrop ==
  /\ At(Reconnector, "swap")
  /\ RebindDropped(loc[Reconnector].f)
  /\ CloseListener(loc[Reconnector].l)
  /\ Leave(Reconnector, "rebind") /\ Forget(Reconnector, loc[Reconnector].f)
  /\ UNCHANGED <<closed, client, net, forwards, fmu, todo, conn>>

\* Under bindMu: the new listener replaces the old one, which is kept in l.
RebindSwap ==
  LET f == loc[Reconnector].f IN
  /\ At(Reconnector, "swap")
  /\ ~RebindDropped(f)
  /\ fwd' = [fwd EXCEPT ![f].listener = loc[Reconnector].l]
  /\ loc' = [loc EXCEPT ![Reconnector].l = fwd[f].listener]
  /\ missed' = missed \ {f}
  /\ Goto(Reconnector, "old")
  /\ UNCHANGED <<closed, client, net, forwards, fmu, ln, todo, conn>>

\* After bindMu: close the old listener, start the accept loop of the new one
\* (which Forward.Close may have closed meanwhile).
RebindOld ==
  LET new == fwd[loc[Reconnector].f].listener IN
  /\ At(Reconnector, "old")
  /\ ln' = [l \in Listeners |->
              IF l = loc[Reconnector].l THEN None
              ELSE IF l = new /\ ln[l] # None THEN [ln[l] EXCEPT !.loop = TRUE]
              ELSE ln[l]]
  /\ Leave(Reconnector, "rebind") /\ Forget(Reconnector, loc[Reconnector].f)
  /\ UNCHANGED <<closed, client, net, forwards, fmu, todo, conn>>

-----------------------------------------------------------------------------
(* Tunnelled connections.  A connection is "dial"ing or a "pipe" over the  *)
(* transport c; a pipe has two copies, named after the side they read.     *)

\* The accept loops.
Accept(k, l) ==
  /\ conn[k] = Idle
  /\ ln[l] # None /\ ln[l].loop
  /\ conn' = [conn EXCEPT ![k] =
       LET kind == fwd[ln[l].f].kind IN
       [at |-> CASE kind = "dynamic" -> "socks"
                 [] kind = "local" -> "begin"
                 [] kind = "remote" -> "dial",
        c |-> IF kind = "remote" THEN ln[l].on ELSE None, copies |-> {}]]
  /\ UNCHANGED sessionVars

\* socksHandshake and socksReadRequest, which wait for the client without a
\* deadline; one that is refused (reply 0x01) or hangs up is closed.
SocksStep(k, ok) ==
  /\ conn[k].at = "socks"
  /\ conn' = [conn EXCEPT ![k] = IF ok THEN [@ EXCEPT !.at = "begin"] ELSE Idle]
  /\ UNCHANGED sessionVars

\* getClient for a -L or -D connection (reply 0x03): the session's client of
\* this moment, not the one the forward was opened with.
ConnClient(k) ==
  /\ conn[k].at = "begin"
  /\ conn' = [conn EXCEPT ![k] =
       IF client = None THEN Idle ELSE [at |-> "dial", c |-> client, copies |-> {}]]
  /\ UNCHANGED sessionVars

\* dialViaClient (30 s at most; replies 0x05, 0x00), net.Dial for -R.
ConnDial(k, ok) ==
  /\ conn[k].at = "dial"
  /\ ok => conn[k].c \in net
  /\ conn' = [conn EXCEPT ![k] =
       IF ok THEN [@ EXCEPT !.at = "pipe", !.copies = {"ssh", "peer"}] ELSE Idle]
  /\ UNCHANGED sessionVars

\* pipe: the copy that reads side ends (end of file or an error) and
\* half-closes the other side; the connection is closed after the second.
CopyEnds(k, side) ==
  /\ side \in conn[k].copies
  /\ conn' = [conn EXCEPT ![k] =
       IF @.copies = {side} THEN Idle ELSE [@ EXCEPT !.copies = @ \ {side}]]
  /\ UNCHANGED sessionVars

\* The network loses a transport.
Drop(c) ==
  /\ c \in net
  /\ CloseClient(c)
  /\ UNCHANGED <<closed, client, forwards, fmu, fwd, pc, loc, todo, conn, missed>>

-----------------------------------------------------------------------------
Call(h) ==
  \/ \E id \in Ids, kind \in Kinds, port \in Ports : OpenBegin(h, id, kind, port)
  \/ \E id \in Ids : CloseForward(h, id)

CallStep(h) ==
  \/ OpenListen(h) \/ OpenListenFails(h) \/ OpenRegister(h) \/ OpenRefused(h)
  \/ OpenStart(h) \/ ForwardCas(h) \/ ForwardClose(h)

CloserStep ==
  \/ \E id \in Ids : DrainOne(id)
  \/ DrainEnds \/ SessionClear \/ ForwardCas(Closer) \/ ForwardClose(Closer)

ReconnectStep ==
  \/ \E ok \in BOOLEAN : ReconnectDial(ok)
  \/ RebindSnapshot \/ RebindEnds
  \/ RebindDrop \/ RebindSwap \/ RebindOld
  \/ \E f \in Forwards : RebindSkip(f) \/ RebindListen(f) \/ RebindListenFails(f)

ConnStep(k) ==
  \/ ConnClient(k)
  \/ \E ok \in BOOLEAN : SocksStep(k, ok) \/ ConnDial(k, ok)
  \/ \E side \in {"ssh", "peer"} : CopyEnds(k, side)

Next ==
  \/ \E h \in Handlers : Call(h) \/ CallStep(h)
  \/ SessionClose \/ CloserStep
  \/ ReconnectBegin \/ ReconnectStep
  \/ \E k \in Conns : ConnStep(k) \/ \E l \in Listeners : Accept(k, l)
  \/ \E c \in Clients : Drop(c)

Spec == Init /\ [][Next]_vars

\* Goroutines that can run do; a dial ends (30 s at most); a copy over a dead
\* transport ends; a peer whose connection was half-closed hangs up.  Nothing
\* is assumed of a SOCKS client that stays silent.
Fairness ==
  /\ \A h \in Handlers : WF_vars(CallStep(h))
  /\ WF_vars(CloserStep) /\ WF_vars(ReconnectStep)
  /\ \A k \in Conns :
       /\ WF_vars(ConnClient(k)) /\ WF_vars(ConnDial(k, FALSE))
       /\ WF_vars(conn[k].c \notin net /\ CopyEnds(k, "ssh"))
       /\ WF_vars(conn[k].copies = {"peer"} /\ CopyEnds(k, "peer"))

FairSpec == Spec /\ Fairness

-----------------------------------------------------------------------------
\* An open listener is the listener of a forward that a call or the session
\* can still close, or some call holds it: Forward.Close, Session.close,
\* registerForward and rebindForwards, in whatever order they meet, leave no
\* port bound that nobody can release, and no forward with a second accept
\* loop (forward.go:466-470).
NoLeakedListener ==
  \A l \in Listeners : ln[l] # None =>
    \/ \E a \in Actors : loc[a].l = l
    \/ /\ fwd[ln[l].f].listener = l
       /\ \/ ln[l].f \in Held(Actors)
          \/ ln[l].f \in Registered /\ pc[Closer] \notin {"clear", "ended"}

\* While no reconnect is going on and the session's transport is up, every
\* registered forward is listening, a -R forward on the current transport:
\* "auto-rebound after reconnect" (README).  Excused: a -R forward whose
\* listen failed in rebindForwards, or that was opened on a transport that was
\* replaced before registerForward.
ForwardsListen ==
  (At(Reconnector, "idle") /\ client \in net) =>
    \A f \in Registered \ missed :
      /\ fwd[f].listener # None /\ ln[fwd[f].listener] # None
      /\ ln[fwd[f].listener].on \in {Host, client}

\* After Session.close every port is released, and every connection that is
\* past its SOCKS handshake ends, although nothing but the transport's end
\* tells it to.
ForwardsEnd ==
  closed ~> [](/\ \A l \in Listeners : ln[l] = None
               /\ \A k \in Conns : conn[k].at \notin {"begin", "dial", "pipe"})

=============================================================================
