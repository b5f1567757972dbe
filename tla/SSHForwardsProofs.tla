-------------------------- MODULE SSHForwardsProofs --------------------------
(***************************************************************************)
(* Who owns a listener, for any number of forwards, listeners, transports, *)
(* connections and tool calls.                                             *)
(***************************************************************************)
EXTENDS SSHForwards, TLAPS

ForwardRecords ==
  [id : Ids \cup {None}, kind : {"local", "remote", "dynamic"}, port : Nat, closed : BOOLEAN,
   listener : Listeners \cup {None}]
Locals == [f : Forwards \cup {None}, l : Listeners \cup {None}, c : Clients \cup {Host, None}]

\* The types of what listeners depend on, and the points of every actor.
TypeOK ==
  /\ closed \in BOOLEAN
  /\ client \in Clients \cup {None} /\ net \subseteq Clients
  /\ forwards \in [Ids -> Forwards \cup {None}]
  /\ fwd \in [Forwards -> ForwardRecords]
  /\ ln \in [Listeners -> ListenerRecords \cup {None}]
  /\ loc \in [Actors -> Locals]
  /\ todo \subseteq Forwards
  /\ pc \in [Actors -> {"idle", "listen", "register", "start", "cas", "close", "drain", "clear",
                        "ended", "dial", "snap", "rebind", "swap", "old"}]
  /\ \A h \in Handlers : pc[h] \in {"idle", "listen", "register", "start", "cas", "close"}
  /\ pc[Closer] \in {"idle", "drain", "cas", "close", "clear", "ended"}
  /\ pc[Reconnector] \in {"idle", "dial", "snap", "rebind", "swap", "old"}

\* An actor has a forward at the points where it works on one, and only there.
Works(a) == pc[a] \in {"listen", "register", "start", "cas", "close", "swap", "old"}
LocalsOK ==
  \A a \in Actors :
    /\ Works(a) <=> loc[a].f # None
    /\ pc[a] \notin {"register", "start", "swap", "old"} => loc[a].l = None

\* Session.close has marked the session before it drains, and leaves an empty
\* map.
DrainOK ==
  /\ pc[Closer] # "idle" => closed
  /\ pc[Closer] \in {"clear", "ended"} => \A id \in Ids : forwards[id] = None

\* Up to registerForward a forward is known to its own call alone; in the map
\* it has one id; the call or the drain that took it out of the map is the only
\* one that closes it.  A forward is closed when its CAS was won.
ForwardOK ==
  /\ \A h \in Handlers : pc[h] \in {"listen", "register"} =>
       /\ \A id \in Ids : forwards[id] # loc[h].f
       /\ \A a \in Actors \ {h} : loc[a].f # loc[h].f
       /\ loc[h].f \notin todo
       /\ fwd[loc[h].f].id \in Ids /\ ~fwd[loc[h].f].closed
  /\ \A i, j \in Ids : forwards[i] # None /\ forwards[i] = forwards[j] => i = j
  /\ \A id \in Ids : forwards[id] # None => ~fwd[forwards[id]].closed
  /\ \A a \in Actors : pc[a] \in {"cas", "close"} =>
       /\ \A id \in Ids : forwards[id] # loc[a].f
       /\ \A b \in Actors : pc[b] \in {"cas", "close"} /\ loc[b].f = loc[a].f => a = b
       /\ fwd[loc[a].f].closed <=> pc[a] = "close"

\* A forward that rebindForwards still has, or works on, and that is not
\* closed, is in the map or about to be closed.
Live(f) == \/ \E id \in Ids : forwards[id] = f
           \/ \E a \in Actors : pc[a] = "cas" /\ loc[a].f = f
RebindOK ==
  /\ \A f \in todo : fwd[f].closed \/ Live(f)
  /\ pc[Reconnector] \in {"swap", "old"} =>
       fwd[loc[Reconnector].f].closed \/ Live(loc[Reconnector].f)

\* A listener belongs to the forward it was opened for.
ListenersOK ==
  /\ \A f \in Forwards : fwd[f].listener # None /\ ln[fwd[f].listener] # None =>
       ln[fwd[f].listener].f = f
  /\ \A a \in Actors : loc[a].l # None /\ ln[loc[a].l] # None => ln[loc[a].l].f = loc[a].f
  /\ \A h \in Handlers : pc[h] = "register" =>
       loc[h].l # None /\ fwd[loc[h].f].listener = loc[h].l

\* Every open listener has an owner that will close it: the call that opened
\* it until it is registered, the rebind that has not installed it yet or has
\* just replaced it, the map, or the call that took its forward out of the map.
Owned(l) ==
  \/ \E h \in Handlers : pc[h] = "register" /\ loc[h].l = l
  \/ pc[Reconnector] \in {"swap", "old"} /\ loc[Reconnector].l = l
  \/ /\ fwd[ln[l].f].listener = l
     /\ \/ \E id \in Ids : forwards[id] = ln[l].f
        \/ \E a \in Actors : pc[a] \in {"cas", "close"} /\ loc[a].f = ln[l].f
Ownership == \A l \in Listeners : ln[l] # None => Owned(l)

\* Where the reconnect stands: clearClient comes before the dial, nothing is
\* left to rebind outside rebindForwards, and the listener that a rebind holds
\* is not the one its forward has.
ReconnectOK ==
  /\ pc[Reconnector] = "dial" => client = None
  /\ pc[Reconnector] \in {"idle", "dial", "snap"} => todo = {}
  /\ pc[Reconnector] \in {"swap", "old"} =>
       /\ fwd[loc[Reconnector].f].listener # loc[Reconnector].l \/ loc[Reconnector].l = None
       /\ fwd[loc[Reconnector].f].kind = "remote" \/ fwd[loc[Reconnector].f].closed

\* A listener that a call or a rebind has opened and not handed over yet is
\* open while its transport is up.
Open(l, on) == l \in Listeners /\ ln[l] # None /\ ln[l].on = on
NewOpen ==
  /\ \A h \in Handlers : pc[h] \in {"listen", "register"} =>
       IF fwd[loc[h].f].kind = "remote" THEN loc[h].c \in Clients ELSE loc[h].c = Host
  /\ \A h \in Handlers : pc[h] = "register" /\ loc[h].c \in net \cup {Host} =>
       Open(loc[h].l, loc[h].c)
  /\ pc[Reconnector] = "swap" /\ client \in net => Open(loc[Reconnector].l, client)

\* A registered forward listens: on the daemon's host always, on the server
\* once the reconnect is past it.
Rebound(f) ==
  /\ client \in net
  /\ pc[Reconnector] \notin {"dial", "snap"} /\ f \notin todo
  /\ ~(pc[Reconnector] = "swap" /\ loc[Reconnector].f = f)
RegisteredListen ==
  \A id \in Ids : forwards[id] # None /\ forwards[id] \notin missed =>
    IF fwd[forwards[id]].kind = "remote"
    THEN Rebound(forwards[id]) => Open(fwd[forwards[id]].listener, client)
    ELSE Open(fwd[forwards[id]].listener, Host)

\* The inductive invariant.
ForwardsInv ==
  /\ TypeOK /\ LocalsOK /\ DrainOK
  /\ ForwardOK /\ RebindOK /\ ListenersOK /\ Ownership
  /\ ReconnectOK /\ NewOpen /\ RegisteredListen

-----------------------------------------------------------------------------
(* What the updates of the model do, field by field                        *)

Points == {"idle", "listen", "register", "start", "cas", "close", "drain", "clear",
           "ended", "dial", "snap", "rebind", "swap", "old"}

\* The actors are who they are.
LEMMA ActorFacts ==
  /\ Reconnector \in Actors /\ Closer \in Actors /\ Reconnector # Closer
  /\ \A h \in Handlers : h \in Actors /\ h # Reconnector /\ h # Closer
  /\ \A a \in Actors : a \in Handlers \/ a = Reconnector \/ a = Closer
  /\ None \notin Forwards /\ None \notin Listeners /\ None \notin Ids /\ None \notin Clients
  /\ None \notin ListenerRecords /\ Host \notin Clients /\ Host # None
BY ForwardsAssumption DEF Actors

\* The fields of the records in the state.
LEMMA StateTypes ==
  ASSUME TypeOK
  PROVE  /\ \A a \in Actors : /\ loc[a] \in Locals /\ loc[a].f \in Forwards \cup {None}
                              /\ loc[a].l \in Listeners \cup {None}
                              /\ loc[a].c \in Clients \cup {Host, None}
         /\ \A f \in Forwards : /\ fwd[f] \in ForwardRecords
                                /\ fwd[f].id \in Ids \cup {None}
                                /\ fwd[f].listener \in Listeners \cup {None}
                                /\ fwd[f].closed \in BOOLEAN /\ fwd[f].port \in Nat
         /\ \A l \in Listeners : ln[l] # None =>
              /\ ln[l] \in ListenerRecords /\ ln[l].f \in Forwards
              /\ ln[l].on \in Clients \cup {Host}
         /\ \A id \in Ids : forwards[id] \in Forwards \cup {None}
<1>1. \A a \in Actors : loc[a] \in Locals
  BY DEF TypeOK
<1>2. \A f \in Forwards : fwd[f] \in ForwardRecords
  BY DEF TypeOK
<1>3. \A l \in Listeners : ln[l] # None => ln[l] \in ListenerRecords
  BY DEF TypeOK
<1>4. \A id \in Ids : forwards[id] \in Forwards \cup {None}
  BY DEF TypeOK
<1> QED
  BY <1>1, <1>2, <1>3, <1>4 DEF Locals, ForwardRecords, ListenerRecords

\* The points of TypeOK are Points, and each actor has its own.
LEMMA GotoFacts ==
  ASSUME TypeOK, NEW a \in Actors, NEW p \in Points, Goto(a, p),
         \/ a \in Handlers /\ p \in {"idle", "listen", "register", "start", "cas", "close"}
         \/ a = Closer /\ p \in {"idle", "drain", "cas", "close", "clear", "ended"}
         \/ a = Reconnector /\ p \in {"idle", "dial", "snap", "rebind", "swap", "old"}
  PROVE  /\ pc' \in [Actors -> Points]
         /\ pc'[a] = p /\ \A b \in Actors : b # a => pc'[b] = pc[b]
         /\ \A h \in Handlers : pc'[h] \in {"idle", "listen", "register", "start", "cas", "close"}
         /\ pc'[Closer] \in {"idle", "drain", "cas", "close", "clear", "ended"}
         /\ pc'[Reconnector] \in {"idle", "dial", "snap", "rebind", "swap", "old"}
BY ActorFacts DEF TypeOK, Goto, Points

\* Leave forgets the local variables.
LEMMA LeaveFacts ==
  ASSUME TypeOK, NEW a \in Actors, loc' = [loc EXCEPT ![a] = NoLocals]
  PROVE  /\ loc' \in [Actors -> Locals]
         /\ loc'[a].f = None /\ loc'[a].l = None
         /\ \A b \in Actors : b # a => loc'[b] = loc[b]
<1>1. NoLocals \in Locals
  BY DEF NoLocals, Locals
<1>2. loc \in [Actors -> Locals]
  BY DEF TypeOK
<1>3. loc'[a] = NoLocals /\ \A b \in Actors : b # a => loc'[b] = loc[b]
  BY <1>2
<1> QED
  BY <1>1, <1>2, <1>3 DEF NoLocals

\* An actor takes a forward.
LEMMA TakeFacts ==
  ASSUME TypeOK, NEW a \in Actors, NEW f \in Forwards, loc' = [loc EXCEPT ![a].f = f]
  PROVE  /\ loc' \in [Actors -> Locals]
         /\ loc'[a].f = f /\ loc'[a].l = loc[a].l /\ loc'[a].c = loc[a].c
         /\ \A b \in Actors : b # a => loc'[b] = loc[b]
<1> DEFINE q == [loc[a] EXCEPT !.f = f]
<1>1. loc[a] \in Locals /\ loc \in [Actors -> Locals]
  BY DEF TypeOK
<1>2. q \in Locals /\ q.f = f /\ q.l = loc[a].l /\ q.c = loc[a].c
  BY <1>1 DEF Locals
<1>3. loc' = [loc EXCEPT ![a] = q]
  BY <1>1
<1>4. loc'[a] = q /\ \A b \in Actors : b # a => loc'[b] = loc[b]
  BY <1>1, <1>3
<1> HIDE DEF q
<1>5. loc' \in [Actors -> Locals]
  BY <1>1, <1>2, <1>3
<1> QED
  BY <1>2, <1>4, <1>5

\* An actor takes a listener.
LEMMA HoldFacts ==
  ASSUME TypeOK, NEW a \in Actors, NEW l \in Listeners \cup {None},
         loc' = [loc EXCEPT ![a].l = l]
  PROVE  /\ loc' \in [Actors -> Locals]
         /\ loc'[a].l = l /\ loc'[a].f = loc[a].f /\ loc'[a].c = loc[a].c
         /\ \A b \in Actors : b # a => loc'[b] = loc[b]
<1> DEFINE q == [loc[a] EXCEPT !.l = l]
<1>1. loc[a] \in Locals /\ loc \in [Actors -> Locals]
  BY DEF TypeOK
<1>2. q \in Locals /\ q.l = l /\ q.f = loc[a].f /\ q.c = loc[a].c
  BY <1>1 DEF Locals
<1>3. loc' = [loc EXCEPT ![a] = q]
  BY <1>1
<1>4. loc'[a] = q /\ \A b \in Actors : b # a => loc'[b] = loc[b]
  BY <1>1, <1>3
<1> HIDE DEF q
<1>5. loc' \in [Actors -> Locals]
  BY <1>1, <1>2, <1>3
<1> QED
  BY <1>2, <1>4, <1>5

\* A forward gets a listener.
LEMMA InstallFacts ==
  ASSUME TypeOK, NEW f \in Forwards, NEW l \in Listeners \cup {None},
         fwd' = [fwd EXCEPT ![f].listener = l]
  PROVE  /\ fwd' \in [Forwards -> ForwardRecords]
         /\ fwd'[f].listener = l
         /\ \A g \in Forwards : fwd'[g].closed = fwd[g].closed /\ fwd'[g].id = fwd[g].id
                                /\ fwd'[g].kind = fwd[g].kind
         /\ \A g \in Forwards : g # f => fwd'[g].listener = fwd[g].listener
<1> DEFINE q == [fwd[f] EXCEPT !.listener = l]
<1>1. fwd[f] \in ForwardRecords /\ fwd \in [Forwards -> ForwardRecords]
  BY DEF TypeOK
<1>2. /\ q \in ForwardRecords /\ q.listener = l
      /\ q.closed = fwd[f].closed /\ q.id = fwd[f].id /\ q.kind = fwd[f].kind
  BY <1>1 DEF ForwardRecords
<1>3. fwd' = [fwd EXCEPT ![f] = q]
  BY <1>1
<1>4. fwd'[f] = q /\ \A g \in Forwards : g # f => fwd'[g] = fwd[g]
  BY <1>1, <1>3
<1> HIDE DEF q
<1>5. fwd' \in [Forwards -> ForwardRecords]
  BY <1>1, <1>2, <1>3
<1> QED
  BY <1>2, <1>4, <1>5

\* A forward is closed.
LEMMA CloseFacts ==
  ASSUME TypeOK, NEW f \in Forwards, fwd' = [fwd EXCEPT ![f].closed = TRUE]
  PROVE  /\ fwd' \in [Forwards -> ForwardRecords]
         /\ fwd'[f].closed
         /\ \A g \in Forwards : fwd'[g].listener = fwd[g].listener /\ fwd'[g].id = fwd[g].id
                                /\ fwd'[g].kind = fwd[g].kind
         /\ \A g \in Forwards : g # f => fwd'[g].closed = fwd[g].closed
<1> DEFINE q == [fwd[f] EXCEPT !.closed = TRUE]
<1>1. fwd[f] \in ForwardRecords /\ fwd \in [Forwards -> ForwardRecords]
  BY DEF TypeOK
<1>2. /\ q \in ForwardRecords /\ q.closed = TRUE
      /\ q.listener = fwd[f].listener /\ q.id = fwd[f].id /\ q.kind = fwd[f].kind
  BY <1>1 DEF ForwardRecords
<1>3. fwd' = [fwd EXCEPT ![f] = q]
  BY <1>1
<1>4. fwd'[f] = q /\ \A g \in Forwards : g # f => fwd'[g] = fwd[g]
  BY <1>1, <1>3
<1> HIDE DEF q
<1>5. fwd' \in [Forwards -> ForwardRecords]
  BY <1>1, <1>2, <1>3
<1> QED
  BY <1>2, <1>4, <1>5

\* An object is reset only when nobody but its last user refers to it.
LEMMA ForgetFacts ==
  ASSUME TypeOK, NEW a \in Actors, NEW f \in Forwards, Forget(a, f)
  PROVE  /\ fwd' \in [Forwards -> ForwardRecords]
         /\ \A g \in Forwards : g # f => fwd'[g] = fwd[g]
         /\ \/ fwd'[f] = fwd[f] /\ missed' = missed
            \/ /\ fwd'[f] = NoForward /\ missed' = missed \ {f}
               /\ \A id \in Ids : forwards[id] # f
               /\ \A b \in Actors : b # a => loc[b].f # f
               /\ a # Reconnector => f \notin todo
<1> DEFINE gone == {f} \ (Registered \cup Held(Actors \ {a})
                     \cup (IF a = Reconnector THEN {} ELSE todo))
<1>0. NoForward \in ForwardRecords
  BY DEF NoForward, ForwardRecords, AnyPort
<1>1. fwd \in [Forwards -> ForwardRecords]
  BY DEF TypeOK
<1>2. /\ fwd' = [g \in Forwards |-> IF g \in gone THEN NoForward ELSE fwd[g]]
      /\ missed' = missed \ gone
  BY DEF Forget
<1>3. gone = {} \/ gone = {f}
  OBVIOUS
<1>4. f \in gone => /\ \A id \in Ids : forwards[id] # f
                    /\ \A b \in Actors : b # a => loc[b].f # f
                    /\ a # Reconnector => f \notin todo
  BY ActorFacts DEF Registered, Held
<1> HIDE DEF gone
<1>5. fwd' \in [Forwards -> ForwardRecords]
  BY <1>0, <1>1, <1>2
<1>6. \A g \in Forwards : fwd'[g] = IF g \in gone THEN NoForward ELSE fwd[g]
  BY <1>2
<1>7. CASE gone = {}
  BY <1>2, <1>5, <1>6, <1>7
<1>8. CASE gone = {f}
  BY <1>2, <1>4, <1>5, <1>6, <1>8
<1> QED
  BY <1>3, <1>7, <1>8

\* A fresh object is one of those asked for, and nobody refers to it.
LEMMA NewFacts ==
  ASSUME NEW S, NEW x \in New(S)
  PROVE  x \in S
BY DEF New

LEMMA FreshForwardFacts ==
  ASSUME TypeOK, NEW f \in New({g \in Forwards : FreshForward(g)})
  PROVE  /\ f \in Forwards /\ f \notin todo
         /\ \A id \in Ids : forwards[id] # f
         /\ \A a \in Actors : loc[a].f # f
<1>1. f \in Forwards /\ FreshForward(f)
  BY NewFacts
<1> QED
  BY <1>1, ActorFacts DEF FreshForward, Registered, Held

LEMMA FreshListenerFacts ==
  ASSUME NEW l \in NewListener
  PROVE  /\ l \in Listeners /\ ln[l] = None
         /\ \A a \in Actors : loc[a].l # l
         /\ \A f \in Forwards : fwd[f].listener # l
<1>1. l \in Listeners /\ FreshListener(l)
  BY NewFacts DEF NewListener
<1> QED
  BY <1>1 DEF FreshListener

\* A new listener.
LEMMA ListeningFacts ==
  ASSUME TypeOK, NEW l \in Listeners, NEW on \in Clients \cup {Host}, NEW f \in Forwards,
         Listening(l, on, f)
  PROVE  /\ ln' \in [Listeners -> ListenerRecords \cup {None}]
         /\ ln'[l] # None /\ ln'[l].f = f /\ ln'[l].on = on
         /\ \A m \in Listeners : m # l => ln'[m] = ln[m]
<1> DEFINE q == [on |-> on, port |-> fwd[f].port, f |-> f, loop |-> FALSE]
<1>1. q \in ListenerRecords /\ q.f = f /\ q.on = on
  BY StateTypes DEF ListenerRecords
<1>2. ln' = [ln EXCEPT ![l] = q] /\ ln \in [Listeners -> ListenerRecords \cup {None}]
  BY DEF Listening, TypeOK
<1> HIDE DEF q
<1> QED
  BY <1>1, <1>2, ActorFacts

\* Closing and starting listeners: one that is open afterwards was open before,
\* in the same place, for the same forward.
Closes(gone) ==
  /\ ln' \in [Listeners -> ListenerRecords \cup {None}]
  /\ \A m \in Listeners : m \in gone => ln'[m] = None
  /\ \A m \in Listeners : m \notin gone /\ ln[m] # None =>
       ln'[m] # None /\ ln'[m].f = ln[m].f /\ ln'[m].on = ln[m].on
  /\ \A m \in Listeners : ln[m] = None => ln'[m] = None

LEMMA CloseListenerFacts ==
  ASSUME TypeOK, NEW l, CloseListener(l)
  PROVE  Closes({l})
<1>1. ln \in [Listeners -> ListenerRecords \cup {None}]
  BY DEF TypeOK
<1>2. \A m \in Listeners : ln'[m] = IF m = l THEN None ELSE ln[m]
  BY DEF CloseListener
<1>3. ln' \in [Listeners -> ListenerRecords \cup {None}]
  BY <1>1 DEF CloseListener
<1> QED
  BY <1>2, <1>3 DEF Closes

LEMMA CloseClientFacts ==
  ASSUME TypeOK, NEW c, CloseClient(c)
  PROVE  Closes({m \in Listeners : ln[m] # None /\ ln[m].on = c}) /\ net' \subseteq Clients
<1>1. ln \in [Listeners -> ListenerRecords \cup {None}]
  BY DEF TypeOK
<1>2. \A m \in Listeners : ln'[m] = IF ln[m] # None /\ ln[m].on = c THEN None ELSE ln[m]
  BY DEF CloseClient
<1>3. ln' \in [Listeners -> ListenerRecords \cup {None}]
  BY <1>1 DEF CloseClient
<1>4. net' \subseteq Clients
  BY DEF TypeOK, CloseClient
<1> QED
  BY <1>2, <1>3, <1>4 DEF Closes

LEMMA LoopFacts ==
  ASSUME NEW r \in ListenerRecords
  PROVE  LET s == [r EXCEPT !.loop = TRUE] IN
         s \in ListenerRecords /\ s # None /\ s.f = r.f /\ s.on = r.on
<1> DEFINE s == [r EXCEPT !.loop = TRUE]
<1>1. s \in ListenerRecords /\ s.f = r.f /\ s.on = r.on
  BY DEF ListenerRecords
<1> QED
  BY <1>1, ActorFacts

LEMMA StartLoopFacts ==
  ASSUME TypeOK, NEW l, StartLoop(l)
  PROVE  Closes({})
<1>1. ln \in [Listeners -> ListenerRecords \cup {None}]
  BY DEF TypeOK
<1> DEFINE q == IF ln[l] = None THEN None ELSE [ln[l] EXCEPT !.loop = TRUE]
<1>2. ln' = [ln EXCEPT ![l] = q]
  BY DEF StartLoop
<1>3. l \in Listeners => /\ q \in ListenerRecords \cup {None} /\ (q = None <=> ln[l] = None)
                         /\ ln[l] # None => q.f = ln[l].f /\ q.on = ln[l].on
  BY <1>1, LoopFacts
<1> HIDE DEF q
<1>4. ln' \in [Listeners -> ListenerRecords \cup {None}]
  BY <1>1, <1>2, <1>3
<1>5. \A m \in Listeners : ln'[m] = IF m = l THEN q ELSE ln[m]
  BY <1>1, <1>2
<1> QED
  BY <1>3, <1>4, <1>5 DEF Closes

\* RebindOld: the old listener is closed, the new one is started.
LEMMA RebindOldFacts ==
  ASSUME TypeOK, RebindOld
  PROVE  Closes({loc[Reconnector].l})
<1>1. ln \in [Listeners -> ListenerRecords \cup {None}]
  BY DEF TypeOK
<1> DEFINE new == fwd[loc[Reconnector].f].listener
           q(l) == IF l = loc[Reconnector].l THEN None
                   ELSE IF l = new /\ ln[l] # None THEN [ln[l] EXCEPT !.loop = TRUE]
                   ELSE ln[l]
<1>2. ln' = [l \in Listeners |-> q(l)]
  BY DEF RebindOld
<1>3. ASSUME NEW l \in Listeners
      PROVE  /\ q(l) \in ListenerRecords \cup {None}
             /\ l = loc[Reconnector].l => q(l) = None
             /\ l # loc[Reconnector].l /\ ln[l] # None =>
                  q(l) # None /\ q(l).f = ln[l].f /\ q(l).on = ln[l].on
             /\ ln[l] = None => q(l) = None
  <2>1. CASE l = loc[Reconnector].l
    <3>1. q(l) = None
      BY <2>1
    <3> HIDE DEF q
    <3> QED
      BY <3>1, <2>1
  <2>2. CASE l # loc[Reconnector].l /\ l = new /\ ln[l] # None
    <3>1. q(l) = [ln[l] EXCEPT !.loop = TRUE]
      BY <2>2
    <3>2. ln[l] \in ListenerRecords
      BY <1>1, <2>2
    <3> HIDE DEF q
    <3> QED
      BY <3>1, <3>2, <2>2, LoopFacts
  <2>3. CASE l # loc[Reconnector].l /\ ~(l = new /\ ln[l] # None)
    <3>1. q(l) = ln[l]
      BY <2>3
    <3> QED
      BY <3>1, <1>1, <2>3
  <2> QED
    BY <2>1, <2>2, <2>3
<1> HIDE DEF q
<1>4. ln' \in [Listeners -> ListenerRecords \cup {None}]
  BY <1>2, <1>3
<1>5. \A m \in Listeners : ln'[m] = q(m)
  BY <1>2
<1> QED
  BY <1>3, <1>4, <1>5 DEF Closes

-----------------------------------------------------------------------------
(* Every step keeps the ownership of listeners                             *)

\* rebindForwards keeps finding what it has left, or is working on, closed or
\* live, when a step closes no forward behind its back.
LEMMA RebindKeeps ==
  ASSUME TypeOK, RebindOK, LocalsOK, todo' \subseteq todo,
         pc'[Reconnector] \in {"swap", "old"} =>
           pc[Reconnector] \in {"swap", "old"} /\ loc'[Reconnector].f = loc[Reconnector].f,
         \A g \in Forwards : fwd[g].closed => fwd'[g].closed,
         \A g \in Forwards : Live(g) => Live(g)' \/ fwd'[g].closed
  PROVE  RebindOK'
<1>1. pc[Reconnector] \in {"swap", "old"} => loc[Reconnector].f \in Forwards
  BY ActorFacts, StateTypes DEF LocalsOK, Works
<1>2. \A f \in todo' : fwd'[f].closed \/ Live(f)'
  BY DEF RebindOK, TypeOK
<1>3. (pc[Reconnector] \in {"swap", "old"} =>
         fwd[loc[Reconnector].f].closed \/ Live(loc[Reconnector].f))'
  <2> SUFFICES ASSUME pc'[Reconnector] \in {"swap", "old"}
               PROVE  (fwd[loc[Reconnector].f].closed \/ Live(loc[Reconnector].f))'
    OBVIOUS
  <2>1. PICK g \in Forwards : g = loc[Reconnector].f
    BY <1>1
  <2>2. loc'[Reconnector].f = g /\ (fwd[g].closed \/ Live(g))
    BY <2>1 DEF RebindOK
  <2>3. fwd'[g].closed \/ Live(g)'
    BY <2>1, <2>2
  <2> QED
    BY <2>2, <2>3 DEF Live
<1> QED
  BY <1>2, <1>3 DEF RebindOK

\* A new forward is known to its call alone.
LEMMA OpenBeginKeeps ==
  ASSUME ForwardsInv, NEW h \in Handlers, NEW id \in Ids, NEW kind \in Kinds, NEW port \in Ports,
         OpenBegin(h, id, kind, port)
  PROVE  ForwardsInv'
<1>0. /\ TypeOK /\ LocalsOK /\ DrainOK /\ ForwardOK /\ RebindOK /\ ListenersOK /\ Ownership
      /\ ReconnectOK /\ NewOpen /\ RegisteredListen /\ h \in Actors
  BY ActorFacts DEF ForwardsInv
<1>1. PICK f \in New({g \in Forwards : FreshForward(g)}) :
        /\ fwd' = [fwd EXCEPT ![f] = [id |-> id, kind |-> kind, port |-> port,
                                      closed |-> FALSE, listener |-> None]]
        /\ loc' = [loc EXCEPT ![h] = [f |-> f, l |-> None,
                                      c |-> IF kind = "remote" THEN client ELSE Host]]
  BY DEF OpenBegin
<1>2. /\ f \in Forwards /\ f \notin todo /\ \A i \in Ids : forwards[i] # f
      /\ \A a \in Actors : loc[a].f # f
  BY <1>0, FreshForwardFacts
<1>3. /\ pc[h] = "idle" /\ pc'[h] = "listen" /\ \A b \in Actors : b # h => pc'[b] = pc[b]
      /\ pc' \in [Actors -> Points]
      /\ \A i \in Handlers : pc'[i] \in {"idle", "listen", "register", "start", "cas", "close"}
      /\ pc'[Closer] \in {"idle", "drain", "cas", "close", "clear", "ended"}
      /\ pc'[Reconnector] \in {"idle", "dial", "snap", "rebind", "swap", "old"}
  BY <1>0, GotoFacts DEF OpenBegin, At, Points
<1>4. /\ loc' \in [Actors -> Locals] /\ loc'[h].f = f /\ loc'[h].l = None
      /\ loc'[h].c = IF kind = "remote" THEN client ELSE Host
      /\ \A b \in Actors : b # h => loc'[b] = loc[b]
  <2> DEFINE q == [f |-> f, l |-> None, c |-> IF kind = "remote" THEN client ELSE Host]
  <2>1. q \in Locals /\ q.f = f /\ q.l = None /\ q.c = IF kind = "remote" THEN client ELSE Host
    BY <1>0, <1>2 DEF Locals, TypeOK
  <2>2. loc \in [Actors -> Locals] /\ loc' = [loc EXCEPT ![h] = q]
    BY <1>0, <1>1 DEF TypeOK
  <2> HIDE DEF q
  <2> QED
    BY <2>1, <2>2, <1>0
<1>5. /\ fwd' \in [Forwards -> ForwardRecords]
      /\ fwd'[f].id \in Ids /\ ~fwd'[f].closed /\ fwd'[f].listener = None /\ fwd'[f].kind = kind
      /\ \A g \in Forwards : g # f => fwd'[g] = fwd[g]
  <2> DEFINE q == [id |-> id, kind |-> kind, port |-> port, closed |-> FALSE, listener |-> None]
  <2>1. q \in ForwardRecords /\ q.id \in Ids /\ ~q.closed /\ q.listener = None /\ q.kind = kind
    BY ForwardsAssumption DEF ForwardRecords
  <2>2. fwd \in [Forwards -> ForwardRecords] /\ fwd' = [fwd EXCEPT ![f] = q]
    BY <1>0, <1>1 DEF TypeOK
  <2> HIDE DEF q
  <2> QED
    BY <2>1, <2>2, <1>2
<1>6. client \in Clients /\ UNCHANGED <<closed, client, net, forwards, ln, todo, missed>>
  BY <1>0 DEF OpenBegin, TypeOK
<1>7. TypeOK'
  BY <1>0, <1>3, <1>4, <1>5, <1>6 DEF TypeOK, Points
<1>8. LocalsOK'
  BY <1>0, <1>2, <1>3, <1>4, ActorFacts DEF LocalsOK, Works
<1>9. DrainOK'
  BY <1>3, <1>6, ActorFacts DEF ForwardsInv, DrainOK
<1>10. ForwardOK'
  BY <1>0, <1>2, <1>3, <1>4, <1>5, <1>6, ActorFacts, StateTypes
     DEF ForwardOK, LocalsOK, Works
<1>11. RebindOK'
  <2>1. \A g \in Forwards : Live(g) => Live(g)'
    BY <1>3, <1>4, <1>6, ActorFacts DEF Live
  <2>2. \A g \in todo : fwd'[g].closed = fwd[g].closed
    BY <1>0, <1>2, <1>5 DEF TypeOK
  <2>3. \A g \in todo' : fwd'[g].closed \/ Live(g)'
    BY <1>0, <1>6, <2>1, <2>2 DEF RebindOK, TypeOK
  <2>4. (pc[Reconnector] \in {"swap", "old"} =>
           fwd[loc[Reconnector].f].closed \/ Live(loc[Reconnector].f))'
    <3> SUFFICES ASSUME pc'[Reconnector] \in {"swap", "old"}
                 PROVE  (fwd[loc[Reconnector].f].closed \/ Live(loc[Reconnector].f))'
      OBVIOUS
    <3>1. pc[Reconnector] \in {"swap", "old"} /\ loc'[Reconnector] = loc[Reconnector]
      BY <1>3, <1>4, ActorFacts
    <3>2. PICK g \in Forwards : g = loc[Reconnector].f
      BY <1>0, <3>1, ActorFacts, StateTypes DEF LocalsOK, Works
    <3>3. g # f /\ (fwd[g].closed \/ Live(g))
      BY <1>0, <1>2, <3>1, <3>2, ActorFacts DEF RebindOK
    <3> QED
      BY <1>5, <2>1, <3>1, <3>2, <3>3 DEF Live
  <2> QED
    BY <2>3, <2>4 DEF RebindOK
<1>12. ListenersOK'
  BY <1>0, <1>2, <1>3, <1>4, <1>5, <1>6, ActorFacts, StateTypes
     DEF ListenersOK, LocalsOK, Works
<1>13. Ownership'
  BY <1>0, <1>2, <1>3, <1>4, <1>5, <1>6, ActorFacts, StateTypes
     DEF Ownership, Owned, LocalsOK, Works
<1>14. ReconnectOK'
  BY <1>0, <1>2, <1>3, <1>4, <1>5, <1>6, ActorFacts, StateTypes
     DEF ReconnectOK, LocalsOK, Works
<1>15. NewOpen'
  BY <1>0, <1>2, <1>3, <1>4, <1>5, <1>6, ActorFacts, StateTypes
     DEF NewOpen, Open, LocalsOK, Works
<1>16. RegisteredListen'
  BY <1>0, <1>2, <1>3, <1>4, <1>5, <1>6, ActorFacts, StateTypes
     DEF RegisteredListen, Rebound, Open
<1> QED
  BY <1>7, <1>8, <1>9, <1>10, <1>11, <1>12, <1>13, <1>14, <1>15, <1>16 DEF ForwardsInv

\* The listener of a new forward is its call's until it is registered.
LEMMA OpenListenKeeps ==
  ASSUME ForwardsInv, NEW h \in Handlers, OpenListen(h)
  PROVE  ForwardsInv'
<1> DEFINE f == loc[h].f
<1>0. /\ TypeOK /\ LocalsOK /\ DrainOK /\ ForwardOK /\ RebindOK /\ ListenersOK /\ Ownership
      /\ ReconnectOK /\ NewOpen /\ RegisteredListen
      /\ h \in Actors /\ f \in Forwards /\ pc[h] = "listen"
      /\ loc[h].c \in Clients \cup {Host}
  <2>1. /\ TypeOK /\ LocalsOK /\ DrainOK /\ ForwardOK /\ RebindOK /\ ListenersOK /\ Ownership
        /\ ReconnectOK /\ NewOpen /\ RegisteredListen /\ h \in Actors /\ pc[h] = "listen"
    BY ActorFacts DEF ForwardsInv, OpenListen, At
  <2>2. loc[h].c \in Clients \cup {Host}
    BY <2>1 DEF OpenListen, CanListen, TypeOK
  <2> QED
    BY <2>1, <2>2, StateTypes DEF LocalsOK, Works
<1>1. PICK l \in NewListener :
        /\ Listening(l, loc[h].c, f)
        /\ fwd' = [fwd EXCEPT ![f].listener = l]
        /\ loc' = [loc EXCEPT ![h].l = l]
  BY DEF OpenListen
<1>2. /\ l \in Listeners /\ ln[l] = None /\ \A a \in Actors : loc[a].l # l
      /\ \A g \in Forwards : fwd[g].listener # l
  BY FreshListenerFacts
<1>3. /\ pc'[h] = "register" /\ \A b \in Actors : b # h => pc'[b] = pc[b]
      /\ pc' \in [Actors -> Points]
      /\ \A i \in Handlers : pc'[i] \in {"idle", "listen", "register", "start", "cas", "close"}
      /\ pc'[Closer] \in {"idle", "drain", "cas", "close", "clear", "ended"}
      /\ pc'[Reconnector] \in {"idle", "dial", "snap", "rebind", "swap", "old"}
  BY <1>0, GotoFacts DEF OpenListen, Points
<1>4. /\ loc' \in [Actors -> Locals] /\ loc'[h].f = f /\ loc'[h].l = l /\ loc'[h].c = loc[h].c
      /\ \A b \in Actors : b # h => loc'[b] = loc[b]
  BY <1>0, <1>1, <1>2, HoldFacts
<1>5. /\ fwd' \in [Forwards -> ForwardRecords] /\ fwd'[f].listener = l
      /\ \A g \in Forwards : fwd'[g].closed = fwd[g].closed /\ fwd'[g].id = fwd[g].id
                             /\ fwd'[g].kind = fwd[g].kind
      /\ \A g \in Forwards : g # f => fwd'[g].listener = fwd[g].listener
  BY <1>0, <1>1, <1>2, InstallFacts
<1>6. /\ ln' \in [Listeners -> ListenerRecords \cup {None}] /\ ln'[l] # None /\ ln'[l].f = f
      /\ ln'[l].on = loc[h].c
      /\ \A m \in Listeners : m # l => ln'[m] = ln[m]
  BY <1>0, <1>1, <1>2, ListeningFacts
<1>f. UNCHANGED <<closed, client, net, forwards, todo, missed>>
  BY DEF OpenListen
<1>7. TypeOK'
  BY <1>0, <1>3, <1>4, <1>5, <1>6, <1>f DEF TypeOK, Points
<1>8. LocalsOK'
  BY <1>0, <1>2, <1>3, <1>4, ActorFacts DEF LocalsOK, Works
<1>9. DrainOK'
  BY <1>3, <1>f, ActorFacts DEF ForwardsInv, DrainOK
<1>10. ForwardOK'
  <2>1. \A a \in Actors : loc'[a].f = loc[a].f /\ (loc[a].f # None => loc[a].f \in Forwards)
    BY <1>0, <1>4, StateTypes
  <2>2. \A a \in Actors : /\ pc'[a] = "cas" <=> pc[a] = "cas"
                          /\ pc'[a] = "close" <=> pc[a] = "close"
                          /\ pc'[a] \in {"listen", "register"} <=> pc[a] \in {"listen", "register"}
    BY <1>0, <1>3
  <2>3. \A a \in Actors : pc[a] \in {"listen", "register", "cas", "close"} => loc[a].f \in Forwards
    BY <1>0, <2>1 DEF LocalsOK, Works
  <2>4. \A g \in Forwards : fwd'[g].closed = fwd[g].closed /\ fwd'[g].id = fwd[g].id
    BY <1>5
  <2>5. \A id \in Ids : forwards[id] # None => forwards[id] \in Forwards
    BY <1>0, StateTypes
  <2> QED
    BY <1>0, <1>f, <2>1, <2>2, <2>3, <2>4, <2>5, ActorFacts DEF ForwardOK
<1>11. RebindOK'
  <2>1. \A g \in Forwards : Live(g) => Live(g)'
    BY <1>0, <1>3, <1>4, <1>f, ActorFacts DEF Live
  <2> QED
    BY <2>1, <1>0, <1>3, <1>4, <1>5, <1>f, ActorFacts, RebindKeeps DEF ForwardsInv
<1>12. ListenersOK'
  <2>1. \A g \in Forwards : fwd'[g].listener # None /\ ln'[fwd'[g].listener] # None =>
          ln'[fwd'[g].listener].f = g
    BY <1>0, <1>2, <1>5, <1>6, StateTypes DEF ListenersOK
  <2>2. \A a \in Actors : loc'[a].l # None /\ ln'[loc'[a].l] # None => ln'[loc'[a].l].f = loc'[a].f
    BY <1>0, <1>2, <1>4, <1>6, StateTypes DEF ListenersOK
  <2>3. \A i \in Handlers : pc'[i] = "register" =>
          loc'[i].l # None /\ fwd'[loc'[i].f].listener = loc'[i].l
    BY <1>0, <1>2, <1>3, <1>4, <1>5, ActorFacts, StateTypes
       DEF ListenersOK, ForwardOK, LocalsOK, Works
  <2> QED
    BY <2>1, <2>2, <2>3 DEF ListenersOK
<1>13. Ownership'
  <2> SUFFICES ASSUME NEW m \in Listeners, ln'[m] # None
               PROVE  Owned(m)'
    BY DEF Ownership
  <2>1. CASE m = l
    BY <2>1, <1>3, <1>4 DEF Owned
  <2>2. CASE m # l
    <3>1. Owned(m) /\ ln'[m] = ln[m] /\ ln[m].f \in Forwards
      BY <2>2, <1>0, <1>6, StateTypes DEF Ownership
    <3> QED
      BY <3>1, <1>0, <1>2, <1>3, <1>4, <1>5, <1>f, ActorFacts DEF Owned, ForwardOK
  <2> QED
    BY <2>1, <2>2
<1>14. ReconnectOK'
  BY <1>0, <1>2, <1>3, <1>4, <1>5, <1>6, <1>f, ActorFacts, StateTypes
     DEF ReconnectOK, ForwardOK, LocalsOK, Works
<1>15. NewOpen'
  BY <1>0, <1>2, <1>3, <1>4, <1>5, <1>6, <1>f, ActorFacts, StateTypes
     DEF NewOpen, Open, ForwardOK, LocalsOK, Works
<1>16. RegisteredListen'
  BY <1>0, <1>2, <1>3, <1>4, <1>5, <1>6, <1>f, ActorFacts, StateTypes
     DEF RegisteredListen, Rebound, Open, ForwardOK
<1> QED
  BY <1>7, <1>8, <1>9, <1>10, <1>11, <1>12, <1>13, <1>14, <1>15, <1>16 DEF ForwardsInv

\* A forward that got no listener is gone.
\* A forward that got no listener is gone.
LEMMA OpenListenFailsKeeps ==
  ASSUME ForwardsInv, NEW h \in Handlers, OpenListenFails(h)
  PROVE  ForwardsInv'
<1> DEFINE f == loc[h].f
<1>0. /\ TypeOK /\ LocalsOK /\ DrainOK /\ ForwardOK /\ RebindOK /\ ListenersOK /\ Ownership
      /\ ReconnectOK /\ NewOpen /\ RegisteredListen
  BY DEF ForwardsInv
<1>1. h \in Actors /\ f \in Forwards /\ pc[h] = "listen"
  BY <1>0, ActorFacts, StateTypes DEF LocalsOK, Works, OpenListenFails, At
<1>2. /\ pc'[h] = "idle" /\ \A b \in Actors : b # h => pc'[b] = pc[b]
      /\ pc' \in [Actors -> Points]
      /\ \A i \in Handlers : pc'[i] \in {"idle", "listen", "register", "start", "cas", "close"}
      /\ pc'[Closer] \in {"idle", "drain", "cas", "close", "clear", "ended"}
      /\ pc'[Reconnector] \in {"idle", "dial", "snap", "rebind", "swap", "old"}
  BY <1>0, <1>1, GotoFacts DEF OpenListenFails, Return, Leave, Points
<1>3. /\ loc' \in [Actors -> Locals] /\ loc'[h].f = None /\ loc'[h].l = None
      /\ \A b \in Actors : b # h => loc'[b] = loc[b]
  BY <1>0, <1>1, LeaveFacts DEF OpenListenFails, Return, Leave
<1>4. /\ fwd' \in [Forwards -> ForwardRecords]
      /\ \A g \in Forwards : g # f => fwd'[g] = fwd[g]
      /\ \/ fwd'[f] = fwd[f] /\ missed' = missed
         \/ /\ fwd'[f].closed /\ fwd'[f].listener = None /\ missed' = missed \ {f}
            /\ \A i \in Ids : forwards[i] # f
            /\ \A b \in Actors : b # h => loc[b].f # f
            /\ h # Reconnector => f \notin todo
  BY <1>0, <1>1, ForgetFacts DEF OpenListenFails, NoForward
<1>5. UNCHANGED <<closed, client, net, forwards, ln, todo>>
  BY DEF OpenListenFails
<1>11. TypeOK'
  BY <1>0, <1>1, <1>2, <1>3, <1>4, <1>5, ActorFacts DEF TypeOK, Points
<1>12. LocalsOK'
  BY <1>0, <1>1, <1>2, <1>3, ActorFacts DEF LocalsOK, Works
<1>13. DrainOK'
  BY <1>0, <1>1, <1>2, <1>5, ActorFacts DEF DrainOK
<1>14. ForwardOK'
  BY <1>0, <1>1, <1>2, <1>3, <1>4, <1>5, ActorFacts, StateTypes
     DEF ForwardOK, LocalsOK, Works
<1>15. RebindOK'
  <2>1. \A g \in Forwards : Live(g) => Live(g)'
    BY <1>0, <1>1, <1>2, <1>3, <1>5, ActorFacts, StateTypes DEF Live
  <2>2. \A g \in Forwards : fwd[g].closed => fwd'[g].closed
    BY <1>4, StateTypes
  <2> QED
    BY <2>1, <2>2, <1>0, <1>1, <1>2, <1>3, <1>5, ActorFacts, RebindKeeps
<1>16. ListenersOK'
  BY <1>0, <1>1, <1>2, <1>3, <1>4, <1>5, ActorFacts, StateTypes
     DEF ListenersOK, ForwardOK, LocalsOK, Works
<1>17. Ownership'
  BY <1>0, <1>1, <1>2, <1>3, <1>4, <1>5, ActorFacts, StateTypes
     DEF Ownership, Owned, ForwardOK, LocalsOK, Works
<1>18. ReconnectOK'
  BY <1>0, <1>1, <1>2, <1>3, <1>4, <1>5, ActorFacts, StateTypes
     DEF ReconnectOK, LocalsOK, Works
<1>19. NewOpen'
  BY <1>0, <1>1, <1>2, <1>3, <1>4, <1>5, ActorFacts, StateTypes
     DEF NewOpen, Open, ForwardOK, ListenersOK, ReconnectOK, LocalsOK, Works
<1>20. RegisteredListen'
  BY <1>0, <1>1, <1>2, <1>3, <1>4, <1>5, ActorFacts, StateTypes
     DEF RegisteredListen, Rebound, Open, ForwardOK, ListenersOK, ReconnectOK, LocalsOK,
         Works
<1> QED
  BY <1>11, <1>12, <1>13, <1>14, <1>15, <1>16, <1>17, <1>18, <1>19, <1>20 DEF ForwardsInv

\* registerForward refuses: the call closes its listener.
\* registerForward refuses: the call closes its listener.
LEMMA OpenRefusedKeeps ==
  ASSUME ForwardsInv, NEW h \in Handlers, OpenRefused(h)
  PROVE  ForwardsInv'
<1> DEFINE f == loc[h].f
<1>0. /\ TypeOK /\ LocalsOK /\ DrainOK /\ ForwardOK /\ RebindOK /\ ListenersOK /\ Ownership
      /\ ReconnectOK /\ NewOpen /\ RegisteredListen
  BY DEF ForwardsInv
<1>1. h \in Actors /\ f \in Forwards /\ pc[h] = "register"
  BY <1>0, ActorFacts, StateTypes DEF LocalsOK, Works, OpenRefused, At
<1>2. /\ pc'[h] = "idle" /\ \A b \in Actors : b # h => pc'[b] = pc[b]
      /\ pc' \in [Actors -> Points]
      /\ \A i \in Handlers : pc'[i] \in {"idle", "listen", "register", "start", "cas", "close"}
      /\ pc'[Closer] \in {"idle", "drain", "cas", "close", "clear", "ended"}
      /\ pc'[Reconnector] \in {"idle", "dial", "snap", "rebind", "swap", "old"}
  BY <1>0, <1>1, GotoFacts DEF OpenRefused, Return, Leave, Points
<1>3. /\ loc' \in [Actors -> Locals] /\ loc'[h].f = None /\ loc'[h].l = None
      /\ \A b \in Actors : b # h => loc'[b] = loc[b]
  BY <1>0, <1>1, LeaveFacts DEF OpenRefused, Return, Leave
<1>4. /\ fwd' \in [Forwards -> ForwardRecords]
      /\ \A g \in Forwards : g # f => fwd'[g] = fwd[g]
      /\ \/ fwd'[f] = fwd[f] /\ missed' = missed
         \/ /\ fwd'[f].closed /\ fwd'[f].listener = None /\ missed' = missed \ {f}
            /\ \A i \in Ids : forwards[i] # f
            /\ \A b \in Actors : b # h => loc[b].f # f
            /\ h # Reconnector => f \notin todo
  BY <1>0, <1>1, ForgetFacts DEF OpenRefused, NoForward
<1>5. UNCHANGED <<closed, client, net, forwards, todo>>
  BY DEF OpenRefused
<1>6. Closes({loc[h].l})
  <2>1. PICK l : l = loc[h].l
    OBVIOUS
  <2>2. CloseListener(l)
    BY <2>1 DEF OpenRefused
  <2>3. Closes({l})
    BY <1>0, <2>2, CloseListenerFacts
  <2> QED
    BY <2>1, <2>3 DEF Closes
<1>11. TypeOK'
  BY <1>0, <1>1, <1>2, <1>3, <1>4, <1>5, <1>6, ActorFacts DEF TypeOK, Points, Closes
<1>12. LocalsOK'
  BY <1>0, <1>1, <1>2, <1>3, ActorFacts DEF LocalsOK, Works
<1>13. DrainOK'
  BY <1>0, <1>1, <1>2, <1>5, ActorFacts DEF DrainOK
<1>14. ForwardOK'
  BY <1>0, <1>1, <1>2, <1>3, <1>4, <1>5, ActorFacts, StateTypes
     DEF ForwardOK, LocalsOK, Works
<1>15. RebindOK'
  <2>1. \A g \in Forwards : Live(g) => Live(g)'
    BY <1>0, <1>1, <1>2, <1>3, <1>5, ActorFacts, StateTypes DEF Live
  <2>2. \A g \in Forwards : fwd[g].closed => fwd'[g].closed
    BY <1>4, StateTypes
  <2> QED
    BY <2>1, <2>2, <1>0, <1>1, <1>2, <1>3, <1>5, ActorFacts, RebindKeeps
<1>16. ListenersOK'
  BY <1>0, <1>1, <1>2, <1>3, <1>4, <1>5, <1>6, ActorFacts, StateTypes
     DEF ListenersOK, ForwardOK, LocalsOK, Works, Closes
<1>17. Ownership'
  BY <1>0, <1>1, <1>2, <1>3, <1>4, <1>5, <1>6, ActorFacts, StateTypes
     DEF Ownership, Owned, ForwardOK, LocalsOK, Works, Closes
<1>18. ReconnectOK'
  BY <1>0, <1>1, <1>2, <1>3, <1>4, <1>5, ActorFacts, StateTypes
     DEF ReconnectOK, LocalsOK, Works
<1>19. NewOpen'
  BY <1>0, <1>1, <1>2, <1>3, <1>4, <1>5, <1>6, ActorFacts, StateTypes
     DEF NewOpen, Open, ForwardOK, ListenersOK, ReconnectOK, LocalsOK, Works, Closes
<1>20. RegisteredListen'
  BY <1>0, <1>1, <1>2, <1>3, <1>4, <1>5, <1>6, ActorFacts, StateTypes
     DEF RegisteredListen, Rebound, Open, ForwardOK, ListenersOK, ReconnectOK, LocalsOK,
         Works, Closes
<1> QED
  BY <1>11, <1>12, <1>13, <1>14, <1>15, <1>16, <1>17, <1>18, <1>19, <1>20 DEF ForwardsInv

\* The accept loop starts; the call is over.
\* The accept loop starts; the call is over.
LEMMA OpenStartKeeps ==
  ASSUME ForwardsInv, NEW h \in Handlers, OpenStart(h)
  PROVE  ForwardsInv'
<1> DEFINE f == loc[h].f
<1>0. /\ TypeOK /\ LocalsOK /\ DrainOK /\ ForwardOK /\ RebindOK /\ ListenersOK /\ Ownership
      /\ ReconnectOK /\ NewOpen /\ RegisteredListen
  BY DEF ForwardsInv
<1>1. h \in Actors /\ f \in Forwards /\ pc[h] = "start"
  BY <1>0, ActorFacts, StateTypes DEF LocalsOK, Works, OpenStart, At
<1>2. /\ pc'[h] = "idle" /\ \A b \in Actors : b # h => pc'[b] = pc[b]
      /\ pc' \in [Actors -> Points]
      /\ \A i \in Handlers : pc'[i] \in {"idle", "listen", "register", "start", "cas", "close"}
      /\ pc'[Closer] \in {"idle", "drain", "cas", "close", "clear", "ended"}
      /\ pc'[Reconnector] \in {"idle", "dial", "snap", "rebind", "swap", "old"}
  BY <1>0, <1>1, GotoFacts DEF OpenStart, Return, Leave, Points
<1>3. /\ loc' \in [Actors -> Locals] /\ loc'[h].f = None /\ loc'[h].l = None
      /\ \A b \in Actors : b # h => loc'[b] = loc[b]
  BY <1>0, <1>1, LeaveFacts DEF OpenStart, Return, Leave
<1>4. /\ fwd' \in [Forwards -> ForwardRecords]
      /\ \A g \in Forwards : g # f => fwd'[g] = fwd[g]
      /\ \/ fwd'[f] = fwd[f] /\ missed' = missed
         \/ /\ fwd'[f].closed /\ fwd'[f].listener = None /\ missed' = missed \ {f}
            /\ \A i \in Ids : forwards[i] # f
            /\ \A b \in Actors : b # h => loc[b].f # f
            /\ h # Reconnector => f \notin todo
  BY <1>0, <1>1, ForgetFacts DEF OpenStart, NoForward
<1>5. UNCHANGED <<closed, client, net, forwards, todo>>
  BY DEF OpenStart
<1>6. Closes({})
  BY <1>0, StartLoopFacts DEF OpenStart
<1>11. TypeOK'
  BY <1>0, <1>1, <1>2, <1>3, <1>4, <1>5, <1>6, ActorFacts DEF TypeOK, Points, Closes
<1>12. LocalsOK'
  BY <1>0, <1>1, <1>2, <1>3, ActorFacts DEF LocalsOK, Works
<1>13. DrainOK'
  BY <1>0, <1>1, <1>2, <1>5, ActorFacts DEF DrainOK
<1>14. ForwardOK'
  BY <1>0, <1>1, <1>2, <1>3, <1>4, <1>5, ActorFacts, StateTypes
     DEF ForwardOK, LocalsOK, Works
<1>15. RebindOK'
  <2>1. \A g \in Forwards : Live(g) => Live(g)'
    BY <1>0, <1>1, <1>2, <1>3, <1>5, ActorFacts, StateTypes DEF Live
  <2>2. \A g \in Forwards : fwd[g].closed => fwd'[g].closed
    BY <1>4, StateTypes
  <2> QED
    BY <2>1, <2>2, <1>0, <1>1, <1>2, <1>3, <1>5, ActorFacts, RebindKeeps
<1>16. ListenersOK'
  BY <1>0, <1>1, <1>2, <1>3, <1>4, <1>5, <1>6, ActorFacts, StateTypes
     DEF ListenersOK, ForwardOK, LocalsOK, Works, Closes
<1>17. Ownership'
  BY <1>0, <1>1, <1>2, <1>3, <1>4, <1>5, <1>6, ActorFacts, StateTypes
     DEF Ownership, Owned, ForwardOK, LocalsOK, Works, Closes
<1>18. ReconnectOK'
  BY <1>0, <1>1, <1>2, <1>3, <1>4, <1>5, ActorFacts, StateTypes
     DEF ReconnectOK, LocalsOK, Works
<1>19. NewOpen'
  BY <1>0, <1>1, <1>2, <1>3, <1>4, <1>5, <1>6, ActorFacts, StateTypes
     DEF NewOpen, Open, ForwardOK, ListenersOK, ReconnectOK, LocalsOK, Works, Closes
<1>20. RegisteredListen'
  BY <1>0, <1>1, <1>2, <1>3, <1>4, <1>5, <1>6, ActorFacts, StateTypes
     DEF RegisteredListen, Rebound, Open, ForwardOK, ListenersOK, ReconnectOK, LocalsOK,
         Works, Closes
<1> QED
  BY <1>11, <1>12, <1>13, <1>14, <1>15, <1>16, <1>17, <1>18, <1>19, <1>20 DEF ForwardsInv

\* registerForward hands the listener over to the map.
\* registerForward hands the listener over to the map.
LEMMA OpenRegisterKeeps ==
  ASSUME ForwardsInv, NEW h \in Handlers, OpenRegister(h)
  PROVE  ForwardsInv'
<1> DEFINE f == loc[h].f
<1>0. /\ TypeOK /\ LocalsOK /\ DrainOK /\ ForwardOK /\ RebindOK /\ ListenersOK /\ Ownership
      /\ ReconnectOK /\ NewOpen /\ RegisteredListen
  BY DEF ForwardsInv
<1>1. h \in Actors /\ f \in Forwards /\ pc[h] = "register"
  BY <1>0, ActorFacts, StateTypes DEF LocalsOK, Works, OpenRegister, At
<1>2. /\ pc'[h] = "start" /\ \A b \in Actors : b # h => pc'[b] = pc[b]
      /\ pc' \in [Actors -> Points]
      /\ \A i \in Handlers : pc'[i] \in {"idle", "listen", "register", "start", "cas", "close"}
      /\ pc'[Closer] \in {"idle", "drain", "cas", "close", "clear", "ended"}
      /\ pc'[Reconnector] \in {"idle", "dial", "snap", "rebind", "swap", "old"}
  BY <1>0, <1>1, GotoFacts DEF OpenRegister, Points
<1>3. /\ fwd[f].id \in Ids /\ forwards[fwd[f].id] = None /\ ~closed
      /\ forwards' \in [Ids -> Forwards \cup {None}]
      /\ forwards'[fwd[f].id] = f /\ \A i \in Ids : i # fwd[f].id => forwards'[i] = forwards[i]
  BY <1>0, <1>1 DEF OpenRegister, MayRegister, ForwardOK, TypeOK
<1>4. /\ UNCHANGED <<closed, client, net, fwd, ln, loc, todo>>
      /\ missed' = IF loc[h].c \in {Host, client} THEN missed ELSE missed \cup {f}
  BY DEF OpenRegister
<1>11. TypeOK'
  BY <1>0, <1>1, <1>2, <1>3, <1>4, ActorFacts DEF TypeOK, Points
<1>12. LocalsOK'
  BY <1>0, <1>1, <1>2, <1>3, <1>4, ActorFacts DEF LocalsOK, Works
<1>13. DrainOK'
  BY <1>0, <1>1, <1>2, <1>3, <1>4, ActorFacts DEF DrainOK
<1>14. ForwardOK'
  BY <1>0, <1>1, <1>2, <1>3, <1>4, ActorFacts, StateTypes DEF ForwardOK, LocalsOK, Works
<1>15. RebindOK'
  <2>1. \A g \in Forwards : Live(g) => Live(g)'
    BY <1>0, <1>1, <1>2, <1>3, <1>4, ActorFacts, StateTypes DEF Live
  <2>2. \A g \in Forwards : fwd[g].closed => fwd'[g].closed
    BY <1>0, <1>1, <1>2, <1>3, <1>4, StateTypes
  <2> QED
    BY <2>1, <2>2, <1>0, <1>1, <1>2, <1>3, <1>4, ActorFacts, RebindKeeps
<1>16. ListenersOK'
  BY <1>0, <1>1, <1>2, <1>3, <1>4, ActorFacts, StateTypes
     DEF ListenersOK, ForwardOK, LocalsOK, Works
<1>17. Ownership'
  <2> SUFFICES ASSUME NEW m \in Listeners, ln[m] # None
               PROVE  Owned(m)'
    BY <1>4 DEF Ownership
  <2>1. Owned(m)
    BY <1>0 DEF Ownership
  <2>2. CASE m = loc[h].l
    <3>1. ln[m].f = f /\ fwd[f].listener = m
      BY <1>0, <1>1, <2>2, ActorFacts DEF ListenersOK
    <3> QED
      BY <3>1, <1>3, <1>4 DEF Owned
  <2>3. CASE m # loc[h].l
    BY <2>1, <2>3, <1>0, <1>1, <1>2, <1>3, <1>4, ActorFacts, StateTypes DEF Owned
  <2> QED
    BY <2>2, <2>3
<1>18. ReconnectOK'
  BY <1>0, <1>1, <1>2, <1>3, <1>4, ActorFacts, StateTypes DEF ReconnectOK, LocalsOK, Works
<1>19. NewOpen'
  BY <1>0, <1>1, <1>2, <1>3, <1>4, ActorFacts, StateTypes
     DEF NewOpen, Open, ForwardOK, ListenersOK, ReconnectOK, LocalsOK, Works
<1>20. RegisteredListen'
  <2>1. \A g : Rebound(g)' <=> Rebound(g)
    BY <1>1, <1>2, <1>4, ActorFacts DEF Rebound
  <2>2. ASSUME NEW i \in Ids, forwards'[i] # None, forwards'[i] \notin missed'
        PROVE  IF fwd[forwards'[i]].kind = "remote"
               THEN Rebound(forwards'[i]) => Open(fwd[forwards'[i]].listener, client)
               ELSE Open(fwd[forwards'[i]].listener, Host)
    <3>1. CASE i = fwd[f].id
      <4>1. forwards'[i] = f /\ fwd[f].listener = loc[h].l
        BY <1>0, <1>1, <1>3, <3>1 DEF ListenersOK
      <4>2. loc[h].c \in {Host, client}
        BY <1>4, <2>2, <4>1
      <4>3. CASE fwd[f].kind = "remote"
        <5>1. loc[h].c = client
          BY <1>0, <1>1, <4>2, <4>3, ActorFacts DEF NewOpen
        <5> QED
          BY <1>0, <1>1, <4>1, <4>3, <5>1 DEF NewOpen, Rebound
      <4>4. CASE fwd[f].kind # "remote"
        BY <1>0, <1>1, <4>1, <4>4 DEF NewOpen
      <4> QED
        BY <4>3, <4>4
    <3>2. CASE i # fwd[f].id
      BY <1>0, <1>3, <1>4, <2>2, <3>2 DEF RegisteredListen
    <3> QED
      BY <3>1, <3>2
  <2> QED
    BY <2>1, <2>2, <1>4 DEF RegisteredListen, Open
<1> QED
  BY <1>11, <1>12, <1>13, <1>14, <1>15, <1>16, <1>17, <1>18, <1>19, <1>20 DEF ForwardsInv

\* CloseForward takes the forward out of the map and has to close it.
\* CloseForward takes the forward out of the map and has to close it.
LEMMA CloseForwardKeeps ==
  ASSUME ForwardsInv, NEW h \in Handlers, NEW id \in Ids, CloseForward(h, id)
  PROVE  ForwardsInv'
<1> DEFINE f == forwards[id]
<1>0. /\ TypeOK /\ LocalsOK /\ DrainOK /\ ForwardOK /\ RebindOK /\ ListenersOK /\ Ownership
      /\ ReconnectOK /\ NewOpen /\ RegisteredListen
  BY DEF ForwardsInv
<1>1. h \in Actors /\ f \in Forwards /\ pc[h] = "idle" /\ loc[h].f = None /\ loc[h].l = None
  BY <1>0, ActorFacts, StateTypes DEF LocalsOK, Works, CloseForward, At
<1>2. /\ pc'[h] = "cas" /\ \A b \in Actors : b # h => pc'[b] = pc[b]
      /\ pc' \in [Actors -> Points]
      /\ \A i \in Handlers : pc'[i] \in {"idle", "listen", "register", "start", "cas", "close"}
      /\ pc'[Closer] \in {"idle", "drain", "cas", "close", "clear", "ended"}
      /\ pc'[Reconnector] \in {"idle", "dial", "snap", "rebind", "swap", "old"}
  BY <1>0, <1>1, ActorFacts, GotoFacts DEF CloseForward, Points
<1>3. /\ loc' \in [Actors -> Locals] /\ loc'[h].f = f /\ loc'[h].l = None
      /\ \A b \in Actors : b # h => loc'[b] = loc[b]
  BY <1>0, <1>1, TakeFacts DEF CloseForward
<1>4. /\ forwards' \in [Ids -> Forwards \cup {None}]
      /\ forwards'[id] = None /\ \A i \in Ids : i # id => forwards'[i] = forwards[i]
  BY <1>0 DEF CloseForward, TypeOK
<1>5. UNCHANGED <<closed, client, net, fwd, ln, todo, missed>>
  BY DEF CloseForward
<1>11. TypeOK'
  BY <1>0, <1>1, <1>2, <1>3, <1>4, <1>5, ActorFacts DEF TypeOK, Points
<1>12. LocalsOK'
  BY <1>0, <1>1, <1>2, <1>3, <1>4, <1>5, ActorFacts DEF LocalsOK, Works
<1>13. DrainOK'
  BY <1>0, <1>1, <1>2, <1>3, <1>4, <1>5, ActorFacts DEF DrainOK
<1>14. ForwardOK'
  BY <1>0, <1>1, <1>2, <1>3, <1>4, <1>5, ActorFacts, StateTypes
     DEF ForwardOK, LocalsOK, Works
<1>15. RebindOK'
  <2>1. \A g \in Forwards : Live(g) => Live(g)'
    BY <1>0, <1>1, <1>2, <1>3, <1>4, <1>5, ActorFacts, StateTypes DEF Live
  <2>2. \A g \in Forwards : fwd[g].closed => fwd'[g].closed
    BY <1>0, <1>1, <1>2, <1>3, <1>4, <1>5, StateTypes
  <2> QED
    BY <2>1, <2>2, <1>0, <1>1, <1>2, <1>3, <1>4, <1>5, ActorFacts, RebindKeeps
<1>16. ListenersOK'
  BY <1>0, <1>1, <1>2, <1>3, <1>4, <1>5, ActorFacts, StateTypes
     DEF ListenersOK, ForwardOK, LocalsOK, Works
<1>17. Ownership'
  BY <1>0, <1>1, <1>2, <1>3, <1>4, <1>5, ActorFacts, StateTypes
     DEF Ownership, Owned, ForwardOK, LocalsOK, Works
<1>18. ReconnectOK'
  BY <1>0, <1>1, <1>2, <1>3, <1>4, <1>5, ActorFacts, StateTypes
     DEF ReconnectOK, LocalsOK, Works
<1>19. NewOpen'
  BY <1>0, <1>1, <1>2, <1>3, <1>4, <1>5, ActorFacts, StateTypes
     DEF NewOpen, Open, ForwardOK, ListenersOK, ReconnectOK, LocalsOK, Works
<1>20. RegisteredListen'
  BY <1>0, <1>1, <1>2, <1>3, <1>4, <1>5, ActorFacts, StateTypes
     DEF RegisteredListen, Rebound, Open, ForwardOK, ListenersOK, ReconnectOK, LocalsOK,
         Works
<1> QED
  BY <1>11, <1>12, <1>13, <1>14, <1>15, <1>16, <1>17, <1>18, <1>19, <1>20 DEF ForwardsInv

\* So does the drain.
\* So does the drain.
LEMMA DrainOneKeeps ==
  ASSUME ForwardsInv, NEW id \in Ids, DrainOne(id)
  PROVE  ForwardsInv'
<1> DEFINE f == forwards[id]
<1>0. /\ TypeOK /\ LocalsOK /\ DrainOK /\ ForwardOK /\ RebindOK /\ ListenersOK /\ Ownership
      /\ ReconnectOK /\ NewOpen /\ RegisteredListen
  BY DEF ForwardsInv
<1>1. /\ Closer \in Actors /\ f \in Forwards /\ pc[Closer] = "drain"
      /\ loc[Closer].f = None /\ loc[Closer].l = None
  BY <1>0, ActorFacts, StateTypes DEF LocalsOK, Works, DrainOne, At
<1>2. /\ pc'[Closer] = "cas" /\ \A b \in Actors : b # Closer => pc'[b] = pc[b]
      /\ pc' \in [Actors -> Points]
      /\ \A i \in Handlers : pc'[i] \in {"idle", "listen", "register", "start", "cas", "close"}
      /\ pc'[Closer] \in {"idle", "drain", "cas", "close", "clear", "ended"}
      /\ pc'[Reconnector] \in {"idle", "dial", "snap", "rebind", "swap", "old"}
  BY <1>0, <1>1, ActorFacts, GotoFacts DEF DrainOne, Points
<1>3. /\ loc' \in [Actors -> Locals] /\ loc'[Closer].f = f /\ loc'[Closer].l = None
      /\ \A b \in Actors : b # Closer => loc'[b] = loc[b]
  BY <1>0, <1>1, TakeFacts DEF DrainOne
<1>4. /\ forwards' \in [Ids -> Forwards \cup {None}]
      /\ forwards'[id] = None /\ \A i \in Ids : i # id => forwards'[i] = forwards[i]
  BY <1>0 DEF DrainOne, TypeOK
<1>5. UNCHANGED <<closed, client, net, fwd, ln, todo, missed>>
  BY DEF DrainOne
<1>11. TypeOK'
  BY <1>0, <1>1, <1>2, <1>3, <1>4, <1>5, ActorFacts DEF TypeOK, Points
<1>12. LocalsOK'
  BY <1>0, <1>1, <1>2, <1>3, <1>4, <1>5, ActorFacts DEF LocalsOK, Works
<1>13. DrainOK'
  BY <1>0, <1>1, <1>2, <1>3, <1>4, <1>5, ActorFacts DEF DrainOK
<1>14. ForwardOK'
  BY <1>0, <1>1, <1>2, <1>3, <1>4, <1>5, ActorFacts, StateTypes
     DEF ForwardOK, LocalsOK, Works
<1>15. RebindOK'
  <2>1. \A g \in Forwards : Live(g) => Live(g)'
    BY <1>0, <1>1, <1>2, <1>3, <1>4, <1>5, ActorFacts, StateTypes DEF Live
  <2>2. \A g \in Forwards : fwd[g].closed => fwd'[g].closed
    BY <1>0, <1>1, <1>2, <1>3, <1>4, <1>5, StateTypes
  <2> QED
    BY <2>1, <2>2, <1>0, <1>1, <1>2, <1>3, <1>4, <1>5, ActorFacts, RebindKeeps
<1>16. ListenersOK'
  BY <1>0, <1>1, <1>2, <1>3, <1>4, <1>5, ActorFacts, StateTypes
     DEF ListenersOK, ForwardOK, LocalsOK, Works
<1>17. Ownership'
  BY <1>0, <1>1, <1>2, <1>3, <1>4, <1>5, ActorFacts, StateTypes
     DEF Ownership, Owned, ForwardOK, LocalsOK, Works
<1>18. ReconnectOK'
  BY <1>0, <1>1, <1>2, <1>3, <1>4, <1>5, ActorFacts, StateTypes
     DEF ReconnectOK, LocalsOK, Works
<1>19. NewOpen'
  BY <1>0, <1>1, <1>2, <1>3, <1>4, <1>5, ActorFacts, StateTypes
     DEF NewOpen, Open, ForwardOK, ListenersOK, ReconnectOK, LocalsOK, Works
<1>20. RegisteredListen'
  BY <1>0, <1>1, <1>2, <1>3, <1>4, <1>5, ActorFacts, StateTypes
     DEF RegisteredListen, Rebound, Open, ForwardOK, ListenersOK, ReconnectOK, LocalsOK,
         Works
<1> QED
  BY <1>11, <1>12, <1>13, <1>14, <1>15, <1>16, <1>17, <1>18, <1>19, <1>20 DEF ForwardsInv

Resting == {"idle", "drain", "clear", "ended", "dial", "snap", "rebind"}

\* Steps that close listeners, or none, and otherwise only move between points
\* where the actor works on no forward.
LEMMA QuietKeeps ==
  ASSUME ForwardsInv, TypeOK', DrainOK', NEW G, Closes(G),
         fwd' = fwd, forwards' = forwards, todo' \subseteq todo \cup Registered,
         \A a \in Actors : loc'[a].f = loc[a].f /\ loc'[a].l = loc[a].l,
         \A a \in Actors : pc'[a] = pc[a] \/ (pc[a] \in Resting /\ pc'[a] \in Resting),
         \A h \in Handlers : loc'[h].c = loc[h].c,
         \A m \in G \cap Listeners : ln[m] # None => ln[m].on \notin net' \cup {Host},
         \A h \in Handlers : loc[h].c \in net' => loc[h].c \in net,
         pc'[Reconnector] = "swap" /\ client' \in net' => client' = client /\ client \in net,
         pc'[Reconnector] = "dial" => client' = None,
         pc'[Reconnector] \in {"idle", "dial", "snap"} => todo' = {},
         \A id \in Ids : forwards[id] # None /\ forwards[id] \notin missed' =>
           /\ forwards[id] \notin missed
           /\ fwd[forwards[id]].kind = "remote" /\ Rebound(forwards[id])' =>
                Rebound(forwards[id]) /\ client' = client
  PROVE  ForwardsInv'
<1>0. /\ TypeOK /\ LocalsOK /\ DrainOK /\ ForwardOK /\ RebindOK /\ ListenersOK /\ Ownership
      /\ ReconnectOK /\ NewOpen /\ RegisteredListen
  BY DEF ForwardsInv
<1>1. LocalsOK'
  BY <1>0 DEF LocalsOK, Works, Resting
<1>2. \A a \in Actors : \A p \in {"listen", "register", "start", "cas", "close", "swap", "old"} :
        pc'[a] = p <=> pc[a] = p
  BY DEF Resting
<1>3. \A f \in Forwards : f \in todo' => f \in todo \/ \E id \in Ids : forwards[id] = f
  BY DEF Registered
<1>4. ForwardOK'
  <2>1. \A h \in Handlers : pc[h] \in {"listen", "register"} => loc[h].f \notin todo'
    BY <1>0, <1>3, ActorFacts, StateTypes DEF ForwardOK, LocalsOK, Works
  <2> QED
    BY <1>0, <1>2, <2>1, ActorFacts, StateTypes DEF ForwardOK, LocalsOK, Works
<1>5. RebindOK'
  <2>1. \A f \in Forwards : Live(f) => Live(f)'
    BY <1>2, ActorFacts DEF Live
  <2>2. \A f \in todo' : fwd[f].closed \/ Live(f)
    BY <1>0, <1>3 DEF RebindOK, Live, TypeOK
  <2>3. \A f \in todo' : fwd'[f].closed \/ Live(f)'
    BY <2>1, <2>2 DEF TypeOK
  <2>4. (pc[Reconnector] \in {"swap", "old"} =>
           fwd[loc[Reconnector].f].closed \/ Live(loc[Reconnector].f))'
    <3> SUFFICES ASSUME pc'[Reconnector] \in {"swap", "old"}
                 PROVE  (fwd[loc[Reconnector].f].closed \/ Live(loc[Reconnector].f))'
      OBVIOUS
    <3>1. pc[Reconnector] \in {"swap", "old"}
      BY <1>2, ActorFacts
    <3>2. PICK g \in Forwards : g = loc[Reconnector].f
      BY <1>0, <3>1, ActorFacts, StateTypes DEF LocalsOK, Works
    <3>3. loc'[Reconnector].f = g /\ (fwd[g].closed \/ Live(g))
      BY <1>0, <3>1, <3>2, ActorFacts DEF RebindOK
    <3>4. fwd'[g].closed \/ Live(g)'
      BY <2>1, <3>3
    <3> QED
      BY <3>3, <3>4 DEF Live
  <2> QED
    BY <2>3, <2>4 DEF RebindOK
<1>6. ListenersOK'
  BY <1>0, <1>2, ActorFacts, StateTypes DEF ListenersOK, Closes
<1>7. Ownership'
  <2> SUFFICES ASSUME NEW m \in Listeners, ln'[m] # None
               PROVE  Owned(m)'
    BY DEF Ownership
  <2>1. Owned(m) /\ ln'[m].f = ln[m].f
    BY <1>0 DEF Ownership, Closes
  <2> QED
    BY <2>1, <1>2, ActorFacts DEF Owned
<1>8. \A m \in Listeners : \A on \in net' \cup {Host} : Open(m, on) => Open(m, on)'
  BY DEF Open, Closes
<1>9. ReconnectOK'
  BY <1>0, <1>2, ActorFacts DEF ReconnectOK
<1>10. NewOpen'
  <2>1. \A h \in Handlers : (pc[h] = "register" /\ loc[h].c \in net \cup {Host} =>
                                Open(loc[h].l, loc[h].c))'
    BY <1>0, <1>2, ActorFacts DEF NewOpen, Open, Closes
  <2>2. (pc[Reconnector] = "swap" /\ client \in net => Open(loc[Reconnector].l, client))'
    BY <1>0, <1>2, ActorFacts DEF NewOpen, Open, Closes
  <2>3. \A h \in Handlers : pc'[h] \in {"listen", "register"} =>
         IF fwd'[loc'[h].f].kind = "remote" THEN loc'[h].c \in Clients ELSE loc'[h].c = Host
    BY <1>0, <1>2, ActorFacts DEF NewOpen
  <2> QED
    BY <2>1, <2>2, <2>3 DEF NewOpen
<1>11. RegisteredListen'
  <2> SUFFICES ASSUME NEW id \in Ids, forwards[id] # None, forwards[id] \notin missed'
               PROVE  IF fwd[forwards[id]].kind = "remote"
                      THEN Rebound(forwards[id])' => Open(fwd[forwards[id]].listener, client)'
                      ELSE Open(fwd[forwards[id]].listener, Host)'
    BY DEF RegisteredListen
  <2>1. CASE fwd[forwards[id]].kind = "remote"
    <3> SUFFICES ASSUME Rebound(forwards[id])'
                 PROVE  Open(fwd[forwards[id]].listener, client)'
      BY <2>1
    <3>1. Open(fwd[forwards[id]].listener, client) /\ client' = client /\ client' \in net'
      BY <1>0, <2>1 DEF RegisteredListen, Rebound
    <3> QED
      BY <3>1 DEF Open, Closes
  <2>2. CASE fwd[forwards[id]].kind # "remote"
    <3>1. Open(fwd[forwards[id]].listener, Host)
      BY <1>0, <2>2 DEF RegisteredListen
    <3> QED
      BY <2>2, <3>1 DEF Open, Closes
  <2> QED
    BY <2>1, <2>2
<1> QED
  BY <1>0, <1>1, <1>4, <1>5, <1>6, <1>7, <1>9, <1>10, <1>11 DEF ForwardsInv

\* Nothing happens to listeners.
LEMMA SameListeners ==
  ASSUME TypeOK, ln' = ln
  PROVE  Closes({})
BY DEF Closes, TypeOK

\* A connection's step leaves the session alone.
LEMMA ConnKeeps ==
  ASSUME ForwardsInv, UNCHANGED sessionVars
  PROVE  ForwardsInv'
BY
   DEF ForwardsInv, sessionVars, TypeOK, LocalsOK, Works, DrainOK, ForwardOK, RebindOK,
       Live,
       ListenersOK, Ownership, Owned, ReconnectOK, NewOpen, Open, Rebound, RegisteredListen

\* Session.close begins.
LEMMA SessionCloseKeeps ==
  ASSUME ForwardsInv, SessionClose
  PROVE  ForwardsInv'
<1>0. TypeOK /\ DrainOK /\ LocalsOK /\ ForwardOK /\ ReconnectOK
  BY DEF ForwardsInv
<1>1. /\ pc[Closer] = "idle"
      /\ pc'[Closer] = "drain" /\ \A b \in Actors : b # Closer => pc'[b] = pc[b]
      /\ pc' \in [Actors -> Points]
      /\ \A i \in Handlers : pc'[i] \in {"idle", "listen", "register", "start", "cas", "close"}
      /\ pc'[Closer] \in {"idle", "drain", "cas", "close", "clear", "ended"}
      /\ pc'[Reconnector] \in {"idle", "dial", "snap", "rebind", "swap", "old"}
  BY <1>0, ActorFacts, GotoFacts DEF SessionClose, At, Points
<1>4. PICK G : Closes(G) /\ G = {}
  BY <1>0, SameListeners DEF SessionClose
<1>5. closed' /\ UNCHANGED <<client, net, forwards, fwd, ln, loc, todo, missed>>
  BY DEF SessionClose
<1>6. TypeOK'
  BY <1>0, <1>1, <1>4, <1>5 DEF TypeOK, Points, Closes
<1>7. DrainOK'
  BY <1>0, <1>1, <1>5, ActorFacts DEF DrainOK, SessionClose
<1>8. \A id \in Ids : forwards[id] # None /\ forwards[id] \notin missed' =>
        /\ forwards[id] \notin missed
        /\ fwd[forwards[id]].kind = "remote" /\ Rebound(forwards[id])' =>
             Rebound(forwards[id]) /\ client' = client
  BY <1>0, <1>1, <1>4, <1>5, ActorFacts DEF Rebound, Registered, TypeOK, ReconnectOK
<1>9. /\ pc'[Reconnector] = "swap" /\ client' \in net' => client' = client /\ client \in net
      /\ pc'[Reconnector] = "dial" => client' = None
      /\ pc'[Reconnector] \in {"idle", "dial", "snap"} => todo' = {}
      /\ \A h \in Handlers : loc[h].c \in net' => loc[h].c \in net
      /\ \A h \in Handlers : loc'[h].c = loc[h].c
  BY <1>0, <1>1, <1>4, <1>5, ActorFacts DEF ReconnectOK, TypeOK
<1>10. todo' \subseteq todo \cup Registered
  BY <1>5
<1>11. \A a \in Actors : /\ pc'[a] = pc[a] \/ (pc[a] \in Resting /\ pc'[a] \in Resting)
                         /\ loc'[a].f = loc[a].f /\ loc'[a].l = loc[a].l
  BY <1>1, <1>5 DEF Resting
<1> QED
  BY <1>0, <1>4, <1>5, <1>6, <1>7, <1>8, <1>9, <1>10, <1>11, QuietKeeps

\* The drain leaves an empty map.
LEMMA DrainEndsKeeps ==
  ASSUME ForwardsInv, DrainEnds
  PROVE  ForwardsInv'
<1>0. TypeOK /\ DrainOK /\ LocalsOK /\ ForwardOK /\ ReconnectOK
  BY DEF ForwardsInv
<1>1. /\ pc[Closer] = "drain"
      /\ pc'[Closer] = "clear" /\ \A b \in Actors : b # Closer => pc'[b] = pc[b]
      /\ pc' \in [Actors -> Points]
      /\ \A i \in Handlers : pc'[i] \in {"idle", "listen", "register", "start", "cas", "close"}
      /\ pc'[Closer] \in {"idle", "drain", "cas", "close", "clear", "ended"}
      /\ pc'[Reconnector] \in {"idle", "dial", "snap", "rebind", "swap", "old"}
  BY <1>0, ActorFacts, GotoFacts DEF DrainEnds, At, Points
<1>4. PICK G : Closes(G) /\ G = {}
  BY <1>0, SameListeners DEF DrainEnds
<1>5. /\ \A id \in Ids : forwards[id] = None
      /\ UNCHANGED <<closed, client, net, forwards, fwd, ln, loc, todo, missed>>
  BY DEF DrainEnds
<1>6. TypeOK'
  BY <1>0, <1>1, <1>4, <1>5 DEF TypeOK, Points, Closes
<1>7. DrainOK'
  BY <1>0, <1>1, <1>5, ActorFacts DEF DrainOK, DrainEnds
<1>8. \A id \in Ids : forwards[id] # None /\ forwards[id] \notin missed' =>
        /\ forwards[id] \notin missed
        /\ fwd[forwards[id]].kind = "remote" /\ Rebound(forwards[id])' =>
             Rebound(forwards[id]) /\ client' = client
  BY <1>0, <1>1, <1>4, <1>5, ActorFacts DEF Rebound, Registered, TypeOK, ReconnectOK
<1>9. /\ pc'[Reconnector] = "swap" /\ client' \in net' => client' = client /\ client \in net
      /\ pc'[Reconnector] = "dial" => client' = None
      /\ pc'[Reconnector] \in {"idle", "dial", "snap"} => todo' = {}
      /\ \A h \in Handlers : loc[h].c \in net' => loc[h].c \in net
      /\ \A h \in Handlers : loc'[h].c = loc[h].c
  BY <1>0, <1>1, <1>4, <1>5, ActorFacts DEF ReconnectOK, TypeOK
<1>10. todo' \subseteq todo \cup Registered
  BY <1>5
<1>11. \A a \in Actors : /\ pc'[a] = pc[a] \/ (pc[a] \in Resting /\ pc'[a] \in Resting)
                         /\ loc'[a].f = loc[a].f /\ loc'[a].l = loc[a].l
  BY <1>1, <1>5 DEF Resting
<1> QED
  BY <1>0, <1>4, <1>5, <1>6, <1>7, <1>8, <1>9, <1>10, <1>11, QuietKeeps

\* Session.close drops the transport and the listeners on it.
LEMMA SessionClearKeeps ==
  ASSUME ForwardsInv, SessionClear
  PROVE  ForwardsInv'
<1>0. TypeOK /\ DrainOK /\ LocalsOK /\ ForwardOK /\ ReconnectOK
  BY DEF ForwardsInv
<1>1. /\ pc[Closer] = "clear"
      /\ pc'[Closer] = "ended" /\ \A b \in Actors : b # Closer => pc'[b] = pc[b]
      /\ pc' \in [Actors -> Points]
      /\ \A i \in Handlers : pc'[i] \in {"idle", "listen", "register", "start", "cas", "close"}
      /\ pc'[Closer] \in {"idle", "drain", "cas", "close", "clear", "ended"}
      /\ pc'[Reconnector] \in {"idle", "dial", "snap", "rebind", "swap", "old"}
  BY <1>0, ActorFacts, GotoFacts DEF SessionClear, At, Points
<1>2. PICK c : c = client
  OBVIOUS
<1>3. CloseClient(c)
  BY <1>2 DEF SessionClear
<1>4. PICK G : /\ Closes(G) /\ net' \subseteq Clients /\ net' = net \ {c}
               /\ \A m \in G \cap Listeners : ln[m] # None => ln[m].on \notin net' \cup {Host}
  <2>1. c # Host
    BY <1>0, <1>2, ActorFacts DEF TypeOK
  <2> DEFINE G == {m \in Listeners : ln[m] # None /\ ln[m].on = c}
  <2>2. Closes(G) /\ net' \subseteq Clients
    BY <1>0, <1>3, CloseClientFacts
  <2>3. net' = net \ {c}
    BY <1>3 DEF CloseClient
  <2>4. \A m \in G \cap Listeners : ln[m] # None => ln[m].on \notin net' \cup {Host}
    BY <2>1, <2>3
  <2> HIDE DEF G
  <2> QED
    BY <2>2, <2>3, <2>4
<1>5. client' = None /\ UNCHANGED <<closed, forwards, fwd, loc, todo, missed>>
  BY DEF SessionClear
<1>6. TypeOK'
  BY <1>0, <1>1, <1>4, <1>5 DEF TypeOK, Points, Closes
<1>7. DrainOK'
  BY <1>0, <1>1, <1>5, ActorFacts DEF DrainOK, SessionClear
<1>8. \A id \in Ids : forwards[id] # None /\ forwards[id] \notin missed' =>
        /\ forwards[id] \notin missed
        /\ fwd[forwards[id]].kind = "remote" /\ Rebound(forwards[id])' =>
             Rebound(forwards[id]) /\ client' = client
  BY <1>0, <1>1, <1>4, <1>5, ActorFacts DEF Rebound, Registered, TypeOK, ReconnectOK
<1>9. /\ pc'[Reconnector] = "swap" /\ client' \in net' => client' = client /\ client \in net
      /\ pc'[Reconnector] = "dial" => client' = None
      /\ pc'[Reconnector] \in {"idle", "dial", "snap"} => todo' = {}
      /\ \A h \in Handlers : loc[h].c \in net' => loc[h].c \in net
      /\ \A h \in Handlers : loc'[h].c = loc[h].c
  BY <1>0, <1>1, <1>4, <1>5, ActorFacts DEF ReconnectOK, TypeOK
<1>10. todo' \subseteq todo \cup Registered
  BY <1>5
<1>11. \A a \in Actors : /\ pc'[a] = pc[a] \/ (pc[a] \in Resting /\ pc'[a] \in Resting)
                         /\ loc'[a].f = loc[a].f /\ loc'[a].l = loc[a].l
  BY <1>1, <1>5 DEF Resting
<1> QED
  BY <1>0, <1>4, <1>5, <1>6, <1>7, <1>8, <1>9, <1>10, <1>11, QuietKeeps

\* So does a reconnect.
LEMMA ReconnectBeginKeeps ==
  ASSUME ForwardsInv, ReconnectBegin
  PROVE  ForwardsInv'
<1>0. TypeOK /\ DrainOK /\ LocalsOK /\ ForwardOK /\ ReconnectOK
  BY DEF ForwardsInv
<1>1. /\ pc[Reconnector] = "idle"
      /\ pc'[Reconnector] = "dial" /\ \A b \in Actors : b # Reconnector => pc'[b] = pc[b]
      /\ pc' \in [Actors -> Points]
      /\ \A i \in Handlers : pc'[i] \in {"idle", "listen", "register", "start", "cas", "close"}
      /\ pc'[Closer] \in {"idle", "drain", "cas", "close", "clear", "ended"}
      /\ pc'[Reconnector] \in {"idle", "dial", "snap", "rebind", "swap", "old"}
  BY <1>0, ActorFacts, GotoFacts DEF ReconnectBegin, At, Points
<1>2. PICK c : c = client
  OBVIOUS
<1>3. CloseClient(c)
  BY <1>2 DEF ReconnectBegin
<1>4. PICK G : /\ Closes(G) /\ net' \subseteq Clients /\ net' = net \ {c}
               /\ \A m \in G \cap Listeners : ln[m] # None => ln[m].on \notin net' \cup {Host}
  <2>1. c # Host
    BY <1>0, <1>2, ActorFacts DEF TypeOK
  <2> DEFINE G == {m \in Listeners : ln[m] # None /\ ln[m].on = c}
  <2>2. Closes(G) /\ net' \subseteq Clients
    BY <1>0, <1>3, CloseClientFacts
  <2>3. net' = net \ {c}
    BY <1>3 DEF CloseClient
  <2>4. \A m \in G \cap Listeners : ln[m] # None => ln[m].on \notin net' \cup {Host}
    BY <2>1, <2>3
  <2> HIDE DEF G
  <2> QED
    BY <2>2, <2>3, <2>4
<1>5. client' = None /\ UNCHANGED <<closed, forwards, fwd, loc, todo, missed>>
  BY DEF ReconnectBegin
<1>6. TypeOK'
  BY <1>0, <1>1, <1>4, <1>5 DEF TypeOK, Points, Closes
<1>7. DrainOK'
  BY <1>0, <1>1, <1>5, ActorFacts DEF DrainOK
<1>8. \A id \in Ids : forwards[id] # None /\ forwards[id] \notin missed' =>
        /\ forwards[id] \notin missed
        /\ fwd[forwards[id]].kind = "remote" /\ Rebound(forwards[id])' =>
             Rebound(forwards[id]) /\ client' = client
  BY <1>0, <1>1, <1>4, <1>5, ActorFacts DEF Rebound, Registered, TypeOK, ReconnectOK
<1>9. /\ pc'[Reconnector] = "swap" /\ client' \in net' => client' = client /\ client \in net
      /\ pc'[Reconnector] = "dial" => client' = None
      /\ pc'[Reconnector] \in {"idle", "dial", "snap"} => todo' = {}
      /\ \A h \in Handlers : loc[h].c \in net' => loc[h].c \in net
      /\ \A h \in Handlers : loc'[h].c = loc[h].c
  BY <1>0, <1>1, <1>4, <1>5, ActorFacts DEF ReconnectOK, TypeOK
<1>10. todo' \subseteq todo \cup Registered
  BY <1>5
<1>11. \A a \in Actors : /\ pc'[a] = pc[a] \/ (pc[a] \in Resting /\ pc'[a] \in Resting)
                         /\ loc'[a].f = loc[a].f /\ loc'[a].l = loc[a].l
  BY <1>1, <1>5 DEF Resting
<1> QED
  BY <1>0, <1>4, <1>5, <1>6, <1>7, <1>8, <1>9, <1>10, <1>11, QuietKeeps

\* And the network.
LEMMA DropKeeps ==
  ASSUME ForwardsInv, NEW d \in Clients, Drop(d)
  PROVE  ForwardsInv'
<1>0. TypeOK /\ DrainOK /\ LocalsOK /\ ForwardOK /\ ReconnectOK
  BY DEF ForwardsInv
<1>1. UNCHANGED pc
  BY DEF Drop
<1>2. PICK c : c = d
  OBVIOUS
<1>3. CloseClient(c)
  BY <1>2 DEF Drop
<1>4. PICK G : /\ Closes(G) /\ net' \subseteq Clients /\ net' = net \ {c}
               /\ \A m \in G \cap Listeners : ln[m] # None => ln[m].on \notin net' \cup {Host}
  <2>1. c # Host
    BY <1>0, <1>2, ActorFacts DEF TypeOK
  <2> DEFINE G == {m \in Listeners : ln[m] # None /\ ln[m].on = c}
  <2>2. Closes(G) /\ net' \subseteq Clients
    BY <1>0, <1>3, CloseClientFacts
  <2>3. net' = net \ {c}
    BY <1>3 DEF CloseClient
  <2>4. \A m \in G \cap Listeners : ln[m] # None => ln[m].on \notin net' \cup {Host}
    BY <2>1, <2>3
  <2> HIDE DEF G
  <2> QED
    BY <2>2, <2>3, <2>4
<1>5. UNCHANGED <<closed, client, forwards, fwd, loc, todo, missed>>
  BY DEF Drop
<1>6. TypeOK'
  BY <1>0, <1>1, <1>4, <1>5 DEF TypeOK, Points, Closes
<1>7. DrainOK'
  BY <1>0, <1>1, <1>5, ActorFacts DEF DrainOK
<1>8. \A id \in Ids : forwards[id] # None /\ forwards[id] \notin missed' =>
        /\ forwards[id] \notin missed
        /\ fwd[forwards[id]].kind = "remote" /\ Rebound(forwards[id])' =>
             Rebound(forwards[id]) /\ client' = client
  BY <1>0, <1>1, <1>4, <1>5, ActorFacts DEF Rebound, Registered, TypeOK, ReconnectOK
<1>9. /\ pc'[Reconnector] = "swap" /\ client' \in net' => client' = client /\ client \in net
      /\ pc'[Reconnector] = "dial" => client' = None
      /\ pc'[Reconnector] \in {"idle", "dial", "snap"} => todo' = {}
      /\ \A h \in Handlers : loc[h].c \in net' => loc[h].c \in net
      /\ \A h \in Handlers : loc'[h].c = loc[h].c
  BY <1>0, <1>1, <1>4, <1>5, ActorFacts DEF ReconnectOK, TypeOK
<1>10. todo' \subseteq todo \cup Registered
  BY <1>5
<1>11. \A a \in Actors : /\ pc'[a] = pc[a] \/ (pc[a] \in Resting /\ pc'[a] \in Resting)
                         /\ loc'[a].f = loc[a].f /\ loc'[a].l = loc[a].l
  BY <1>1, <1>5 DEF Resting
<1> QED
  BY <1>0, <1>4, <1>5, <1>6, <1>7, <1>8, <1>9, <1>10, <1>11, QuietKeeps

\* rebindForwards takes the forwards that are in the map.
LEMMA RebindSnapshotKeeps ==
  ASSUME ForwardsInv, RebindSnapshot
  PROVE  ForwardsInv'
<1>0. TypeOK /\ DrainOK /\ LocalsOK /\ ForwardOK /\ ReconnectOK
  BY DEF ForwardsInv
<1>1. /\ pc[Reconnector] = "snap"
      /\ pc'[Reconnector] = "rebind" /\ \A b \in Actors : b # Reconnector => pc'[b] = pc[b]
      /\ pc' \in [Actors -> Points]
      /\ \A i \in Handlers : pc'[i] \in {"idle", "listen", "register", "start", "cas", "close"}
      /\ pc'[Closer] \in {"idle", "drain", "cas", "close", "clear", "ended"}
      /\ pc'[Reconnector] \in {"idle", "dial", "snap", "rebind", "swap", "old"}
  BY <1>0, ActorFacts, GotoFacts DEF RebindSnapshot, At, Points
<1>4. PICK G : Closes(G) /\ G = {}
  BY <1>0, SameListeners DEF RebindSnapshot
<1>5. /\ todo' \subseteq Forwards /\ todo' = Registered
      /\ UNCHANGED <<closed, client, net, forwards, fwd, ln, loc, missed>>
  BY <1>0, StateTypes DEF RebindSnapshot, Registered
<1>6. TypeOK'
  BY <1>0, <1>1, <1>4, <1>5 DEF TypeOK, Points, Closes
<1>7. DrainOK'
  BY <1>0, <1>1, <1>5, ActorFacts DEF DrainOK
<1>8. \A id \in Ids : forwards[id] # None /\ forwards[id] \notin missed' =>
        /\ forwards[id] \notin missed
        /\ fwd[forwards[id]].kind = "remote" /\ Rebound(forwards[id])' =>
             Rebound(forwards[id]) /\ client' = client
  BY <1>0, <1>1, <1>4, <1>5, ActorFacts DEF Rebound, Registered, TypeOK, ReconnectOK
<1>9. /\ pc'[Reconnector] = "swap" /\ client' \in net' => client' = client /\ client \in net
      /\ pc'[Reconnector] = "dial" => client' = None
      /\ pc'[Reconnector] \in {"idle", "dial", "snap"} => todo' = {}
      /\ \A h \in Handlers : loc[h].c \in net' => loc[h].c \in net
      /\ \A h \in Handlers : loc'[h].c = loc[h].c
  BY <1>0, <1>1, <1>4, <1>5, ActorFacts DEF ReconnectOK, TypeOK
<1>10. todo' \subseteq todo \cup Registered
  BY <1>5
<1>11. \A a \in Actors : /\ pc'[a] = pc[a] \/ (pc[a] \in Resting /\ pc'[a] \in Resting)
                         /\ loc'[a].f = loc[a].f /\ loc'[a].l = loc[a].l
  BY <1>1, <1>5 DEF Resting
<1> QED
  BY <1>0, <1>4, <1>5, <1>6, <1>7, <1>8, <1>9, <1>10, <1>11, QuietKeeps

\* A forward that cannot listen again keeps what it has.
LEMMA RebindListenFailsKeeps ==
  ASSUME ForwardsInv, NEW f \in Forwards, RebindListenFails(f)
  PROVE  ForwardsInv'
<1>0. TypeOK /\ DrainOK /\ LocalsOK /\ ForwardOK /\ ReconnectOK
  BY DEF ForwardsInv
<1>1. UNCHANGED pc
  BY DEF RebindListenFails
<1>4. PICK G : Closes(G) /\ G = {}
  BY <1>0, SameListeners DEF RebindListenFails
<1>5. /\ todo' = todo \ {f} /\ missed' = missed \cup ({f} \cap Registered)
      /\ pc[Reconnector] = "rebind"
      /\ UNCHANGED <<closed, client, net, forwards, fwd, ln, loc>>
  BY DEF RebindListenFails, At
<1>6. TypeOK'
  BY <1>0, <1>1, <1>4, <1>5 DEF TypeOK, Points, Closes
<1>7. DrainOK'
  BY <1>0, <1>1, <1>5, ActorFacts DEF DrainOK
<1>8. \A id \in Ids : forwards[id] # None /\ forwards[id] \notin missed' =>
        /\ forwards[id] \notin missed
        /\ fwd[forwards[id]].kind = "remote" /\ Rebound(forwards[id])' =>
             Rebound(forwards[id]) /\ client' = client
  BY <1>0, <1>1, <1>4, <1>5, ActorFacts DEF Rebound, Registered, TypeOK, ReconnectOK
<1>9. /\ pc'[Reconnector] = "swap" /\ client' \in net' => client' = client /\ client \in net
      /\ pc'[Reconnector] = "dial" => client' = None
      /\ pc'[Reconnector] \in {"idle", "dial", "snap"} => todo' = {}
      /\ \A h \in Handlers : loc[h].c \in net' => loc[h].c \in net
      /\ \A h \in Handlers : loc'[h].c = loc[h].c
  BY <1>0, <1>1, <1>4, <1>5, ActorFacts DEF ReconnectOK, TypeOK
<1>10. todo' \subseteq todo \cup Registered
  BY <1>5
<1>11. \A a \in Actors : /\ pc'[a] = pc[a] \/ (pc[a] \in Resting /\ pc'[a] \in Resting)
                         /\ loc'[a].f = loc[a].f /\ loc'[a].l = loc[a].l
  BY <1>1, <1>5 DEF Resting
<1> QED
  BY <1>0, <1>4, <1>5, <1>6, <1>7, <1>8, <1>9, <1>10, <1>11, QuietKeeps

\* rebindForwards ends.
LEMMA RebindEndsKeeps ==
  ASSUME ForwardsInv, RebindEnds
  PROVE  ForwardsInv'
<1>0. TypeOK /\ DrainOK /\ LocalsOK /\ ForwardOK /\ ReconnectOK
  BY DEF ForwardsInv
<1>1. /\ pc[Reconnector] = "rebind"
      /\ pc'[Reconnector] = "idle" /\ \A b \in Actors : b # Reconnector => pc'[b] = pc[b]
      /\ pc' \in [Actors -> Points]
      /\ \A i \in Handlers : pc'[i] \in {"idle", "listen", "register", "start", "cas", "close"}
      /\ pc'[Closer] \in {"idle", "drain", "cas", "close", "clear", "ended"}
      /\ pc'[Reconnector] \in {"idle", "dial", "snap", "rebind", "swap", "old"}
  BY <1>0, ActorFacts, GotoFacts DEF RebindEnds, At, Points, Return, Leave
<1>4. PICK G : Closes(G) /\ G = {}
  BY <1>0, SameListeners DEF RebindEnds
<1>5. /\ UNCHANGED <<closed, client, net, forwards, fwd, ln, todo, missed>> /\ todo = {}
      /\ \A b \in Actors : b # Reconnector => loc'[b] = loc[b]
      /\ loc' \in [Actors -> Locals]
      /\ \A b \in Actors : loc'[b].f = loc[b].f /\ loc'[b].l = loc[b].l
  <2>1. loc' = [loc EXCEPT ![Reconnector] = NoLocals] /\ pc[Reconnector] = "rebind"
    BY DEF RebindEnds, Return, Leave, At
  <2>2. loc[Reconnector].f = None /\ loc[Reconnector].l = None
    BY <1>0, <2>1, ActorFacts DEF LocalsOK, Works
  <2> QED
    BY <1>0, <2>1, <2>2, ActorFacts, LeaveFacts DEF RebindEnds
<1>6. TypeOK'
  BY <1>0, <1>1, <1>4, <1>5 DEF TypeOK, Points, Closes
<1>7. DrainOK'
  BY <1>0, <1>1, <1>5, ActorFacts DEF DrainOK
<1>8. \A id \in Ids : forwards[id] # None /\ forwards[id] \notin missed' =>
        /\ forwards[id] \notin missed
        /\ fwd[forwards[id]].kind = "remote" /\ Rebound(forwards[id])' =>
             Rebound(forwards[id]) /\ client' = client
  BY <1>0, <1>1, <1>4, <1>5, ActorFacts DEF Rebound, Registered, TypeOK, ReconnectOK
<1>9. /\ pc'[Reconnector] = "swap" /\ client' \in net' => client' = client /\ client \in net
      /\ pc'[Reconnector] = "dial" => client' = None
      /\ pc'[Reconnector] \in {"idle", "dial", "snap"} => todo' = {}
      /\ \A h \in Handlers : loc[h].c \in net' => loc[h].c \in net
      /\ \A h \in Handlers : loc'[h].c = loc[h].c
  BY <1>0, <1>1, <1>4, <1>5, ActorFacts DEF ReconnectOK, TypeOK
<1>10. todo' \subseteq todo \cup Registered
  BY <1>5
<1>11. \A a \in Actors : /\ pc'[a] = pc[a] \/ (pc[a] \in Resting /\ pc'[a] \in Resting)
                         /\ loc'[a].f = loc[a].f /\ loc'[a].l = loc[a].l
  BY <1>1, <1>5 DEF Resting
<1> QED
  BY <1>0, <1>4, <1>5, <1>6, <1>7, <1>8, <1>9, <1>10, <1>11, QuietKeeps

\* A dial changes the transport at most.
LEMMA ReconnectDialKeeps ==
  ASSUME ForwardsInv, NEW ok \in BOOLEAN, ReconnectDial(ok)
  PROVE  ForwardsInv'
<1>0. TypeOK /\ DrainOK /\ LocalsOK /\ ForwardOK /\ ReconnectOK
  BY DEF ForwardsInv
<1>1. pc[Reconnector] = "dial" /\ (Goto(Reconnector, "idle") \/ Goto(Reconnector, "snap"))
  BY DEF ReconnectDial, At
<1>2. /\ pc' \in [Actors -> Points]
      /\ pc'[Reconnector] \in {"idle", "snap"}
      /\ \A b \in Actors : b # Reconnector => pc'[b] = pc[b]
      /\ \A i \in Handlers : pc'[i] \in {"idle", "listen", "register", "start", "cas", "close"}
      /\ pc'[Closer] \in {"idle", "drain", "cas", "close", "clear", "ended"}
  <2>1. CASE Goto(Reconnector, "idle")
    BY <1>0, <2>1, ActorFacts, GotoFacts DEF Points
  <2>2. CASE Goto(Reconnector, "snap")
    BY <1>0, <2>2, ActorFacts, GotoFacts DEF Points
  <2> QED
    BY <1>1, <2>1, <2>2
<1>3. /\ client' \in Clients \cup {None} /\ net' \subseteq Clients
      /\ \A h \in Handlers : loc[h].c \in net' => loc[h].c \in net
      /\ pc'[Reconnector] = "idle" => client' = client
  <2>1. CASE UNCHANGED <<client, net>>
    BY <1>0, <2>1 DEF TypeOK
  <2>2. CASE /\ Goto(Reconnector, "snap")
             /\ \E c \in New({d \in Clients : FreshClient(d)}) : client' = c /\ net' = net \cup {c}
    <3>1. PICK c \in New({d \in Clients : FreshClient(d)}) : client' = c /\ net' = net \cup {c}
      BY <2>2
    <3>2. c \in Clients /\ FreshClient(c)
      BY NewFacts
    <3>3. pc'[Reconnector] = "snap" /\ \A h \in Handlers : loc[h].c # c
      BY <1>0, <2>2, <3>2, ActorFacts, GotoFacts DEF Points, FreshClient
    <3> QED
      BY <1>0, <3>1, <3>2, <3>3 DEF TypeOK
  <2> QED
    BY <2>1, <2>2 DEF ReconnectDial
<1>4. PICK G : Closes(G) /\ G = {}
  BY <1>0, SameListeners DEF ReconnectDial
<1>5. UNCHANGED <<closed, forwards, fwd, ln, loc, todo, missed>>
  BY DEF ReconnectDial
<1>6. TypeOK'
  BY <1>0, <1>2, <1>3, <1>5 DEF TypeOK, Points
<1>7. DrainOK'
  BY <1>0, <1>2, <1>5, ActorFacts DEF DrainOK
<1>8. \A id \in Ids : forwards[id] # None /\ forwards[id] \notin missed' =>
        /\ forwards[id] \notin missed
        /\ fwd[forwards[id]].kind = "remote" /\ Rebound(forwards[id])' =>
             Rebound(forwards[id]) /\ client' = client
  BY <1>0, <1>1, <1>2, <1>3, <1>5, <1>6, ActorFacts DEF Rebound, TypeOK, ReconnectOK
<1>9. pc'[Reconnector] \in {"idle", "dial", "snap"} => todo' = {}
  BY <1>0, <1>1, <1>5 DEF ReconnectOK
<1>10. \A a \in Actors : /\ pc'[a] = pc[a] \/ (pc[a] \in Resting /\ pc'[a] \in Resting)
                         /\ loc'[a] = loc[a]
  BY <1>1, <1>2, <1>5 DEF Resting
<1> QED
  BY <1>0, <1>2, <1>3, <1>4, <1>5, <1>6, <1>7, <1>8, <1>9, <1>10, ActorFacts, QuietKeeps

\* Forward.Close wins its CAS: whoever took a forward out of the map is the only
\* one that closes it.
\* Forward.Close wins its CAS: whoever took a forward out of the map is the only
\* one that closes it.
LEMMA ForwardCasKeeps ==
  ASSUME ForwardsInv, NEW a \in Handlers \cup {Closer}, ForwardCas(a)
  PROVE  ForwardsInv'
<1> DEFINE f == loc[a].f
<1>0. /\ TypeOK /\ LocalsOK /\ DrainOK /\ ForwardOK /\ RebindOK /\ ListenersOK /\ Ownership
      /\ ReconnectOK /\ NewOpen /\ RegisteredListen
  BY DEF ForwardsInv
<1>1. a \in Actors /\ a # Reconnector /\ f \in Forwards /\ pc[a] = "cas"
  BY <1>0, ActorFacts, StateTypes DEF LocalsOK, Works, ForwardCas, At
<1>2. ~fwd[f].closed
  BY <1>0, <1>1 DEF ForwardOK
<1>3. /\ fwd' = [fwd EXCEPT ![f].closed = TRUE] /\ Goto(a, "close")
      /\ UNCHANGED <<closed, client, net, forwards, ln, loc, todo, missed>>
  BY <1>2 DEF ForwardCas
<1>4. /\ pc'[a] = "close" /\ \A b \in Actors : b # a => pc'[b] = pc[b]
      /\ pc' \in [Actors -> Points]
      /\ \A i \in Handlers : pc'[i] \in {"idle", "listen", "register", "start", "cas", "close"}
      /\ pc'[Closer] \in {"idle", "drain", "cas", "close", "clear", "ended"}
      /\ pc'[Reconnector] \in {"idle", "dial", "snap", "rebind", "swap", "old"}
  BY <1>0, <1>1, <1>3, GotoFacts DEF Points
<1>5. /\ fwd' \in [Forwards -> ForwardRecords] /\ fwd'[f].closed
      /\ \A g \in Forwards : fwd'[g].listener = fwd[g].listener /\ fwd'[g].id = fwd[g].id
                             /\ fwd'[g].kind = fwd[g].kind
      /\ \A g \in Forwards : g # f => fwd'[g].closed = fwd[g].closed
  BY <1>0, <1>1, <1>3, CloseFacts
<1>11. TypeOK'
  BY <1>0, <1>1, <1>2, <1>3, <1>4, <1>5, ActorFacts DEF TypeOK, Points
<1>12. LocalsOK'
  BY <1>0, <1>1, <1>2, <1>3, <1>4, <1>5, ActorFacts DEF LocalsOK, Works
<1>13. DrainOK'
  BY <1>0, <1>1, <1>2, <1>3, <1>4, <1>5, ActorFacts DEF DrainOK
<1>14. ForwardOK'
  BY <1>0, <1>1, <1>2, <1>3, <1>4, <1>5, ActorFacts, StateTypes
     DEF ForwardOK, LocalsOK, Works
<1>15. RebindOK'
  <2>1. \A g \in Forwards : Live(g) => Live(g)' \/ fwd'[g].closed
    BY <1>0, <1>1, <1>3, <1>4, <1>5, ActorFacts DEF Live
  <2>2. \A g \in Forwards : fwd[g].closed => fwd'[g].closed
    BY <1>5
  <2> QED
    BY <2>1, <2>2, <1>0, <1>1, <1>3, <1>4, ActorFacts, RebindKeeps
<1>16. ListenersOK'
  BY <1>0, <1>1, <1>2, <1>3, <1>4, <1>5, ActorFacts, StateTypes
     DEF ListenersOK, ForwardOK, LocalsOK, Works
<1>17. Ownership'
  BY <1>0, <1>1, <1>2, <1>3, <1>4, <1>5, ActorFacts, StateTypes
     DEF Ownership, Owned, ForwardOK, LocalsOK, Works
<1>18. ReconnectOK'
  BY <1>0, <1>1, <1>2, <1>3, <1>4, <1>5, ActorFacts, StateTypes
     DEF ReconnectOK, LocalsOK, Works
<1>19. NewOpen'
  BY <1>0, <1>1, <1>2, <1>3, <1>4, <1>5, ActorFacts, StateTypes
     DEF NewOpen, Open, ForwardOK, ListenersOK, ReconnectOK, LocalsOK, Works
<1>20. RegisteredListen'
  BY <1>0, <1>1, <1>2, <1>3, <1>4, <1>5, ActorFacts, StateTypes
     DEF RegisteredListen, Rebound, Open, ForwardOK, ListenersOK, ReconnectOK, LocalsOK,
         Works
<1> QED
  BY <1>11, <1>12, <1>13, <1>14, <1>15, <1>16, <1>17, <1>18, <1>19, <1>20 DEF ForwardsInv

\* CloseForward closes the listener the forward has by now.
\* CloseForward closes the listener the forward has by now.
LEMMA ForwardCloseCallKeeps ==
  ASSUME ForwardsInv, NEW a \in Handlers, ForwardClose(a)
  PROVE  ForwardsInv'
<1> DEFINE f == loc[a].f
<1>0. /\ TypeOK /\ LocalsOK /\ DrainOK /\ ForwardOK /\ RebindOK /\ ListenersOK /\ Ownership
      /\ ReconnectOK /\ NewOpen /\ RegisteredListen
  BY DEF ForwardsInv
<1>1. a \in Actors /\ a # Reconnector /\ f \in Forwards /\ pc[a] = "close"
  BY <1>0, ActorFacts, StateTypes DEF LocalsOK, Works, ForwardClose, At
<1>2. /\ pc'[a] = "idle" /\ \A b \in Actors : b # a => pc'[b] = pc[b]
      /\ pc' \in [Actors -> Points]
      /\ \A i \in Handlers : pc'[i] \in {"idle", "listen", "register", "start", "cas", "close"}
      /\ pc'[Closer] \in {"idle", "drain", "cas", "close", "clear", "ended"}
      /\ pc'[Reconnector] \in {"idle", "dial", "snap", "rebind", "swap", "old"}
  BY <1>0, <1>1, ActorFacts, GotoFacts DEF ForwardClose, AfterClose, Leave, Points
<1>3. /\ loc' \in [Actors -> Locals] /\ loc'[a].f = None /\ loc'[a].l = None
      /\ \A b \in Actors : b # a => loc'[b] = loc[b]
  BY <1>0, <1>1, LeaveFacts DEF ForwardClose, AfterClose, Leave
<1>4. /\ fwd' \in [Forwards -> ForwardRecords]
      /\ \A g \in Forwards : g # f => fwd'[g] = fwd[g]
      /\ \/ fwd'[f] = fwd[f] /\ missed' = missed
         \/ /\ fwd'[f].closed /\ fwd'[f].listener = None /\ missed' = missed \ {f}
            /\ \A i \in Ids : forwards[i] # f
            /\ \A b \in Actors : b # a => loc[b].f # f
            /\ a # Reconnector => f \notin todo
  BY <1>0, <1>1, ForgetFacts DEF ForwardClose, AfterClose, NoForward
<1>5. UNCHANGED <<closed, client, net, forwards, todo>>
  BY DEF ForwardClose
<1>6. Closes({fwd[f].listener})
  <2>1. PICK l : l = fwd[f].listener
    OBVIOUS
  <2>2. CloseListener(l)
    BY <2>1 DEF ForwardClose
  <2>3. Closes({l})
    BY <1>0, <2>2, CloseListenerFacts
  <2> QED
    BY <2>1, <2>3 DEF Closes
<1>11. TypeOK'
  BY <1>0, <1>1, <1>2, <1>3, <1>4, <1>5, <1>6, ActorFacts DEF TypeOK, Points, Closes
<1>12. LocalsOK'
  BY <1>0, <1>1, <1>2, <1>3, ActorFacts DEF LocalsOK, Works
<1>13. DrainOK'
  BY <1>0, <1>1, <1>2, <1>5, ActorFacts DEF DrainOK
<1>14. ForwardOK'
  BY <1>0, <1>1, <1>2, <1>3, <1>4, <1>5, ActorFacts, StateTypes
     DEF ForwardOK, LocalsOK, Works
<1>15. RebindOK'
  <2>1. \A g \in Forwards : Live(g) => Live(g)'
    BY <1>0, <1>1, <1>2, <1>3, <1>5, ActorFacts, StateTypes DEF Live
  <2>2. \A g \in Forwards : fwd[g].closed => fwd'[g].closed
    BY <1>4, StateTypes
  <2> QED
    BY <2>1, <2>2, <1>0, <1>1, <1>2, <1>3, <1>5, ActorFacts, RebindKeeps
<1>16. ListenersOK'
  BY <1>0, <1>1, <1>2, <1>3, <1>4, <1>5, <1>6, ActorFacts, StateTypes
     DEF ListenersOK, ForwardOK, LocalsOK, Works, Closes
<1>17. Ownership'
  BY <1>0, <1>1, <1>2, <1>3, <1>4, <1>5, <1>6, ActorFacts, StateTypes
     DEF Ownership, Owned, ForwardOK, LocalsOK, Works, Closes
<1>18. ReconnectOK'
  BY <1>0, <1>1, <1>2, <1>3, <1>4, <1>5, ActorFacts, StateTypes
     DEF ReconnectOK, LocalsOK, Works
<1>19. NewOpen'
  BY <1>0, <1>1, <1>2, <1>3, <1>4, <1>5, <1>6, ActorFacts, StateTypes
     DEF NewOpen, Open, ForwardOK, ListenersOK, ReconnectOK, LocalsOK, Works, Closes
<1>20. RegisteredListen'
  BY <1>0, <1>1, <1>2, <1>3, <1>4, <1>5, <1>6, ActorFacts, StateTypes
     DEF RegisteredListen, Rebound, Open, ForwardOK, ListenersOK, ReconnectOK, LocalsOK,
         Works, Closes
<1> QED
  BY <1>11, <1>12, <1>13, <1>14, <1>15, <1>16, <1>17, <1>18, <1>19, <1>20 DEF ForwardsInv

\* So does the drain.
\* So does the drain.
LEMMA ForwardCloseDrainKeeps ==
  ASSUME ForwardsInv, ForwardClose(Closer)
  PROVE  ForwardsInv'
<1> DEFINE f == loc[Closer].f
<1>0. /\ TypeOK /\ LocalsOK /\ DrainOK /\ ForwardOK /\ RebindOK /\ ListenersOK /\ Ownership
      /\ ReconnectOK /\ NewOpen /\ RegisteredListen
  BY DEF ForwardsInv
<1>1. Closer \in Actors /\ Closer # Reconnector /\ f \in Forwards /\ pc[Closer] = "close"
  BY <1>0, ActorFacts, StateTypes DEF LocalsOK, Works, ForwardClose, At
<1>2. /\ pc'[Closer] = "drain" /\ \A b \in Actors : b # Closer => pc'[b] = pc[b]
      /\ pc' \in [Actors -> Points]
      /\ \A i \in Handlers : pc'[i] \in {"idle", "listen", "register", "start", "cas", "close"}
      /\ pc'[Closer] \in {"idle", "drain", "cas", "close", "clear", "ended"}
      /\ pc'[Reconnector] \in {"idle", "dial", "snap", "rebind", "swap", "old"}
  BY <1>0, <1>1, ActorFacts, GotoFacts DEF ForwardClose, AfterClose, Leave, Points
<1>3. /\ loc' \in [Actors -> Locals] /\ loc'[Closer].f = None /\ loc'[Closer].l = None
      /\ \A b \in Actors : b # Closer => loc'[b] = loc[b]
  BY <1>0, <1>1, LeaveFacts DEF ForwardClose, AfterClose, Leave
<1>4. /\ fwd' \in [Forwards -> ForwardRecords]
      /\ \A g \in Forwards : g # f => fwd'[g] = fwd[g]
      /\ \/ fwd'[f] = fwd[f] /\ missed' = missed
         \/ /\ fwd'[f].closed /\ fwd'[f].listener = None /\ missed' = missed \ {f}
            /\ \A i \in Ids : forwards[i] # f
            /\ \A b \in Actors : b # Closer => loc[b].f # f
            /\ Closer # Reconnector => f \notin todo
  BY <1>0, <1>1, ForgetFacts DEF ForwardClose, AfterClose, NoForward
<1>5. UNCHANGED <<closed, client, net, forwards, todo>>
  BY DEF ForwardClose
<1>6. Closes({fwd[f].listener})
  <2>1. PICK l : l = fwd[f].listener
    OBVIOUS
  <2>2. CloseListener(l)
    BY <2>1 DEF ForwardClose
  <2>3. Closes({l})
    BY <1>0, <2>2, CloseListenerFacts
  <2> QED
    BY <2>1, <2>3 DEF Closes
<1>11. TypeOK'
  BY <1>0, <1>1, <1>2, <1>3, <1>4, <1>5, <1>6, ActorFacts DEF TypeOK, Points, Closes
<1>12. LocalsOK'
  BY <1>0, <1>1, <1>2, <1>3, ActorFacts DEF LocalsOK, Works
<1>13. DrainOK'
  BY <1>0, <1>1, <1>2, <1>5, ActorFacts DEF DrainOK
<1>14. ForwardOK'
  BY <1>0, <1>1, <1>2, <1>3, <1>4, <1>5, ActorFacts, StateTypes
     DEF ForwardOK, LocalsOK, Works
<1>15. RebindOK'
  <2>1. \A g \in Forwards : Live(g) => Live(g)'
    BY <1>0, <1>1, <1>2, <1>3, <1>5, ActorFacts, StateTypes DEF Live
  <2>2. \A g \in Forwards : fwd[g].closed => fwd'[g].closed
    BY <1>4, StateTypes
  <2> QED
    BY <2>1, <2>2, <1>0, <1>1, <1>2, <1>3, <1>5, ActorFacts, RebindKeeps
<1>16. ListenersOK'
  BY <1>0, <1>1, <1>2, <1>3, <1>4, <1>5, <1>6, ActorFacts, StateTypes
     DEF ListenersOK, ForwardOK, LocalsOK, Works, Closes
<1>17. Ownership'
  BY <1>0, <1>1, <1>2, <1>3, <1>4, <1>5, <1>6, ActorFacts, StateTypes
     DEF Ownership, Owned, ForwardOK, LocalsOK, Works, Closes
<1>18. ReconnectOK'
  BY <1>0, <1>1, <1>2, <1>3, <1>4, <1>5, ActorFacts, StateTypes
     DEF ReconnectOK, LocalsOK, Works
<1>19. NewOpen'
  BY <1>0, <1>1, <1>2, <1>3, <1>4, <1>5, <1>6, ActorFacts, StateTypes
     DEF NewOpen, Open, ForwardOK, ListenersOK, ReconnectOK, LocalsOK, Works, Closes
<1>20. RegisteredListen'
  BY <1>0, <1>1, <1>2, <1>3, <1>4, <1>5, <1>6, ActorFacts, StateTypes
     DEF RegisteredListen, Rebound, Open, ForwardOK, ListenersOK, ReconnectOK, LocalsOK,
         Works, Closes
<1> QED
  BY <1>11, <1>12, <1>13, <1>14, <1>15, <1>16, <1>17, <1>18, <1>19, <1>20 DEF ForwardsInv

\* rebindForwards passes over a forward.
\* rebindForwards passes over a forward.
LEMMA RebindSkipKeeps ==
  ASSUME ForwardsInv, NEW f \in Forwards, RebindSkip(f)
  PROVE  ForwardsInv'
<1>0. /\ TypeOK /\ LocalsOK /\ DrainOK /\ ForwardOK /\ RebindOK /\ ListenersOK /\ Ownership
      /\ ReconnectOK /\ NewOpen /\ RegisteredListen
  BY DEF ForwardsInv
<1>1. Reconnector \in Actors /\ pc[Reconnector] = "rebind" /\ loc[Reconnector].f = None
  BY <1>0, ActorFacts DEF RebindSkip, At, LocalsOK, Works
<1>2. /\ fwd' \in [Forwards -> ForwardRecords]
      /\ \A g \in Forwards : g # f => fwd'[g] = fwd[g]
      /\ \/ fwd'[f] = fwd[f] /\ missed' = missed
         \/ /\ fwd'[f].closed /\ fwd'[f].listener = None /\ missed' = missed \ {f}
            /\ \A i \in Ids : forwards[i] # f
            /\ \A b \in Actors : b # Reconnector => loc[b].f # f
            /\ Reconnector # Reconnector => f \notin todo
  BY <1>0, <1>1, ForgetFacts DEF RebindSkip, NoForward
<1>3. /\ UNCHANGED <<closed, client, net, forwards, ln, pc, loc>> /\ todo' = todo \ {f}
      /\ fwd[f].kind # "remote" \/ fwd[f].closed \/ client = None
  BY DEF RebindSkip, NeedsRebind
<1>11. TypeOK'
  BY <1>0, <1>1, <1>2, <1>3, ActorFacts DEF TypeOK, Points
<1>12. LocalsOK'
  BY <1>0, <1>1, <1>2, <1>3, ActorFacts DEF LocalsOK, Works
<1>13. DrainOK'
  BY <1>0, <1>1, <1>2, <1>3, ActorFacts DEF DrainOK
<1>14. ForwardOK'
  BY <1>0, <1>1, <1>2, <1>3, ActorFacts, StateTypes DEF ForwardOK, LocalsOK, Works
<1>15. RebindOK'
  <2>1. \A g \in Forwards : Live(g) => Live(g)'
    BY <1>0, <1>1, <1>2, <1>3, ActorFacts, StateTypes DEF Live
  <2>2. \A g \in Forwards : fwd[g].closed => fwd'[g].closed
    BY <1>0, <1>1, <1>2, <1>3, StateTypes
  <2> QED
    BY <2>1, <2>2, <1>0, <1>1, <1>2, <1>3, ActorFacts, RebindKeeps
<1>16. ListenersOK'
  BY <1>0, <1>1, <1>2, <1>3, ActorFacts, StateTypes
     DEF ListenersOK, ForwardOK, LocalsOK, Works
<1>17. Ownership'
  BY <1>0, <1>1, <1>2, <1>3, ActorFacts, StateTypes
     DEF Ownership, Owned, ForwardOK, LocalsOK, Works
<1>18. ReconnectOK'
  BY <1>0, <1>1, <1>2, <1>3, ActorFacts, StateTypes DEF ReconnectOK, LocalsOK, Works
<1>19. NewOpen'
  BY <1>0, <1>1, <1>2, <1>3, ActorFacts, StateTypes
     DEF NewOpen, Open, ForwardOK, ListenersOK, ReconnectOK, LocalsOK, Works
<1>20. RegisteredListen'
  <2>1. \A i \in Ids : forwards[i] # None =>
          /\ fwd'[forwards[i]] = fwd[forwards[i]]
          /\ forwards[i] \notin missed' => forwards[i] \notin missed
    BY <1>0, <1>2, StateTypes
  <2>2. \A i \in Ids :
          forwards[i] # None /\ fwd[forwards[i]].kind = "remote" /\ Rebound(forwards[i])' =>
            Rebound(forwards[i])
    BY <1>0, <1>3, ActorFacts DEF Rebound, ForwardOK, TypeOK
  <2> SUFFICES ASSUME NEW i \in Ids, forwards[i] # None, forwards[i] \notin missed'
               PROVE  (IF fwd[forwards[i]].kind = "remote"
                       THEN Rebound(forwards[i]) => Open(fwd[forwards[i]].listener, client)
                       ELSE Open(fwd[forwards[i]].listener, Host))'
    BY <1>3 DEF RegisteredListen
  <2>3. fwd'[forwards[i]] = fwd[forwards[i]] /\ forwards[i] \notin missed
    BY <2>1
  <2>4. IF fwd[forwards[i]].kind = "remote"
        THEN Rebound(forwards[i]) => Open(fwd[forwards[i]].listener, client)
        ELSE Open(fwd[forwards[i]].listener, Host)
    BY <1>0, <2>3 DEF RegisteredListen
  <2> QED
    BY <1>3, <2>2, <2>3, <2>4 DEF Open
<1> QED
  BY <1>11, <1>12, <1>13, <1>14, <1>15, <1>16, <1>17, <1>18, <1>19, <1>20 DEF ForwardsInv

\* A listener opened for a forward that was closed meanwhile is closed.
\* A listener opened for a forward that was closed meanwhile is closed.
LEMMA RebindDropKeeps ==
  ASSUME ForwardsInv, RebindDrop
  PROVE  ForwardsInv'
<1> DEFINE f == loc[Reconnector].f
<1>0. /\ TypeOK /\ LocalsOK /\ DrainOK /\ ForwardOK /\ RebindOK /\ ListenersOK /\ Ownership
      /\ ReconnectOK /\ NewOpen /\ RegisteredListen
  BY DEF ForwardsInv
<1>1. Reconnector \in Actors /\ f \in Forwards /\ pc[Reconnector] = "swap"
  BY <1>0, ActorFacts, StateTypes DEF LocalsOK, Works, RebindDrop, At
<1>2. /\ pc'[Reconnector] = "rebind" /\ \A b \in Actors : b # Reconnector => pc'[b] = pc[b]
      /\ pc' \in [Actors -> Points]
      /\ \A i \in Handlers : pc'[i] \in {"idle", "listen", "register", "start", "cas", "close"}
      /\ pc'[Closer] \in {"idle", "drain", "cas", "close", "clear", "ended"}
      /\ pc'[Reconnector] \in {"idle", "dial", "snap", "rebind", "swap", "old"}
  BY <1>0, <1>1, GotoFacts DEF RebindDrop, Leave, Points
<1>3. /\ loc' \in [Actors -> Locals] /\ loc'[Reconnector].f = None /\ loc'[Reconnector].l = None
      /\ \A b \in Actors : b # Reconnector => loc'[b] = loc[b]
  BY <1>0, <1>1, LeaveFacts DEF RebindDrop, Leave
<1>4. /\ fwd' \in [Forwards -> ForwardRecords]
      /\ \A g \in Forwards : g # f => fwd'[g] = fwd[g]
      /\ \/ fwd'[f] = fwd[f] /\ missed' = missed
         \/ /\ fwd'[f].closed /\ fwd'[f].listener = None /\ missed' = missed \ {f}
            /\ \A i \in Ids : forwards[i] # f
            /\ \A b \in Actors : b # Reconnector => loc[b].f # f
            /\ Reconnector # Reconnector => f \notin todo
  BY <1>0, <1>1, ForgetFacts DEF RebindDrop, NoForward
<1>5. UNCHANGED <<closed, client, net, forwards, todo>>
  BY DEF RebindDrop
<1>6. Closes({loc[Reconnector].l})
  <2>1. PICK l : l = loc[Reconnector].l
    OBVIOUS
  <2>2. CloseListener(l)
    BY <2>1 DEF RebindDrop
  <2>3. Closes({l})
    BY <1>0, <2>2, CloseListenerFacts
  <2> QED
    BY <2>1, <2>3 DEF Closes
<1>7. fwd[f].closed
  BY DEF RebindDrop, RebindDropped
<1>11. TypeOK'
  BY <1>0, <1>1, <1>2, <1>3, <1>4, <1>5, <1>6, ActorFacts DEF TypeOK, Points, Closes
<1>12. LocalsOK'
  BY <1>0, <1>1, <1>2, <1>3, ActorFacts DEF LocalsOK, Works
<1>13. DrainOK'
  BY <1>0, <1>1, <1>2, <1>5, ActorFacts DEF DrainOK
<1>14. ForwardOK'
  BY <1>0, <1>1, <1>2, <1>3, <1>4, <1>5, ActorFacts, StateTypes
     DEF ForwardOK, LocalsOK, Works
<1>15. RebindOK'
  <2>1. \A g \in Forwards : Live(g) => Live(g)'
    BY <1>0, <1>1, <1>2, <1>3, <1>5, ActorFacts, StateTypes DEF Live
  <2>2. \A g \in Forwards : fwd[g].closed => fwd'[g].closed
    BY <1>4, StateTypes
  <2> QED
    BY <2>1, <2>2, <1>0, <1>1, <1>2, <1>3, <1>5, ActorFacts, RebindKeeps
<1>16. ListenersOK'
  BY <1>0, <1>1, <1>2, <1>3, <1>4, <1>5, <1>6, ActorFacts, StateTypes
     DEF ListenersOK, ForwardOK, LocalsOK, Works, Closes
<1>17. Ownership'
  BY <1>0, <1>1, <1>2, <1>3, <1>4, <1>5, <1>6, ActorFacts, StateTypes
     DEF Ownership, Owned, ForwardOK, LocalsOK, Works, Closes
<1>18. ReconnectOK'
  BY <1>0, <1>1, <1>2, <1>3, <1>4, <1>5, ActorFacts, StateTypes
     DEF ReconnectOK, LocalsOK, Works
<1>19. NewOpen'
  BY <1>0, <1>1, <1>2, <1>3, <1>4, <1>5, <1>6, ActorFacts, StateTypes
     DEF NewOpen, Open, ForwardOK, ListenersOK, ReconnectOK, LocalsOK, Works, Closes
<1>20. RegisteredListen'
  <2>1. \A i \in Ids : forwards[i] # f
    BY <1>0, <1>1, <1>7, ActorFacts DEF ForwardOK
  <2>2. \A i \in Ids : forwards[i] # None =>
          /\ forwards[i] \in Forwards /\ fwd'[forwards[i]] = fwd[forwards[i]]
          /\ forwards[i] \notin missed' => forwards[i] \notin missed
    BY <1>0, <1>4, <2>1, StateTypes
  <2>3. \A i \in Ids : forwards[i] # None /\ Rebound(forwards[i])' => Rebound(forwards[i])
    BY <1>1, <1>2, <1>5, <2>1 DEF Rebound
  <2>4. \A g \in Forwards : \A on : g # f /\ Open(fwd[g].listener, on) => Open(fwd[g].listener, on)'
    <3> SUFFICES ASSUME NEW g \in Forwards, NEW on, g # f, Open(fwd[g].listener, on)
                 PROVE  fwd'[g] = fwd[g] /\ fwd[g].listener # loc[Reconnector].l
      BY <1>4, <1>6 DEF Open, Closes
    <3>1. ln[fwd[g].listener].f = g
      BY <1>0, ActorFacts DEF ListenersOK, Open
    <3> QED
      BY <1>0, <1>1, <1>4, <3>1, ActorFacts DEF ListenersOK, Open
  <2> SUFFICES ASSUME NEW i \in Ids, forwards[i] # None, forwards[i] \notin missed'
               PROVE  (IF fwd[forwards[i]].kind = "remote"
                       THEN Rebound(forwards[i]) => Open(fwd[forwards[i]].listener, client)
                       ELSE Open(fwd[forwards[i]].listener, Host))'
    BY <1>5 DEF RegisteredListen
  <2>5. forwards[i] \in Forwards /\ forwards[i] # f /\ forwards[i] \notin missed
        /\ fwd'[forwards[i]] = fwd[forwards[i]]
    BY <2>1, <2>2
  <2>6. IF fwd[forwards[i]].kind = "remote"
        THEN Rebound(forwards[i]) => Open(fwd[forwards[i]].listener, client)
        ELSE Open(fwd[forwards[i]].listener, Host)
    BY <1>0, <2>5 DEF RegisteredListen
  <2>7. /\ Open(fwd[forwards[i]].listener, client) => Open(fwd[forwards[i]].listener, client)'
        /\ Open(fwd[forwards[i]].listener, Host) => Open(fwd[forwards[i]].listener, Host)'
    BY <2>4, <2>5, <1>5 DEF Open
  <2> QED
    BY <1>5, <2>3, <2>5, <2>6, <2>7
<1> QED
  BY <1>11, <1>12, <1>13, <1>14, <1>15, <1>16, <1>17, <1>18, <1>19, <1>20 DEF ForwardsInv

\* The old listener is closed.
\* The old listener is closed.
LEMMA RebindOldKeeps ==
  ASSUME ForwardsInv, RebindOld
  PROVE  ForwardsInv'
<1> DEFINE f == loc[Reconnector].f
<1>0. /\ TypeOK /\ LocalsOK /\ DrainOK /\ ForwardOK /\ RebindOK /\ ListenersOK /\ Ownership
      /\ ReconnectOK /\ NewOpen /\ RegisteredListen
  BY DEF ForwardsInv
<1>1. Reconnector \in Actors /\ f \in Forwards /\ pc[Reconnector] = "old"
  BY <1>0, ActorFacts, StateTypes DEF LocalsOK, Works, RebindOld, At
<1>2. /\ pc'[Reconnector] = "rebind" /\ \A b \in Actors : b # Reconnector => pc'[b] = pc[b]
      /\ pc' \in [Actors -> Points]
      /\ \A i \in Handlers : pc'[i] \in {"idle", "listen", "register", "start", "cas", "close"}
      /\ pc'[Closer] \in {"idle", "drain", "cas", "close", "clear", "ended"}
      /\ pc'[Reconnector] \in {"idle", "dial", "snap", "rebind", "swap", "old"}
  BY <1>0, <1>1, GotoFacts DEF RebindOld, Leave, Points
<1>3. /\ loc' \in [Actors -> Locals] /\ loc'[Reconnector].f = None /\ loc'[Reconnector].l = None
      /\ \A b \in Actors : b # Reconnector => loc'[b] = loc[b]
  BY <1>0, <1>1, LeaveFacts DEF RebindOld, Leave
<1>4. /\ fwd' \in [Forwards -> ForwardRecords]
      /\ \A g \in Forwards : g # f => fwd'[g] = fwd[g]
      /\ \/ fwd'[f] = fwd[f] /\ missed' = missed
         \/ /\ fwd'[f].closed /\ fwd'[f].listener = None /\ missed' = missed \ {f}
            /\ \A i \in Ids : forwards[i] # f
            /\ \A b \in Actors : b # Reconnector => loc[b].f # f
            /\ Reconnector # Reconnector => f \notin todo
  BY <1>0, <1>1, ForgetFacts DEF RebindOld, NoForward
<1>5. UNCHANGED <<closed, client, net, forwards, todo>>
  BY DEF RebindOld
<1>6. Closes({loc[Reconnector].l})
  BY <1>0, RebindOldFacts
<1>11. TypeOK'
  BY <1>0, <1>1, <1>2, <1>3, <1>4, <1>5, <1>6, ActorFacts DEF TypeOK, Points, Closes
<1>12. LocalsOK'
  BY <1>0, <1>1, <1>2, <1>3, ActorFacts DEF LocalsOK, Works
<1>13. DrainOK'
  BY <1>0, <1>1, <1>2, <1>5, ActorFacts DEF DrainOK
<1>14. ForwardOK'
  BY <1>0, <1>1, <1>2, <1>3, <1>4, <1>5, ActorFacts, StateTypes
     DEF ForwardOK, LocalsOK, Works
<1>15. RebindOK'
  <2>1. \A g \in Forwards : Live(g) => Live(g)'
    BY <1>0, <1>1, <1>2, <1>3, <1>5, ActorFacts, StateTypes DEF Live
  <2>2. \A g \in Forwards : fwd[g].closed => fwd'[g].closed
    BY <1>4, StateTypes
  <2> QED
    BY <2>1, <2>2, <1>0, <1>1, <1>2, <1>3, <1>5, ActorFacts, RebindKeeps
<1>16. ListenersOK'
  BY <1>0, <1>1, <1>2, <1>3, <1>4, <1>5, <1>6, ActorFacts, StateTypes
     DEF ListenersOK, ForwardOK, LocalsOK, Works, Closes
<1>17. Ownership'
  BY <1>0, <1>1, <1>2, <1>3, <1>4, <1>5, <1>6, ActorFacts, StateTypes
     DEF Ownership, Owned, ForwardOK, LocalsOK, Works, Closes
<1>18. ReconnectOK'
  BY <1>0, <1>1, <1>2, <1>3, <1>4, <1>5, ActorFacts, StateTypes
     DEF ReconnectOK, LocalsOK, Works
<1>19. NewOpen'
  BY <1>0, <1>1, <1>2, <1>3, <1>4, <1>5, <1>6, ActorFacts, StateTypes
     DEF NewOpen, Open, ForwardOK, ListenersOK, ReconnectOK, LocalsOK, Works, Closes
<1>20. RegisteredListen'
  BY <1>0, <1>1, <1>2, <1>3, <1>4, <1>5, <1>6, ActorFacts, StateTypes
     DEF RegisteredListen, Rebound, Open, ForwardOK, ListenersOK, ReconnectOK, LocalsOK,
         Works, Closes
<1> QED
  BY <1>11, <1>12, <1>13, <1>14, <1>15, <1>16, <1>17, <1>18, <1>19, <1>20 DEF ForwardsInv

\* The new listener becomes the forward's, which is in the map or about to be
\* closed; the old one stays with the rebind.
\* The new listener becomes the forward's, which is in the map or about to be
\* closed; the old one stays with the rebind.
LEMMA RebindSwapKeeps ==
  ASSUME ForwardsInv, RebindSwap
  PROVE  ForwardsInv'
<1> DEFINE f == loc[Reconnector].f
<1>0. /\ TypeOK /\ LocalsOK /\ DrainOK /\ ForwardOK /\ RebindOK /\ ListenersOK /\ Ownership
      /\ ReconnectOK /\ NewOpen /\ RegisteredListen
  BY DEF ForwardsInv
<1>1. Reconnector \in Actors /\ f \in Forwards /\ pc[Reconnector] = "swap"
  BY <1>0, ActorFacts, StateTypes DEF LocalsOK, Works, RebindSwap, At
<1>2. /\ pc'[Reconnector] = "old" /\ \A b \in Actors : b # Reconnector => pc'[b] = pc[b]
      /\ pc' \in [Actors -> Points]
      /\ \A i \in Handlers : pc'[i] \in {"idle", "listen", "register", "start", "cas", "close"}
      /\ pc'[Closer] \in {"idle", "drain", "cas", "close", "clear", "ended"}
      /\ pc'[Reconnector] \in {"idle", "dial", "snap", "rebind", "swap", "old"}
  BY <1>0, <1>1, GotoFacts DEF RebindSwap, Points
<1>3. ~fwd[f].closed /\ Live(f)
  BY <1>0, <1>1 DEF RebindSwap, RebindDropped, RebindOK
<1>4. /\ loc' \in [Actors -> Locals]
      /\ loc'[Reconnector].l = fwd[f].listener /\ loc'[Reconnector].f = f
      /\ \A b \in Actors : b # Reconnector => loc'[b] = loc[b]
  <2>1. /\ fwd[f].listener \in Listeners \cup {None}
        /\ loc' = [loc EXCEPT ![Reconnector].l = fwd[f].listener]
    BY <1>0, <1>1, StateTypes DEF RebindSwap
  <2> QED
    BY <1>0, <1>1, <2>1, HoldFacts
<1>5. /\ fwd' \in [Forwards -> ForwardRecords] /\ fwd'[f].listener = loc[Reconnector].l
      /\ \A g \in Forwards : fwd'[g].closed = fwd[g].closed /\ fwd'[g].id = fwd[g].id
                             /\ fwd'[g].kind = fwd[g].kind
      /\ \A g \in Forwards : g # f => fwd'[g].listener = fwd[g].listener
  <2>1. /\ loc[Reconnector].l \in Listeners \cup {None}
        /\ fwd' = [fwd EXCEPT ![f].listener = loc[Reconnector].l]
    BY <1>0, <1>1, StateTypes DEF RebindSwap
  <2> QED
    BY <1>0, <1>1, <2>1, InstallFacts
<1>6. UNCHANGED <<closed, client, net, forwards, ln, todo>> /\ missed' = missed \ {f}
  BY DEF RebindSwap
<1>11. TypeOK'
  BY <1>0, <1>1, <1>2, <1>3, <1>4, <1>5, <1>6, ActorFacts DEF TypeOK, Points
<1>12. LocalsOK'
  BY <1>0, <1>1, <1>2, <1>3, <1>4, <1>5, <1>6, ActorFacts DEF LocalsOK, Works
<1>13. DrainOK'
  BY <1>0, <1>1, <1>2, <1>3, <1>4, <1>5, <1>6, ActorFacts DEF DrainOK
<1>14. ForwardOK'
  BY <1>0, <1>1, <1>2, <1>3, <1>4, <1>5, <1>6, ActorFacts, StateTypes
     DEF ForwardOK, LocalsOK, Works
<1>15. RebindOK'
  <2>1. \A g \in Forwards : Live(g) => Live(g)'
    BY <1>0, <1>1, <1>2, <1>3, <1>4, <1>5, <1>6, ActorFacts, StateTypes DEF Live
  <2>2. \A g \in Forwards : fwd[g].closed => fwd'[g].closed
    BY <1>0, <1>1, <1>2, <1>3, <1>4, <1>5, <1>6, StateTypes
  <2> QED
    BY <2>1, <2>2, <1>0, <1>1, <1>2, <1>3, <1>4, <1>5, <1>6, ActorFacts, RebindKeeps
<1>16. ListenersOK'
  BY <1>0, <1>1, <1>2, <1>3, <1>4, <1>5, <1>6, ActorFacts, StateTypes
     DEF ListenersOK, ForwardOK, LocalsOK, Works
<1>17. Ownership'
  <2> SUFFICES ASSUME NEW m \in Listeners, ln[m] # None
               PROVE  Owned(m)'
    BY <1>6 DEF Ownership
  <2>1. Owned(m)
    BY <1>0 DEF Ownership
  <2>2. CASE m = loc[Reconnector].l
    <3>1. ln[m].f = f
      BY <1>0, <1>1, <2>2, ActorFacts DEF ListenersOK
    <3>2. \/ \E id \in Ids : forwards'[id] = f
          \/ \E a \in Actors : pc'[a] \in {"cas", "close"} /\ loc'[a].f = f
      BY <1>1, <1>2, <1>3, <1>4, <1>6 DEF Live
    <3> QED
      BY <3>1, <3>2, <1>5, <1>6, <2>2 DEF Owned
  <2>3. CASE m = fwd[f].listener
    BY <2>3, <1>2, <1>4 DEF Owned
  <2>4. CASE m # loc[Reconnector].l /\ m # fwd[f].listener
    BY <2>1, <2>4, <1>0, <1>1, <1>2, <1>4, <1>5, <1>6, ActorFacts, StateTypes DEF Owned
  <2> QED
    BY <2>2, <2>3, <2>4
<1>18. ReconnectOK'
  BY <1>0, <1>1, <1>2, <1>3, <1>4, <1>5, <1>6, ActorFacts, StateTypes
     DEF ReconnectOK, LocalsOK, Works
<1>19. NewOpen'
  BY <1>0, <1>1, <1>2, <1>3, <1>4, <1>5, <1>6, ActorFacts, StateTypes
     DEF NewOpen, Open, ForwardOK, ListenersOK, ReconnectOK, LocalsOK, Works
<1>20. RegisteredListen'
  <2> SUFFICES ASSUME NEW i \in Ids, forwards[i] # None, forwards[i] \notin missed'
               PROVE  (IF fwd[forwards[i]].kind = "remote"
                       THEN Rebound(forwards[i]) => Open(fwd[forwards[i]].listener, client)
                       ELSE Open(fwd[forwards[i]].listener, Host))'
    BY <1>6 DEF RegisteredListen
  <2>1. CASE forwards[i] = f
    <3>1. fwd'[f].kind = "remote"
      BY <1>0, <1>1, <1>3, <1>5 DEF ReconnectOK
    <3>2. client \in net => Open(fwd'[f].listener, client)
      BY <1>0, <1>1, <1>5 DEF NewOpen
    <3> QED
      BY <3>1, <3>2, <2>1, <1>6 DEF Rebound, Open
  <2>2. CASE forwards[i] # f
    <3>1. forwards[i] \in Forwards /\ fwd'[forwards[i]].listener = fwd[forwards[i]].listener
      BY <1>0, <1>5, <2>2, StateTypes
    <3>2. Rebound(forwards[i])' => Rebound(forwards[i])
      BY <1>1, <1>2, <1>6, <2>2 DEF Rebound
    <3> QED
      BY <3>1, <3>2, <2>2, <1>0, <1>5, <1>6 DEF RegisteredListen, Open
  <2> QED
    BY <2>1, <2>2
<1> QED
  BY <1>11, <1>12, <1>13, <1>14, <1>15, <1>16, <1>17, <1>18, <1>19, <1>20 DEF ForwardsInv

\* A listener opened again is the rebind's until it is swapped in.
\* A listener opened again is the rebind's until it is swapped in.
LEMMA RebindListenKeeps ==
  ASSUME ForwardsInv, NEW f \in Forwards, RebindListen(f)
  PROVE  ForwardsInv'
<1>0. /\ TypeOK /\ LocalsOK /\ DrainOK /\ ForwardOK /\ RebindOK /\ ListenersOK /\ Ownership
      /\ ReconnectOK /\ NewOpen /\ RegisteredListen
  BY DEF ForwardsInv
<1>1. /\ Reconnector \in Actors /\ pc[Reconnector] = "rebind" /\ loc[Reconnector].f = None
      /\ loc[Reconnector].l = None /\ f \in todo /\ client \in Clients
  BY <1>0, ActorFacts DEF RebindListen, NeedsRebind, At, LocalsOK, Works, TypeOK
<1>2. PICK l \in NewListener :
        /\ Listening(l, client, f)
        /\ loc' = [loc EXCEPT ![Reconnector] = [f |-> f, l |-> l, c |-> client]]
  BY DEF RebindListen
<1>3. /\ l \in Listeners /\ ln[l] = None /\ \A a \in Actors : loc[a].l # l
      /\ \A g \in Forwards : fwd[g].listener # l
  BY FreshListenerFacts
<1>4. /\ pc'[Reconnector] = "swap" /\ \A b \in Actors : b # Reconnector => pc'[b] = pc[b]
      /\ pc' \in [Actors -> Points]
      /\ \A i \in Handlers : pc'[i] \in {"idle", "listen", "register", "start", "cas", "close"}
      /\ pc'[Closer] \in {"idle", "drain", "cas", "close", "clear", "ended"}
      /\ pc'[Reconnector] \in {"idle", "dial", "snap", "rebind", "swap", "old"}
  BY <1>0, <1>1, GotoFacts DEF RebindListen, Points
<1>5. /\ loc' \in [Actors -> Locals] /\ loc'[Reconnector].f = f /\ loc'[Reconnector].l = l
      /\ \A b \in Actors : b # Reconnector => loc'[b] = loc[b]
  <2> DEFINE q == [f |-> f, l |-> l, c |-> client]
  <2>1. q \in Locals /\ q.f = f /\ q.l = l
    BY <1>1, <1>3 DEF Locals
  <2>2. loc \in [Actors -> Locals] /\ loc' = [loc EXCEPT ![Reconnector] = q]
    BY <1>0, <1>2 DEF TypeOK
  <2> HIDE DEF q
  <2> QED
    BY <2>1, <2>2, <1>1
<1>6. /\ ln' \in [Listeners -> ListenerRecords \cup {None}] /\ ln'[l] # None /\ ln'[l].f = f
      /\ ln'[l].on = client
      /\ \A m \in Listeners : m # l => ln'[m] = ln[m]
  BY <1>0, <1>1, <1>2, <1>3, ListeningFacts
<1>7. /\ UNCHANGED <<closed, client, net, forwards, fwd, missed>> /\ todo' = todo \ {f}
      /\ fwd[f].kind = "remote"
  BY DEF RebindListen, NeedsRebind
<1>11. TypeOK'
  BY <1>0, <1>1, <1>2, <1>3, <1>4, <1>5, <1>6, <1>7, ActorFacts DEF TypeOK, Points
<1>12. LocalsOK'
  BY <1>0, <1>1, <1>2, <1>3, <1>4, <1>5, <1>6, <1>7, ActorFacts DEF LocalsOK, Works
<1>13. DrainOK'
  BY <1>0, <1>1, <1>2, <1>3, <1>4, <1>5, <1>6, <1>7, ActorFacts DEF DrainOK
<1>14. ForwardOK'
  BY <1>0, <1>1, <1>2, <1>3, <1>4, <1>5, <1>6, <1>7, ActorFacts, StateTypes
     DEF ForwardOK, LocalsOK, Works
<1>15. RebindOK'
  <2>1. \A g \in Forwards : Live(g) => Live(g)'
    BY <1>1, <1>4, <1>5, <1>7, ActorFacts DEF Live
  <2>2. \A g \in todo' : fwd'[g].closed \/ Live(g)'
    BY <1>0, <1>7, <2>1 DEF RebindOK, TypeOK
  <2>3. fwd'[f].closed \/ Live(f)'
    BY <1>0, <1>1, <1>7, <2>1 DEF RebindOK
  <2>4. (pc[Reconnector] \in {"swap", "old"} =>
           fwd[loc[Reconnector].f].closed \/ Live(loc[Reconnector].f))'
    BY <1>5, <2>3 DEF Live
  <2> QED
    BY <2>2, <2>4 DEF RebindOK
<1>16. ListenersOK'
  BY <1>0, <1>1, <1>2, <1>3, <1>4, <1>5, <1>6, <1>7, ActorFacts, StateTypes
     DEF ListenersOK, ForwardOK, LocalsOK, Works
<1>17. Ownership'
  BY <1>0, <1>1, <1>2, <1>3, <1>4, <1>5, <1>6, <1>7, ActorFacts, StateTypes
     DEF Ownership, Owned, ForwardOK, LocalsOK, Works
<1>18. ReconnectOK'
  BY <1>0, <1>1, <1>2, <1>3, <1>4, <1>5, <1>6, <1>7, ActorFacts, StateTypes
     DEF ReconnectOK, LocalsOK, Works
<1>19. NewOpen'
  BY <1>0, <1>1, <1>2, <1>3, <1>4, <1>5, <1>6, <1>7, ActorFacts, StateTypes
     DEF NewOpen, Open, ForwardOK, ListenersOK, ReconnectOK, LocalsOK, Works
<1>20. RegisteredListen'
  BY <1>0, <1>1, <1>2, <1>3, <1>4, <1>5, <1>6, <1>7, ActorFacts, StateTypes
     DEF RegisteredListen, Rebound, Open, ForwardOK, ListenersOK, ReconnectOK, LocalsOK,
         Works
<1> QED
  BY <1>11, <1>12, <1>13, <1>14, <1>15, <1>16, <1>17, <1>18, <1>19, <1>20 DEF ForwardsInv

\* The first state has no forwards and no listeners.
LEMMA ForwardsInit == Init => ForwardsInv
<1> SUFFICES ASSUME Init
             PROVE  ForwardsInv
  OBVIOUS
<1>1. /\ \A a \in Actors : pc[a] = "idle" /\ loc[a] = NoLocals
      /\ \A id \in Ids : forwards[id] = None
      /\ \A f \in Forwards : fwd[f] = NoForward
      /\ \A l \in Listeners : ln[l] = None
      /\ todo = {} /\ closed = FALSE
  BY DEF Init
<1>2. NoLocals \in Locals /\ NoForward \in ForwardRecords
  BY DEF NoLocals, Locals, NoForward, ForwardRecords, AnyPort
<1>3. client \in Clients /\ net = {client}
  BY ForwardsAssumption DEF Init
<1>4. TypeOK
  <2>1. /\ forwards \in [Ids -> Forwards \cup {None}]
        /\ ln \in [Listeners -> ListenerRecords \cup {None}]
    BY DEF Init
  <2>2. fwd \in [Forwards -> ForwardRecords] /\ loc \in [Actors -> Locals]
    BY <1>2 DEF Init
  <2>3. pc \in [Actors -> Points] /\ closed \in BOOLEAN /\ todo \subseteq Forwards
    BY DEF Init, Points
  <2> QED
    BY <1>1, <1>3, <2>1, <2>2, <2>3, ActorFacts DEF TypeOK, Points
<1>5. LocalsOK /\ DrainOK /\ ListenersOK /\ Ownership
  BY <1>1, ActorFacts
     DEF LocalsOK, Works, DrainOK, ListenersOK, Ownership, NoLocals, NoForward
<1>6. ForwardOK /\ RebindOK
  BY <1>1, ActorFacts DEF ForwardOK, RebindOK
<1>7. ReconnectOK /\ NewOpen /\ RegisteredListen
  BY <1>1, ActorFacts DEF ReconnectOK, NewOpen, RegisteredListen
<1> QED
  BY <1>4, <1>5, <1>6, <1>7 DEF ForwardsInv

LEMMA ForwardsStep == ForwardsInv /\ [Next]_vars => ForwardsInv'
<1> SUFFICES ASSUME ForwardsInv, [Next]_vars
             PROVE  ForwardsInv'
  OBVIOUS
<1>1. ASSUME NEW h \in Handlers, Call(h)
      PROVE  ForwardsInv'
  BY <1>1, OpenBeginKeeps, CloseForwardKeeps DEF Call
<1>2. ASSUME NEW h \in Handlers, CallStep(h)
      PROVE  ForwardsInv'
  <2>1. CASE OpenListen(h) \/ OpenListenFails(h) \/ OpenRegister(h)
    BY <2>1, OpenListenKeeps, OpenListenFailsKeeps, OpenRegisterKeeps
  <2>2. CASE OpenRefused(h) \/ OpenStart(h)
    BY <2>2, OpenRefusedKeeps, OpenStartKeeps
  <2>3. CASE ForwardCas(h) \/ ForwardClose(h)
    BY <2>3, ForwardCasKeeps, ForwardCloseCallKeeps
  <2> QED
    BY <1>2, <2>1, <2>2, <2>3 DEF CallStep
<1>3. CASE SessionClose
  BY <1>3, SessionCloseKeeps
<1>4. CASE CloserStep
  BY <1>4, DrainOneKeeps, DrainEndsKeeps, SessionClearKeeps, ForwardCasKeeps,
     ForwardCloseDrainKeeps DEF CloserStep
<1>5. CASE ReconnectBegin
  BY <1>5, ReconnectBeginKeeps
<1>6. CASE ReconnectStep
  <2>1. ASSUME NEW ok \in BOOLEAN, ReconnectDial(ok)
        PROVE  ForwardsInv'
    BY <2>1, ReconnectDialKeeps
  <2>2. CASE RebindSnapshot \/ RebindEnds \/ RebindDrop \/ RebindSwap \/ RebindOld
    BY <2>2, RebindSnapshotKeeps, RebindEndsKeeps, RebindDropKeeps, RebindSwapKeeps,
       RebindOldKeeps
  <2>3. ASSUME NEW f \in Forwards, RebindSkip(f) \/ RebindListen(f) \/ RebindListenFails(f)
        PROVE  ForwardsInv'
    BY <2>3, RebindSkipKeeps, RebindListenKeeps, RebindListenFailsKeeps
  <2> QED
    BY <1>6, <2>1, <2>2, <2>3 DEF ReconnectStep
<1>7. ASSUME NEW k \in Conns, ConnStep(k) \/ \E l \in Listeners : Accept(k, l)
      PROVE  ForwardsInv'
  <2>1. UNCHANGED sessionVars
    BY <1>7 DEF ConnStep, ConnClient, SocksStep, ConnDial, CopyEnds, Accept
  <2> QED
    BY <2>1, ConnKeeps
<1>8. ASSUME NEW c \in Clients, Drop(c)
      PROVE  ForwardsInv'
  BY <1>8, DropKeeps
<1>9. CASE UNCHANGED vars
  BY <1>9, ConnKeeps DEF vars
<1> QED
  BY <1>1, <1>2, <1>3, <1>4, <1>5, <1>6, <1>7, <1>8, <1>9 DEF Next

\* Of every instance: whatever the order in which registerForward, CloseForward,
\* Session.close and rebindForwards meet, an open listener has somebody who can
\* still close it.
THEOREM NoListenerLeaksEver == Spec => []NoLeakedListener
<1>1. Spec => []ForwardsInv
  BY ForwardsInit, ForwardsStep, PTL DEF Spec
<1>2. ForwardsInv => NoLeakedListener
  <2> SUFFICES ASSUME ForwardsInv, NEW l \in Listeners, ln[l] # None
               PROVE  \/ \E a \in Actors : loc[a].l = l
                      \/ /\ fwd[ln[l].f].listener = l
                         /\ \/ ln[l].f \in Held(Actors)
                            \/ ln[l].f \in Registered /\ pc[Closer] \notin {"clear", "ended"}
    BY DEF NoLeakedListener
  <2>1. Owned(l) /\ TypeOK /\ DrainOK
    BY DEF ForwardsInv, Ownership
  <2>2. \A id \in Ids : forwards[id] = ln[l].f =>
          ln[l].f \in Registered /\ pc[Closer] \notin {"clear", "ended"}
    BY <2>1, ActorFacts, StateTypes DEF DrainOK, Registered
  <2> QED
    BY <2>1, <2>2, ActorFacts DEF Owned, Held
<1> QED
  BY <1>1, <1>2, PTL

\* Of every instance: outside a reconnect, while the transport is up, every
\* registered forward listens, but for a -R forward whose listen was lost.
THEOREM ForwardsListenAlways == Spec => []ForwardsListen
<1>1. Spec => []ForwardsInv
  BY ForwardsInit, ForwardsStep, PTL DEF Spec
<1>2. ForwardsInv => ForwardsListen
  <2> SUFFICES ASSUME ForwardsInv, At(Reconnector, "idle"), client \in net,
                      NEW f \in Registered \ missed
               PROVE  /\ fwd[f].listener # None /\ ln[fwd[f].listener] # None
                      /\ ln[fwd[f].listener].on \in {Host, client}
    BY DEF ForwardsListen
  <2>1. PICK id \in Ids : forwards[id] = f /\ f # None
    BY DEF Registered
  <2>2. Rebound(f)
    BY DEF ForwardsInv, ReconnectOK, Rebound, At
  <2>3. Open(fwd[f].listener, client) \/ Open(fwd[f].listener, Host)
    BY <2>1, <2>2 DEF ForwardsInv, RegisteredListen
  <2> QED
    BY <2>3, ActorFacts DEF Open
<1> QED
  BY <1>1, <1>2, PTL
=============================================================================
