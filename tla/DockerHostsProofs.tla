-------------------------- MODULE DockerHostsProofs --------------------------
(***************************************************************************)
(* Docker hosts and calls, for any number of hosts, ids, containers, calls *)
(* and entries of a tree.                                                  *)
(***************************************************************************)
EXTENDS DockerHosts, TLAPS

\* The operations a call is in; Connect and Disconnect keep the "look" of an
\* idle slot.
CallOps == ContainerOps \cup {"look", "image", "logs", "run", "exec", "upload", "download"}

\* The points an operation goes through.  The functions After is made of say
\* nothing of any other.
PointsOf(o) ==
  CASE o = "look"     -> {"idle", "dial", "ping", "register", "close", "client", "op"}
    [] o = "image"    -> {"client", "pull"}
    [] o = "logs"     -> {"client", "logs", "inspect", "drain"}
    [] o = "run"      -> {"client", "probe", "pull", "create", "start", "cleanup", "ok", "err"}
    [] o = "exec"     -> {"client", "exec create", "attach", "wait", "exec inspect", "ok", "err"}
    [] o = "upload"   -> {"client", "put", "ok", "err"}
    [] o = "download" -> {"client", "get", "extract", "ok", "err"}
    [] OTHER          -> {"client", "op"}

Points == Requests \cup {"idle", "dial", "ping", "register", "close", "client", "wait", "extract",
                         "ok", "err"}

Pipes == {"open", "eof", "short", "error", "closed"}

CallRecords ==
  [pc : Points, op : CallOps, id : Ids \cup {None}, h : Hosts \cup {None},
   x : Containers \cup {None}, served : BOOLEAN, ended : BOOLEAN, lost : BOOLEAN, n : Nat]

TypeOK ==
  /\ hosts \in [Ids -> Hosts \cup {None}]
  /\ mu \in {None, Closer} /\ down \in BOOLEAN
  /\ conn \subseteq Hosts /\ docker \subseteq Hosts /\ ssh \subseteq Hosts /\ cut \subseteq Hosts
  /\ call \in [Calls -> CallRecords]
  /\ pump \in [Calls -> [run : BOOLEAN, pipe : Pipes]]
  /\ proc \in [Calls -> {"none", "runs", "ended"}]
  /\ ctr \in [Containers -> {"absent", "created", "running", "exited"}]
  /\ faults \in Nat

\* Every call is at a point of its operation.
OnCourse ==
  \A c \in Calls :
    /\ call[c].pc \in PointsOf(call[c].op)
    /\ call[c].pc \in {"dial", "ping", "register"} => call[c].id \in Ids
    /\ call[c].pc = "client" => ~call[c].served

\* The calls that hold a connection of their own.
Holds(c) == call[c].pc \in {"ping", "register", "close"}

\* A connection has one owner: an id of the map, or a call.
OneOwner ==
  /\ \A i, j \in Ids : hosts[i] = hosts[j] /\ hosts[i] # None => i = j
  /\ \A c \in Calls : Holds(c) => call[c].h \in Hosts /\ \A i \in Ids : hosts[i] # call[c].h
  /\ \A c, d \in Calls : Holds(c) /\ Holds(d) /\ call[c].h = call[d].h => c = d

\* ConnsAccounted, host by host.
Accounted ==
  \A h \in Hosts :
    /\ h \in docker <=> \/ \E i \in Ids : hosts[i] = h
                        \/ \E c \in Calls : Holds(c) /\ call[c].h = h
    /\ h \in ssh <=> h \in docker /\ h \in SSHHosts

\* A run has a container from the create that was served on, and once the
\* clean-up was served, or refused, the container is gone: its name is not
\* given away while the call has it.  The last line is NoHusk.
RunFacts(c) ==
  call[c].op = "run" =>
    /\ call[c].pc \in {"client", "probe", "pull"} => call[c].x = None
    /\ call[c].pc = "create" => (call[c].served <=> call[c].x # None)
    /\ call[c].pc \in {"start", "cleanup"} => call[c].x # None
    /\ call[c].pc = "cleanup" /\ call[c].served => ctr[call[c].x] = "absent"
    /\ call[c].pc = "err" /\ call[c].x # None /\ ~call[c].lost => ctr[call[c].x] = "absent"

\* The pipe of an upload is open only during its request, the body of a
\* download only while it is extracted, and both end well only behind the last
\* entry.  The last line is CopiesWhole.
CopyFacts(c) ==
  /\ pump[c].pipe # "closed" => \/ call[c].op = "upload" /\ call[c].pc = "put"
                                \/ call[c].op = "download" /\ call[c].pc = "extract"
  /\ pump[c].pipe = "eof" => call[c].n = NEntries
  /\ call[c].op \in {"upload", "download"} /\ call[c].pc = "ok" => call[c].n = NEntries

\* The inductive invariant.
DockerInv ==
  /\ TypeOK /\ OnCourse
  /\ OneOwner /\ Accounted
  /\ \A c \in Calls : RunFacts(c) /\ CopyFacts(c)

-----------------------------------------------------------------------------
(* What the operators of the model return                                  *)

\* A call that has returned holds nothing; what is kept is its own outcome.
LEMMA ReturnedFacts ==
  ASSUME NEW r \in CallRecords, NEW res \in {"ok", "err"}
  PROVE  /\ Returned(r, res) \in CallRecords
         /\ Returned(r, res).pc \in PointsOf(Returned(r, res).op)
         /\ Returned(r, res).pc \in {"idle", "ok", "err"}
         /\ Returned(r, res).op \in {"run", "upload", "download"} =>
              Returned(r, res).op = r.op /\ Returned(r, res).pc = res
         /\ Returned(r, res).op = "run" =>
              Returned(r, res).x = r.x /\ Returned(r, res).lost = r.lost
         /\ Returned(r, res).op \in {"upload", "download"} => Returned(r, res).n = r.n
         /\ r.op = "download" => Returned(r, res).op = "download"
<1> DEFINE done == [Idle EXCEPT !.pc = res, !.op = r.op]
<1>0. Idle \in CallRecords /\ Idle.pc = "idle" /\ Idle.op = "look"
  BY DEF Idle, CallRecords, Points, CallOps
<1>00. done \in CallRecords /\ done.pc = res /\ done.op = r.op
  BY DEF Idle, CallRecords, Points, CallOps
<1>1. CASE r.op = "run"
  <2>1. Returned(r, res) = [done EXCEPT !.x = r.x, !.lost = r.lost]
    BY <1>1 DEF Returned
  <2>2. [done EXCEPT !.x = r.x, !.lost = r.lost] \in CallRecords
    BY <1>00 DEF CallRecords
  <2> QED
    BY <1>1, <2>1, <2>2 DEF PointsOf, Idle
<1>2. CASE r.op \in {"upload", "download"}
  <2>1. Returned(r, res) = [done EXCEPT !.n = r.n]
    BY <1>2 DEF Returned
  <2>2. [done EXCEPT !.n = r.n] \in CallRecords
    BY <1>00 DEF CallRecords
  <2> QED
    BY <1>2, <2>1, <2>2 DEF PointsOf, Idle
<1>3. CASE r.op = "exec"
  <2>1. Returned(r, res) = done
    BY <1>3 DEF Returned
  <2> QED
    BY <1>3, <1>00, <2>1 DEF PointsOf
<1>4. CASE r.op \notin {"run", "upload", "download", "exec"}
  <2>1. Returned(r, res) = Idle
    BY <1>4 DEF Returned
  <2> QED
    BY <1>0, <1>4, <2>1 DEF PointsOf
<1> QED
  BY <1>1, <1>2, <1>3, <1>4

\* After an answer a call is at another request of its operation, waits for
\* the output of its exec, extracts, or returns.
LEMMA AfterFacts ==
  ASSUME TypeOK, OnCourse, NEW c \in Calls, call[c].pc \in Requests, NEW ok \in BOOLEAN
  PROVE  /\ After(c, ok) \in PointsOf(call[c].op) \cup {"ok", "err"}
         /\ After(c, ok) \in Requests \cup {"wait", "extract", "ok", "err"}
         /\ call[c].op = "run" => After(c, ok) = RunNext(call[c].pc, ok)
         /\ call[c].op = "upload" => After(c, ok) = IF ok THEN "ok" ELSE "err"
         /\ call[c].op = "download" => After(c, ok) = IF ok THEN "extract" ELSE "err"
<1> DEFINE o == call[c].op
<1> DEFINE p == call[c].pc
<1>0. o \in CallOps /\ p \in PointsOf(o) /\ p \in Requests
  BY DEF TypeOK, CallRecords, OnCourse
<1>1. CASE o = "run"
  <2>1. p \in {"probe", "pull", "create", "start", "cleanup"}
    BY <1>0, <1>1 DEF PointsOf, Requests
  <2> QED
    BY <1>1, <2>1 DEF After, RunNext, PointsOf, Requests
<1>2. CASE o = "exec"
  <2>1. p \in {"exec create", "attach", "exec inspect"}
    BY <1>0, <1>2 DEF PointsOf, Requests
  <2> QED
    BY <1>2, <2>1 DEF After, ExecNext, PointsOf, Requests
<1>3. CASE o = "logs"
  <2>1. p \in {"logs", "inspect", "drain"}
    BY <1>0, <1>3 DEF PointsOf, Requests
  <2> QED
    BY <1>3, <2>1 DEF After, LogsNext, PointsOf, Requests
<1>4. CASE o = "download"
  BY <1>4 DEF After, DownloadNext, PointsOf
<1>5. CASE o \notin {"run", "exec", "logs", "download"}
  BY <1>5 DEF After, SimpleNext
<1> QED
  BY <1>1, <1>2, <1>3, <1>4, <1>5

\* What Proceed makes of the record of its call.
ProceedTo(c, ok, lost) ==
  LET p == After(c, ok)
      r == [call[c] EXCEPT !.pc = p, !.served = FALSE, !.lost = @ \/ lost]
  IN  IF p \in {"ok", "err"} THEN Returned(r, p) ELSE r

\* Whatever its outcome, a request leaves its call in a record of the same
\* operation, or idle.
LEMMA ProceedFacts ==
  ASSUME TypeOK, OnCourse, NEW c \in Calls, call[c].pc \in Requests,
         NEW ok \in BOOLEAN, NEW lost \in BOOLEAN, NEW q, q = ProceedTo(c, ok, lost)
  PROVE  /\ q \in CallRecords /\ q.pc \in PointsOf(q.op)
         /\ q.pc \notin {"dial", "ping", "register", "close", "client"}
         /\ q.op \in {"run", "upload", "download"} => q.op = call[c].op
         /\ q.op = "run" => /\ q.pc = RunNext(call[c].pc, ok)
                            /\ q.x = call[c].x /\ q.lost = (call[c].lost \/ lost)
                            /\ q.pc \notin {"ok", "err"} => ~q.served
         /\ q.op = "upload" => q.n = call[c].n /\ q.pc = IF ok THEN "ok" ELSE "err"
         /\ q.op = "download" => q.pc = IF ok THEN "extract" ELSE "err"
         /\ call[c].op = "download" => q.op = "download"
<1> DEFINE p == After(c, ok)
<1> DEFINE r == [call[c] EXCEPT !.pc = p, !.served = FALSE, !.lost = @ \/ lost]
<1>1. /\ p \in PointsOf(call[c].op) \cup {"ok", "err"}
      /\ p \in Requests \cup {"wait", "extract", "ok", "err"}
      /\ call[c].op = "run" => p = RunNext(call[c].pc, ok)
      /\ call[c].op = "upload" => p = IF ok THEN "ok" ELSE "err"
      /\ call[c].op = "download" => p = IF ok THEN "extract" ELSE "err"
  BY AfterFacts
<1>2. call[c] \in CallRecords
  BY DEF TypeOK
<1>3. p \in Points
  BY <1>1 DEF Points
<1> HIDE DEF p
<1>4. r \in CallRecords
  BY <1>2, <1>3 DEF CallRecords
<1>5. /\ r.pc = p /\ r.op = call[c].op /\ r.x = call[c].x /\ r.n = call[c].n
      /\ r.lost = (call[c].lost \/ lost) /\ ~r.served
  BY <1>2 DEF CallRecords
<1>6. q = IF p \in {"ok", "err"} THEN Returned(r, p) ELSE r
  BY DEF ProceedTo, p
<1> HIDE DEF r
<1>7. CASE p \in {"ok", "err"}
  <2>1. q = Returned(r, p)
    BY <1>6, <1>7
  <2> QED
    BY <1>1, <1>4, <1>5, <1>7, <2>1, ReturnedFacts
<1>8. CASE p \notin {"ok", "err"}
  <2>1. q = r
    BY <1>6, <1>8
  <2> QED
    BY <1>1, <1>4, <1>5, <1>8, <2>1 DEF Requests
<1> QED
  BY <1>7, <1>8

\* A handler's first step, whichever of them it is.
BeginsOn(c) ==
  \E o \in CallOps, x \in Containers \cup {None} :
    Begin(c, o, x) /\ (o = "run" => x = None)

\* The step of a call that has the outcome of its request.
Proceeds(c, ok, lost) ==
  /\ call[c].pc \in Requests
  /\ call' = [call EXCEPT ![c] = ProceedTo(c, ok, lost)]
  /\ pump' = [pump EXCEPT ![c].pipe = CASE call[c].pc = "put" -> "closed"
                                        [] call[c].pc = "get" /\ ok -> "open"
                                        [] OTHER -> @]
  /\ UNCHANGED <<hostVars, cut, proc, ctr, faults>>
  /\ ok => /\ Acts(c) => call[c].served
           /\ call[c].pc = "put" => pump[c].pipe = "eof"
  /\ ~ok /\ ~lost /\ call[c].pc # "put" => ~call[c].served
  /\ ~ok /\ ~lost /\ call[c].pc = "cleanup" => ctr[call[c].x] = "absent"

\* Answer, Refuse, RequestLost and BodyFails are outcomes of a request.
LEMMA ProceedStep ==
  ASSUME NEW c \in Calls, Answer(c) \/ Refuse(c) \/ RequestLost(c) \/ BodyFails(c)
  PROVE  \E ok, lost \in BOOLEAN : Proceeds(c, ok, lost)
<1>1. CASE Answer(c)
  <2>1. Proceeds(c, TRUE, FALSE)
    BY <1>1 DEF Answer, Proceed, Proceeds, ProceedTo
  <2> QED
    BY <2>1
<1>2. CASE Refuse(c)
  <2>1. Proceeds(c, FALSE, FALSE)
    BY <1>2 DEF Refuse, Proceed, Proceeds, ProceedTo
  <2> QED
    BY <2>1
<1>3. CASE RequestLost(c)
  <2>1. Proceeds(c, FALSE, TRUE)
    BY <1>3 DEF RequestLost, Proceed, Proceeds, ProceedTo
  <2> QED
    BY <2>1
<1>4. CASE BodyFails(c)
  <2>1. Proceeds(c, FALSE, FALSE)
    BY <1>4 DEF BodyFails, Proceed, Proceeds, ProceedTo, Requests
  <2> QED
    BY <2>1
<1> QED
  BY <1>1, <1>2, <1>3, <1>4

\* Every handler begins with Connect, with Disconnect, or with Get.
LEMMA BeginStep ==
  ASSUME NEW c \in Calls, Begins(c)
  PROVE  ConnectBegin(c) \/ DisconnectBegin(c) \/ BeginsOn(c)
<1>1. ASSUME NEW o \in CallOps \ {"run"}, NEW x \in Containers \cup {None}, Begin(c, o, x)
      PROVE  BeginsOn(c)
  BY <1>1 DEF BeginsOn
<1>2. ASSUME Begin(c, "run", None)
      PROVE  BeginsOn(c)
  BY <1>2 DEF BeginsOn, CallOps
<1>3. ContainerOps \subseteq CallOps \ {"run"}
  BY DEF ContainerOps, CallOps
<1>4. ASSUME LookBegin(c) \/ ImageBegin(c) \/ LogsBegin(c) \/ ExecBegin(c) \/ UploadBegin(c)
             \/ DownloadBegin(c)
      PROVE  BeginsOn(c)
  BY <1>1, <1>4 DEF LookBegin, ImageBegin, LogsBegin, ExecBegin, UploadBegin, DownloadBegin, CallOps
<1>5. ASSUME ContainerBegin(c)
      PROVE  BeginsOn(c)
  BY <1>1, <1>3, <1>5 DEF ContainerBegin
<1>6. ASSUME RunBegin(c)
      PROVE  BeginsOn(c)
  BY <1>2, <1>6 DEF RunBegin
<1> QED
  BY <1>4, <1>5, <1>6 DEF Begins

-----------------------------------------------------------------------------
(* The steps of a call, field by field                                      *)

\* A step that leaves the records of the other calls alone.
StepOf(c) ==
  /\ call' \in [Calls -> CallRecords]
  /\ \A d \in Calls \ {c} : call'[d] = call[d]

\* What c has become.
At(c, pc, op, id, h) ==
  call'[c].pc = pc /\ call'[c].op = op /\ call'[c].id = id /\ call'[c].h = h
With(c, x, served, lost, n) ==
  call'[c].x = x /\ call'[c].served = served /\ call'[c].lost = lost /\ call'[c].n = n

SameTask(c, pc) == At(c, pc, call[c].op, call[c].id, call[c].h)
SameData(c) == With(c, call[c].x, call[c].served, call[c].lost, call[c].n)

\* An update of one record, seen from every call.
LEMMA StepFacts ==
  ASSUME TypeOK, NEW c \in Calls, NEW q \in CallRecords, call' = [call EXCEPT ![c] = q]
  PROVE  StepOf(c) /\ call'[c] = q
  BY DEF TypeOK, StepOf

\* A step to the next point changes nothing else of the call.
LEMMA GotoFacts ==
  ASSUME TypeOK, NEW c \in Calls, NEW p \in Points, Goto(c, p)
  PROVE  StepOf(c) /\ SameTask(c, p) /\ SameData(c)
<1> DEFINE q == [call[c] EXCEPT !.pc = p]
<1>1. call[c] \in CallRecords
  BY DEF TypeOK
<1>2. q \in CallRecords
  BY <1>1 DEF CallRecords
<1>3. call' = [call EXCEPT ![c] = q]
  BY DEF Goto, TypeOK
<1>4. StepOf(c) /\ call'[c] = q
  BY <1>2, <1>3, StepFacts
<1> QED
  BY <1>1, <1>4 DEF SameTask, SameData, At, With, CallRecords

\* A call that returns is idle, or keeps its outcome.
LEMMA ReturnFacts ==
  ASSUME TypeOK, NEW c \in Calls, NEW res \in {"ok", "err"}, Return(c, res)
  PROVE  /\ StepOf(c)
         /\ call'[c].pc \in PointsOf(call'[c].op)
         /\ call'[c].pc \in {"idle", "ok", "err"}
         /\ call'[c].op \in {"run", "upload", "download"} =>
              call'[c].op = call[c].op /\ call'[c].pc = res
         /\ call'[c].op = "run" => call'[c].x = call[c].x /\ call'[c].lost = call[c].lost
         /\ call'[c].op \in {"upload", "download"} => call'[c].n = call[c].n
<1>1. call[c] \in CallRecords
  BY DEF TypeOK
<1>2. call' = [call EXCEPT ![c] = Returned(call[c], res)]
  BY DEF Return, TypeOK
<1>3. Returned(call[c], res) \in CallRecords
  BY <1>1, ReturnedFacts
<1>4. StepOf(c) /\ call'[c] = Returned(call[c], res)
  BY <1>2, <1>3, StepFacts
<1> QED
  BY <1>1, <1>4, ReturnedFacts

\* Connect has an id and no host yet.
LEMMA ConnectBeginFacts ==
  ASSUME TypeOK, NEW c \in Calls, ConnectBegin(c)
  PROVE  StepOf(c) /\ SameData(c) /\ \E i \in Ids : At(c, "dial", call[c].op, i, call[c].h)
<1>1. PICK i \in Ids : call' = [call EXCEPT ![c].pc = "dial", ![c].id = i]
  BY DEF ConnectBegin
<1> DEFINE q == [call[c] EXCEPT !.pc = "dial", !.id = i]
<1>2. call[c] \in CallRecords
  BY DEF TypeOK
<1>3. q \in CallRecords
  BY <1>2 DEF CallRecords, Points
<1>4. call' = [call EXCEPT ![c] = q]
  BY <1>1 DEF TypeOK
<1>5. StepOf(c) /\ call'[c] = q
  BY <1>3, <1>4, StepFacts
<1> QED
  BY <1>2, <1>5 DEF SameData, At, With, CallRecords

\* Disconnect has the host it took out of the map.
LEMMA DisconnectBeginFacts ==
  ASSUME TypeOK, NEW c \in Calls, DisconnectBegin(c)
  PROVE  /\ StepOf(c) /\ SameData(c)
         /\ \E i \in Ids : /\ hosts[i] # None /\ hosts' = [hosts EXCEPT ![i] = None]
                           /\ At(c, "close", call[c].op, call[c].id, hosts[i])
<1>1. PICK i \in Ids : /\ hosts[i] # None /\ hosts' = [hosts EXCEPT ![i] = None]
                       /\ call' = [call EXCEPT ![c].pc = "close", ![c].h = hosts[i]]
  BY DEF DisconnectBegin
<1> DEFINE q == [call[c] EXCEPT !.pc = "close", !.h = hosts[i]]
<1>2. call[c] \in CallRecords /\ hosts[i] \in Hosts \cup {None}
  BY DEF TypeOK
<1>3. q \in CallRecords
  BY <1>2 DEF CallRecords, Points
<1>4. call' = [call EXCEPT ![c] = q]
  BY <1>1 DEF TypeOK
<1>5. StepOf(c) /\ call'[c] = q
  BY <1>3, <1>4, StepFacts
<1>6. SameData(c) /\ At(c, "close", call[c].op, call[c].id, hosts[i])
  BY <1>2, <1>5 DEF SameData, At, With, CallRecords
<1> QED
  BY <1>1, <1>5, <1>6

\* Dial gives Connect a host nobody refers to.
LEMMA DialFacts ==
  ASSUME TypeOK, NEW c \in Calls, Dial(c)
  PROVE  /\ StepOf(c) /\ SameData(c)
         /\ \E h \in Hosts : /\ FreshHost(h)
                             /\ ssh' = ssh \cup ({h} \cap SSHHosts) /\ docker' = docker \cup {h}
                             /\ cut' = cut \ {h}
                             /\ At(c, "ping", call[c].op, call[c].id, h)
<1>1. PICK h \in Hosts : /\ FreshHost(h)
                         /\ ssh' = ssh \cup ({h} \cap SSHHosts) /\ docker' = docker \cup {h}
                         /\ cut' = cut \ {h}
                         /\ call' = [call EXCEPT ![c].pc = "ping", ![c].h = h]
  BY DEF Dial
<1> DEFINE q == [call[c] EXCEPT !.pc = "ping", !.h = h]
<1>2. call[c] \in CallRecords
  BY DEF TypeOK
<1>3. q \in CallRecords
  BY <1>2 DEF CallRecords, Points
<1>4. call' = [call EXCEPT ![c] = q]
  BY <1>1 DEF TypeOK
<1>5. StepOf(c) /\ call'[c] = q
  BY <1>3, <1>4, StepFacts
<1>6. SameData(c) /\ At(c, "ping", call[c].op, call[c].id, h)
  BY <1>2, <1>5 DEF SameData, At, With, CallRecords
<1> QED
  BY <1>1, <1>5, <1>6

\* A handler that found its host starts with clean locals.
LEMMA BeginsOnFacts ==
  ASSUME TypeOK, NEW c \in Calls, BeginsOn(c)
  PROVE  /\ StepOf(c) /\ call[c].pc = "idle"
         /\ \E o \in CallOps, i \in Ids, x \in Containers \cup {None} :
              /\ o = "run" => x = None
              /\ At(c, "client", o, None, hosts[i]) /\ With(c, x, FALSE, FALSE, 0)
<1>1. PICK o \in CallOps, x \in Containers \cup {None} : Begin(c, o, x) /\ (o = "run" => x = None)
  BY DEF BeginsOn
<1>2. PICK i \in Ids :
        call' = [call EXCEPT ![c] = [Idle EXCEPT !.pc = "client", !.op = o, !.h = hosts[i], !.x = x]]
  BY <1>1 DEF Begin
<1> DEFINE q == [Idle EXCEPT !.pc = "client", !.op = o, !.h = hosts[i], !.x = x]
<1>3. hosts[i] \in Hosts \cup {None}
  BY DEF TypeOK
<1>4. q \in CallRecords
  BY <1>3 DEF CallRecords, Points, Idle
<1>5. StepOf(c) /\ call'[c] = q
  BY <1>2, <1>4, StepFacts
<1>6. At(c, "client", o, None, hosts[i]) /\ With(c, x, FALSE, FALSE, 0)
  BY <1>5 DEF At, With, Idle
<1> QED
  BY <1>1, <1>5, <1>6 DEF Begin

\* The slot of a call that has left is idle.
LEMMA LeaveFacts ==
  ASSUME TypeOK, NEW c \in Calls, Leave(c)
  PROVE  StepOf(c) /\ At(c, "idle", "look", None, None) /\ With(c, None, FALSE, FALSE, 0)
<1>1. Idle \in CallRecords
  BY DEF Idle, CallRecords, Points, CallOps
<1>2. StepOf(c) /\ call'[c] = Idle
  BY <1>1, StepFacts DEF Leave
<1> QED
  BY <1>2 DEF Idle, At, With

\* One more entry of a tree.
LEMMA EntryFacts ==
  ASSUME TypeOK, NEW c \in Calls, call' = [call EXCEPT ![c].n = @ + 1]
  PROVE  /\ StepOf(c) /\ SameTask(c, call[c].pc)
         /\ With(c, call[c].x, call[c].served, call[c].lost, call[c].n + 1)
<1> DEFINE q == [call[c] EXCEPT !.n = @ + 1]
<1>1. call[c] \in CallRecords
  BY DEF TypeOK
<1>2. q \in CallRecords
  BY <1>1 DEF CallRecords
<1>3. call' = [call EXCEPT ![c] = q]
  BY DEF TypeOK
<1>4. StepOf(c) /\ call'[c] = q
  BY <1>2, <1>3, StepFacts
<1> QED
  BY <1>1, <1>4 DEF SameTask, At, With, CallRecords

\* The end of its context changes nothing else of a call.
LEMMA CtxEndsFacts ==
  ASSUME TypeOK, NEW c \in Calls, CtxEnds(c)
  PROVE  StepOf(c) /\ SameTask(c, call[c].pc) /\ SameData(c)
<1> DEFINE q == [call[c] EXCEPT !.ended = TRUE]
<1>1. call[c] \in CallRecords
  BY DEF TypeOK
<1>2. q \in CallRecords
  BY <1>1 DEF CallRecords
<1>3. call' = [call EXCEPT ![c] = q]
  BY DEF TypeOK, CtxEnds
<1>4. StepOf(c) /\ call'[c] = q
  BY <1>2, <1>3, StepFacts
<1> QED
  BY <1>1, <1>4 DEF SameTask, SameData, At, With, CallRecords

\* The engine acts: a create takes a container no call has, anything else acts
\* on the one the call names.
LEMMA ServeFacts ==
  ASSUME TypeOK, NEW c \in Calls, Serve(c)
  PROVE  /\ StepOf(c) /\ SameTask(c, call[c].pc)
         /\ \/ /\ Verb(c) = "create"
               /\ \E x \in Containers : /\ Unclaimed(x) /\ ctr' = [ctr EXCEPT ![x] = "created"]
                                        /\ With(c, x, TRUE, call[c].lost, call[c].n)
            \/ /\ Verb(c) # "create" /\ EngineDoes(c)
               /\ With(c, call[c].x, TRUE, call[c].lost, call[c].n)
<1>1. call[c] \in CallRecords
  BY DEF TypeOK
<1>2. CASE Verb(c) = "create"
  <2>1. PICK x \in Containers :
          /\ Unclaimed(x) /\ ctr' = [ctr EXCEPT ![x] = "created"]
          /\ call' = [call EXCEPT ![c].served = TRUE, ![c].x = x]
    BY <1>2 DEF Serve
  <2> DEFINE q == [call[c] EXCEPT !.served = TRUE, !.x = x]
  <2>2. q \in CallRecords
    BY <1>1 DEF CallRecords
  <2>3. call' = [call EXCEPT ![c] = q]
    BY <2>1 DEF TypeOK
  <2>4. StepOf(c) /\ call'[c] = q
    BY <2>2, <2>3, StepFacts
  <2>5. SameTask(c, call[c].pc) /\ With(c, x, TRUE, call[c].lost, call[c].n)
    BY <1>1, <2>4 DEF SameTask, At, With, CallRecords
  <2> QED
    BY <1>2, <2>1, <2>4, <2>5
<1>3. CASE Verb(c) # "create"
  <2> DEFINE q == [call[c] EXCEPT !.served = TRUE]
  <2>1. EngineDoes(c) /\ call' = [call EXCEPT ![c].served = TRUE]
    BY <1>3 DEF Serve
  <2>2. q \in CallRecords
    BY <1>1 DEF CallRecords
  <2>3. call' = [call EXCEPT ![c] = q]
    BY <2>1 DEF TypeOK
  <2>4. StepOf(c) /\ call'[c] = q
    BY <2>2, <2>3, StepFacts
  <2> QED
    BY <1>1, <1>3, <2>1, <2>4 DEF SameTask, At, With, CallRecords
<1> QED
  BY <1>2, <1>3

\* A call that has the outcome of its request.
LEMMA ProceedsFacts ==
  ASSUME TypeOK, OnCourse, NEW c \in Calls, NEW ok \in BOOLEAN, NEW lost \in BOOLEAN,
         Proceeds(c, ok, lost)
  PROVE  /\ StepOf(c)
         /\ call'[c].pc \in PointsOf(call'[c].op)
         /\ call'[c].pc \notin {"dial", "ping", "register", "close", "client"}
         /\ call'[c].op \in {"run", "upload", "download"} => call'[c].op = call[c].op
         /\ call'[c].op = "run" =>
              /\ call'[c].pc = RunNext(call[c].pc, ok)
              /\ call'[c].x = call[c].x /\ call'[c].lost = (call[c].lost \/ lost)
              /\ call'[c].pc \notin {"ok", "err"} => ~call'[c].served
         /\ call'[c].op = "upload" =>
              call'[c].n = call[c].n /\ call'[c].pc = IF ok THEN "ok" ELSE "err"
         /\ call'[c].op = "download" => call'[c].pc = IF ok THEN "extract" ELSE "err"
         /\ call[c].op = "download" => call'[c].op = "download"
<1> DEFINE q == ProceedTo(c, ok, lost)
<1>1. call[c].pc \in Requests /\ call' = [call EXCEPT ![c] = q]
  BY DEF Proceeds
<1> HIDE DEF q
<1>2. q = ProceedTo(c, ok, lost)
  BY DEF q
<1>3. q \in CallRecords
  BY <1>1, <1>2, ProceedFacts
<1>4. StepOf(c) /\ call'[c] = q
  BY <1>1, <1>3, StepFacts
<1> QED
  BY <1>1, <1>2, <1>4, ProceedFacts

-----------------------------------------------------------------------------
(* Every step keeps every part of the invariant                             *)

\* The types.
LEMMA TypeNext == DockerInv /\ [Next]_vars => TypeOK'
<1> SUFFICES ASSUME DockerInv, [Next]_vars
             PROVE  TypeOK'
  OBVIOUS
<1> USE DockerAssumption DEF DockerInv, hostVars
<1>0. /\ TypeOK /\ OnCourse
      /\ \A c \in Calls : call[c].pc \in {"ping", "register", "close"} => call[c].h \in Hosts
  BY DEF OneOwner, Holds
<1>1. ASSUME NEW c \in Calls, ConnectBegin(c)
      PROVE  TypeOK'
  BY <1>0, <1>1, ConnectBeginFacts DEF ConnectBegin, StepOf, TypeOK
<1>2. ASSUME NEW c \in Calls, DisconnectBegin(c)
      PROVE  TypeOK'
  BY <1>0, <1>2, DisconnectBeginFacts DEF DisconnectBegin, StepOf, TypeOK
<1>3. ASSUME NEW c \in Calls, BeginsOn(c)
      PROVE  TypeOK'
  <2>1. call' \in [Calls -> CallRecords]
    BY <1>0, <1>3, BeginsOnFacts DEF StepOf
  <2> QED
    BY <1>0, <1>3, <2>1 DEF BeginsOn, Begin, TypeOK
<1>4. ASSUME NEW c \in Calls, Dial(c)
      PROVE  TypeOK'
  BY <1>0, <1>4, DialFacts DEF Dial, StepOf, TypeOK
<1>5. ASSUME NEW c \in Calls, DialFails(c) \/ ClientFails(c) \/ ExecTimeout(c)
      PROVE  TypeOK'
  BY <1>0, <1>5, ReturnFacts DEF DialFails, ClientFails, ExecTimeout, StepOf, TypeOK
<1>6. ASSUME NEW c \in Calls, Ping(c) \/ ExecOutput(c)
      PROVE  TypeOK'
  BY <1>0, <1>6, GotoFacts DEF Ping, ExecOutput, StepOf, TypeOK, Points, Requests
<1>7. ASSUME NEW c \in Calls, PingFails(c)
      PROVE  TypeOK'
  BY <1>0, <1>7, ReturnFacts DEF PingFails, CloseConn, StepOf, TypeOK
<1>8. ASSUME NEW c \in Calls, Register(c)
      PROVE  TypeOK'
  BY <1>0, <1>8, ReturnFacts DEF Register, DropDuplicate, CloseConn, StepOf, TypeOK
<1>9. ASSUME NEW c \in Calls, DisconnectEnd(c)
      PROVE  TypeOK'
  BY <1>0, <1>9, ReturnFacts DEF DisconnectEnd, HostClose, CloseConn, StepOf, TypeOK
<1>10. ASSUME NEW c \in Calls, Client(c)
      PROVE  TypeOK'
  <2>1. PICK p \in FirstRequest(call[c].op) : Goto(c, p)
    BY <1>10 DEF Client
  <2>2. call[c].op \in CallOps
    BY <1>0 DEF TypeOK, CallRecords
  <2>3. p \in Points
    BY <2>1, <2>2 DEF FirstRequest, Points, Requests, CallOps, ContainerOps
  <2> QED
    BY <1>0, <1>10, <2>1, <2>3, GotoFacts DEF Client, StepOf, TypeOK, Pipes
<1>11. ASSUME NEW c \in Calls, NEW ok \in BOOLEAN, NEW lost \in BOOLEAN, Proceeds(c, ok, lost)
      PROVE  TypeOK'
  <2>1. pump' \in [Calls -> [run : BOOLEAN, pipe : Pipes]]
    BY <1>0, <1>11 DEF Proceeds, TypeOK, Pipes
  <2>2. call' \in [Calls -> CallRecords]
    BY <1>0, <1>11, ProceedsFacts DEF StepOf
  <2> QED
    BY <1>0, <1>11, <2>1, <2>2 DEF Proceeds, TypeOK
<1>12. ASSUME NEW c \in Calls, Leave(c)
      PROVE  TypeOK'
  BY <1>0, <1>12, LeaveFacts DEF Leave, NoPump, StepOf, TypeOK, Pipes
<1>13. ASSUME NEW c \in Calls, ExtractEnds(c) \/ ExtractFails(c)
      PROVE  TypeOK'
  <2>1. pump' \in [Calls -> [run : BOOLEAN, pipe : Pipes]]
    BY <1>0, <1>13 DEF ExtractEnds, ExtractFails, TypeOK, Pipes
  <2>2. call' \in [Calls -> CallRecords]
    BY <1>0, <1>13, ReturnFacts DEF ExtractEnds, ExtractFails, StepOf
  <2> QED
    BY <1>0, <1>13, <2>1, <2>2 DEF ExtractEnds, ExtractFails, TypeOK
<1>14. ASSUME NEW c \in Calls, PumpEntry(c) \/ ExtractEntry(c)
      PROVE  TypeOK'
  BY <1>0, <1>14, EntryFacts DEF PumpEntry, ExtractEntry, StepOf, TypeOK
<1>15. ASSUME NEW c \in Calls,
              PumpEnds(c) \/ PumpShort(c) \/ PumpFails(c) \/ PumpStops(c) \/ BodyEnds(c)
      PROVE  TypeOK'
  <2>1. pump' \in [Calls -> [run : BOOLEAN, pipe : Pipes]]
    <3>1. CASE PumpEnds(c)
      BY <1>0, <3>1 DEF PumpEnds, TypeOK, Pipes
    <3>2. CASE PumpFails(c)
      BY <1>0, <3>2 DEF PumpFails, WalkError, TypeOK, Pipes
    <3>3. CASE PumpStops(c)
      BY <1>0, <3>3 DEF PumpStops, TypeOK
    <3>4. CASE PumpShort(c)
      BY <1>0, <3>4 DEF PumpShort, TypeOK, Pipes
    <3>5. CASE BodyEnds(c)
      BY <1>0, <3>5 DEF BodyEnds, TypeOK, Pipes
    <3> QED
      BY <1>15, <3>1, <3>2, <3>3, <3>4, <3>5
  <2> QED
    BY <1>0, <1>15, <2>1 DEF PumpEnds, PumpShort, PumpFails, PumpStops, BodyEnds, TypeOK
<1>16. ASSUME NEW c \in Calls, Serve(c)
      PROVE  TypeOK'
  <2>1. ctr' \in [Containers -> {"absent", "created", "running", "exited"}]
    <3>1. CASE Verb(c) = "create"
      BY <1>0, <1>16, <3>1 DEF Serve, TypeOK
    <3>2. CASE Verb(c) # "create"
      <4>1. EngineDoes(c) /\ Verb(c) \in ContainerOps \cup {"attach"}
        BY <1>16, <3>2 DEF Serve, Acts
      <4>2. \/ ctr' = ctr
            \/ \E s \in {"absent", "running", "exited"} : ctr' = [ctr EXCEPT ![call[c].x] = s]
        BY <4>1 DEF EngineDoes, ContainerOps
      <4> QED
        BY <1>0, <4>2 DEF TypeOK
    <3> QED
      BY <3>1, <3>2
  <2> QED
    BY <1>0, <1>16, <2>1, ServeFacts DEF Serve, StepOf, TypeOK
<1>17. ASSUME NEW c \in Calls, CtxEnds(c)
      PROVE  TypeOK'
  BY <1>0, <1>17, CtxEndsFacts DEF CtxEnds, StepOf, TypeOK
<1>18. ASSUME NEW c \in Calls, ProcEnds(c)
      PROVE  TypeOK'
  BY <1>0, <1>18 DEF ProcEnds, TypeOK
<1>19. CASE CloseAll
  BY <1>0, <1>19 DEF CloseAll, CloseAllBegin, CloseAllOne, CloseAllEnds, HostClose, CloseConn, TypeOK
<1>20. ASSUME NEW x \in Containers, Exits(x)
      PROVE  TypeOK'
  BY <1>0, <1>20 DEF Exits, TypeOK
<1>21. ASSUME NEW h \in Hosts, Cut(h)
      PROVE  TypeOK'
  BY <1>0, <1>21 DEF Cut, TypeOK
<1>22. CASE UNCHANGED vars
  BY <1>0, <1>22 DEF vars, TypeOK
<1> QED
  BY <1>1, <1>2, <1>3, <1>4, <1>5, <1>6, <1>7, <1>8, <1>9, <1>10, <1>11, <1>12, <1>13, <1>14,
     <1>15, <1>16, <1>17, <1>18, <1>19, <1>20, <1>21, <1>22, BeginStep, ProceedStep
     DEF Next, Runs, Pumps, Engine, Surroundings

\* The points of Connect and Disconnect belong to no other operation.
LEMMA LookPoints ==
  ASSUME TypeOK, OnCourse, NEW c \in Calls,
         call[c].pc \in {"idle", "dial", "ping", "register", "close"}
  PROVE  call[c].op = "look"
<1>1. call[c].op \in CallOps /\ call[c].pc \in PointsOf(call[c].op)
  BY DEF TypeOK, CallRecords, OnCourse
<1> QED
  BY <1>1 DEF PointsOf, CallOps

\* A step of one call on its course leaves the others on theirs.
LEMMA CourseStep ==
  ASSUME OnCourse, NEW c \in Calls, StepOf(c),
         call'[c].pc \in PointsOf(call'[c].op),
         call'[c].pc \in {"dial", "ping", "register"} => call'[c].id \in Ids,
         call'[c].pc = "client" => ~call'[c].served
  PROVE  OnCourse'
  BY DEF OnCourse, StepOf

\* No answer, return or first step takes a call off the course of its
\* operation.
LEMMA CourseNext == DockerInv /\ [Next]_vars => OnCourse'
<1> SUFFICES ASSUME DockerInv, [Next]_vars
             PROVE  OnCourse'
  OBVIOUS
<1>0. TypeOK /\ OnCourse
  BY DEF DockerInv
<1>1. ASSUME NEW c \in Calls, ConnectBegin(c)
      PROVE  OnCourse'
  <2>1. call[c].pc = "idle"
    BY <1>1 DEF ConnectBegin
  <2>2. call[c].op = "look"
    BY <1>0, <2>1, LookPoints
  <2>3. StepOf(c) /\ call'[c].pc = "dial" /\ call'[c].op = "look" /\ call'[c].id \in Ids
    BY <1>0, <1>1, <2>2, ConnectBeginFacts DEF At
  <2> QED
    BY <1>0, <2>3, CourseStep DEF PointsOf
<1>2. ASSUME NEW c \in Calls, DisconnectBegin(c)
      PROVE  OnCourse'
  <2>1. call[c].pc = "idle"
    BY <1>2 DEF DisconnectBegin
  <2>2. call[c].op = "look"
    BY <1>0, <2>1, LookPoints
  <2>3. StepOf(c) /\ call'[c].pc = "close" /\ call'[c].op = "look"
    BY <1>0, <1>2, <2>2, DisconnectBeginFacts DEF At
  <2> QED
    BY <1>0, <2>3, CourseStep DEF PointsOf
<1>3. ASSUME NEW c \in Calls, BeginsOn(c)
      PROVE  OnCourse'
  <2>1. /\ StepOf(c) /\ call'[c].pc = "client" /\ call'[c].op \in CallOps /\ ~call'[c].served
    BY <1>0, <1>3, BeginsOnFacts DEF At, With
  <2>2. call'[c].pc \in PointsOf(call'[c].op)
    BY <2>1 DEF PointsOf
  <2> QED
    BY <1>0, <2>1, <2>2, CourseStep
<1>4. ASSUME NEW c \in Calls, Dial(c)
      PROVE  OnCourse'
  <2>1. call[c].pc = "dial"
    BY <1>4 DEF Dial
  <2>2. call[c].op = "look" /\ call[c].id \in Ids
    BY <1>0, <2>1, LookPoints DEF OnCourse
  <2>3. StepOf(c) /\ call'[c].pc = "ping" /\ call'[c].op = "look" /\ call'[c].id \in Ids
    BY <1>0, <1>4, <2>2, DialFacts DEF At
  <2> QED
    BY <1>0, <2>3, CourseStep DEF PointsOf
<1>5. ASSUME NEW c \in Calls, Ping(c)
      PROVE  OnCourse'
  <2>1. call[c].pc = "ping"
    BY <1>5 DEF Ping
  <2>2. call[c].op = "look" /\ call[c].id \in Ids
    BY <1>0, <2>1, LookPoints DEF OnCourse
  <2>3. StepOf(c) /\ call'[c].pc = "register" /\ call'[c].op = "look" /\ call'[c].id \in Ids
    BY <1>0, <1>5, <2>2, GotoFacts DEF Ping, SameTask, At, Points
  <2> QED
    BY <1>0, <2>3, CourseStep DEF PointsOf
<1>6. ASSUME NEW c \in Calls, ExecOutput(c)
      PROVE  OnCourse'
  <2>1. call[c].pc = "wait"
    BY <1>6 DEF ExecOutput
  <2>2. call[c].op = "exec"
    BY <1>0, <2>1 DEF TypeOK, CallRecords, CallOps, ContainerOps, OnCourse, PointsOf
  <2>3. StepOf(c) /\ call'[c].pc = "exec inspect" /\ call'[c].op = "exec"
    BY <1>0, <1>6, <2>2, GotoFacts DEF ExecOutput, SameTask, At, Points, Requests
  <2> QED
    BY <1>0, <2>3, CourseStep DEF PointsOf
<1>7. ASSUME NEW c \in Calls, NEW res \in {"ok", "err"}, Return(c, res)
      PROVE  OnCourse'
  BY <1>0, <1>7, ReturnFacts DEF StepOf, OnCourse
<1>8. ASSUME NEW c \in Calls, Client(c)
      PROVE  OnCourse'
  <2>1. PICK p \in FirstRequest(call[c].op) : Goto(c, p)
    BY <1>8 DEF Client
  <2>2. call[c].op \in CallOps
    BY <1>0 DEF TypeOK, CallRecords
  <2>3. p \in PointsOf(call[c].op) /\ p \in Requests
    BY <2>1, <2>2 DEF FirstRequest, PointsOf, Requests, CallOps, ContainerOps
  <2>4. StepOf(c) /\ SameTask(c, p)
    BY <1>0, <2>1, <2>3, GotoFacts DEF Points
  <2> QED
    BY <1>0, <2>3, <2>4 DEF StepOf, SameTask, At, OnCourse, Requests
<1>9. ASSUME NEW c \in Calls, NEW ok \in BOOLEAN, NEW lost \in BOOLEAN, Proceeds(c, ok, lost)
      PROVE  OnCourse'
  BY <1>0, <1>9, ProceedsFacts DEF StepOf, OnCourse
<1>10. ASSUME NEW c \in Calls, Leave(c)
      PROVE  OnCourse'
  <2>1. StepOf(c) /\ call'[c].pc = "idle" /\ call'[c].op = "look"
    BY <1>0, <1>10, LeaveFacts DEF At
  <2> QED
    BY <1>0, <2>1, CourseStep DEF PointsOf
<1>11. ASSUME NEW c \in Calls, call' = [call EXCEPT ![c].n = @ + 1]
      PROVE  OnCourse'
  BY <1>0, <1>11, EntryFacts DEF StepOf, SameTask, At, With, OnCourse
<1>12. ASSUME NEW c \in Calls, Serve(c)
      PROVE  OnCourse'
  <2>1. StepOf(c) /\ call'[c].pc = call[c].pc /\ call'[c].op = call[c].op /\ call'[c].id = call[c].id
    BY <1>0, <1>12, ServeFacts DEF SameTask, At
  <2>2. call[c].pc # "client"
    BY <1>12 DEF Serve, Requests
  <2> QED
    BY <1>0, <2>1, <2>2, CourseStep DEF OnCourse
<1>13. ASSUME NEW c \in Calls, CtxEnds(c)
      PROVE  OnCourse'
  BY <1>0, <1>13, CtxEndsFacts DEF StepOf, SameTask, SameData, At, With, OnCourse
<1>14. CASE call' = call
  BY <1>0, <1>14 DEF OnCourse
<1> QED
  BY <1>1, <1>2, <1>3, <1>4, <1>5, <1>6, <1>7, <1>8, <1>9, <1>10, <1>11, <1>12, <1>13, <1>14,
     BeginStep, ProceedStep
     DEF Next, Runs, Pumps, Engine, CloseAll, Surroundings, DialFails, PingFails, Register,
         DisconnectEnd, ClientFails, ExecTimeout, ExtractEntry, ExtractEnds, ExtractFails,
         BodyEnds, PumpEntry, PumpEnds, PumpShort, PumpFails, PumpStops, ProcEnds, CloseAllBegin, CloseAllOne, CloseAllEnds, Exits, Cut, vars

\* A step that neither touches the map or a connection nor a call that holds
\* one.
LEMMA QuietKeepsOwners ==
  ASSUME OneOwner, Accounted, UNCHANGED <<hosts, docker, ssh>>,
         \A c \in Calls : \/ call'[c] = call[c]
                          \/ ~Holds(c) /\ call'[c].pc \notin {"ping", "register", "close"}
                          \/ Holds(c) /\ call'[c].pc \in {"ping", "register", "close"}
                             /\ call'[c].h = call[c].h
  PROVE  OneOwner' /\ Accounted'
<1>1. \A c \in Calls : (Holds(c)' <=> Holds(c)) /\ (Holds(c) => call'[c].h = call[c].h)
  BY DEF Holds
<1>2. OneOwner'
  BY <1>1 DEF OneOwner
<1>3. Accounted'
  BY <1>1 DEF Accounted
<1> QED
  BY <1>2, <1>3

\* A connection changes hands with the map and the lock: from the connect that
\* dialled it to the map, from there to the disconnect that closes it.
LEMMA OwnersNext == DockerInv /\ [Next]_vars => OneOwner' /\ Accounted'
<1> SUFFICES ASSUME DockerInv, [Next]_vars
             PROVE  OneOwner' /\ Accounted'
  OBVIOUS
<1> USE DockerAssumption
<1>0. TypeOK /\ OnCourse /\ OneOwner /\ Accounted
  BY DEF DockerInv
<1>1. ASSUME NEW c \in Calls, Dial(c)
      PROVE  OneOwner' /\ Accounted'
  <2>1. PICK h \in Hosts : /\ FreshHost(h)
                           /\ ssh' = ssh \cup ({h} \cap SSHHosts) /\ docker' = docker \cup {h}
                           /\ At(c, "ping", call[c].op, call[c].id, h)
    BY <1>0, <1>1, DialFacts
  <2>2. StepOf(c) /\ hosts' = hosts /\ ~Holds(c)
    BY <1>0, <1>1, DialFacts DEF Dial, Holds
  <2>3. Holds(c)' /\ call'[c].h = h /\ \A d \in Calls \ {c} : call'[d] = call[d]
    BY <2>1, <2>2 DEF At, Holds, StepOf
  <2>4. OneOwner'
    BY <1>0, <2>1, <2>2, <2>3 DEF OneOwner, Holds, FreshHost
  <2>5. Accounted'
    BY <1>0, <2>1, <2>2, <2>3 DEF Accounted, Holds, FreshHost
  <2> QED
    BY <2>4, <2>5
<1>2. ASSUME NEW c \in Calls, PingFails(c) \/ DisconnectEnd(c)
      PROVE  OneOwner' /\ Accounted'
  <2>1. /\ Holds(c) /\ docker' = docker \ {call[c].h} /\ ssh' = ssh \ {call[c].h}
        /\ hosts' = hosts
    BY <1>2 DEF PingFails, DisconnectEnd, HostClose, CloseConn, Holds
  <2>2. StepOf(c) /\ ~Holds(c)'
    BY <1>0, <1>2, ReturnFacts DEF PingFails, DisconnectEnd, Holds
  <2>3. \A d \in Calls \ {c} : call'[d] = call[d]
    BY <2>2 DEF StepOf
  <2>4. OneOwner'
    BY <1>0, <2>1, <2>2, <2>3 DEF OneOwner, Holds
  <2>5. Accounted'
    BY <1>0, <2>1, <2>2, <2>3 DEF OneOwner, Accounted, Holds
  <2> QED
    BY <2>4, <2>5
<1>3. ASSUME NEW c \in Calls, Register(c)
      PROVE  OneOwner' /\ Accounted'
  <2>1. Holds(c) /\ call[c].id \in Ids /\ call[c].h \in Hosts
    BY <1>0, <1>3 DEF Register, Holds, OnCourse, OneOwner
  <2>2. StepOf(c) /\ ~Holds(c)'
    BY <1>0, <1>3, ReturnFacts DEF Register, Holds
  <2>3. \A d \in Calls \ {c} : call'[d] = call[d]
    BY <2>2 DEF StepOf
  <2>4. CASE /\ hosts' = [hosts EXCEPT ![call[c].id] = call[c].h]
             /\ hosts[call[c].id] = None /\ UNCHANGED <<docker, ssh>>
    <3>1. /\ hosts'[call[c].id] = call[c].h
          /\ \A i \in Ids : i # call[c].id => hosts'[i] = hosts[i]
      BY <1>0, <2>1, <2>4 DEF TypeOK
    <3>2. OneOwner'
      BY <1>0, <2>1, <2>2, <2>3, <3>1 DEF OneOwner, Holds
    <3>3. Accounted'
      BY <1>0, <2>1, <2>2, <2>3, <2>4, <3>1 DEF Accounted, Holds
    <3> QED
      BY <3>2, <3>3
  <2>5. CASE docker' = docker \ {call[c].h} /\ ssh' = ssh \ {call[c].h} /\ hosts' = hosts
    <3>1. OneOwner'
      BY <1>0, <2>1, <2>2, <2>3, <2>5 DEF OneOwner, Holds
    <3>2. Accounted'
      BY <1>0, <2>1, <2>2, <2>3, <2>5 DEF OneOwner, Accounted, Holds
    <3> QED
      BY <3>1, <3>2
  <2> QED
    BY <1>3, <2>4, <2>5 DEF Register, DropDuplicate, CloseConn
<1>4. ASSUME NEW c \in Calls, DisconnectBegin(c)
      PROVE  OneOwner' /\ Accounted'
  <2>1. PICK i \in Ids : /\ hosts[i] # None /\ hosts' = [hosts EXCEPT ![i] = None]
                         /\ At(c, "close", call[c].op, call[c].id, hosts[i])
    BY <1>0, <1>4, DisconnectBeginFacts
  <2>2. StepOf(c) /\ ~Holds(c) /\ UNCHANGED <<docker, ssh>>
    BY <1>0, <1>4, DisconnectBeginFacts DEF DisconnectBegin, Holds
  <2>3. /\ Holds(c)' /\ call'[c].h = hosts[i] /\ hosts[i] \in Hosts
        /\ \A d \in Calls \ {c} : call'[d] = call[d]
        /\ hosts'[i] = None /\ \A j \in Ids : j # i => hosts'[j] = hosts[j]
    BY <1>0, <2>1, <2>2 DEF At, Holds, StepOf, TypeOK
  <2>4. OneOwner'
    BY <1>0, <2>1, <2>2, <2>3 DEF OneOwner, Holds
  <2>5. Accounted'
    BY <1>0, <2>1, <2>2, <2>3 DEF Accounted, Holds
  <2> QED
    BY <2>4, <2>5
<1>5. CASE CloseAllOne
  <2>1. PICK i \in Ids : /\ hosts[i] # None /\ hosts' = [hosts EXCEPT ![i] = None]
                         /\ docker' = docker \ {hosts[i]} /\ ssh' = ssh \ {hosts[i]}
    BY <1>5 DEF CloseAllOne, HostClose, CloseConn
  <2>2. call' = call
    BY <1>5 DEF CloseAllOne
  <2>3. hosts'[i] = None /\ \A j \in Ids : j # i => hosts'[j] = hosts[j]
    BY <1>0, <2>1 DEF TypeOK
  <2>4. OneOwner'
    BY <1>0, <2>1, <2>2, <2>3 DEF OneOwner, Holds
  <2>5. Accounted'
    BY <1>0, <2>1, <2>2, <2>3 DEF OneOwner, Accounted, Holds
  <2> QED
    BY <2>4, <2>5
<1>6. ASSUME NEW c \in Calls, Ping(c)
      PROVE  OneOwner' /\ Accounted'
  <2>1. /\ StepOf(c) /\ call'[c].pc = "register" /\ call'[c].h = call[c].h /\ Holds(c)
        /\ UNCHANGED <<hosts, docker, ssh>>
    BY <1>0, <1>6, GotoFacts DEF Ping, SameTask, At, Points, Holds, hostVars
  <2> QED
    BY <1>0, <2>1, QuietKeepsOwners DEF StepOf
<1>7. ASSUME NEW c \in Calls, StepOf(c), UNCHANGED <<hosts, docker, ssh>>, ~Holds(c),
             call'[c].pc \notin {"ping", "register", "close"}
      PROVE  OneOwner' /\ Accounted'
  BY <1>0, <1>7, QuietKeepsOwners DEF StepOf
<1>8. ASSUME NEW c \in Calls, ConnectBegin(c) \/ BeginsOn(c)
      PROVE  OneOwner' /\ Accounted'
  BY <1>0, <1>7, <1>8, ConnectBeginFacts, BeginsOnFacts
     DEF ConnectBegin, BeginsOn, Begin, At, Holds, hostVars
<1>9. ASSUME NEW c \in Calls, DialFails(c) \/ ClientFails(c) \/ ExecTimeout(c) \/ ExtractFails(c)
      PROVE  OneOwner' /\ Accounted'
  BY <1>0, <1>7, <1>9, ReturnFacts
     DEF DialFails, ClientFails, ExecTimeout, ExtractFails, Holds, hostVars
<1>10. ASSUME NEW c \in Calls, Client(c)
      PROVE  OneOwner' /\ Accounted'
  <2>1. PICK p \in FirstRequest(call[c].op) : Goto(c, p)
    BY <1>10 DEF Client
  <2>2. call[c].op \in CallOps
    BY <1>0 DEF TypeOK, CallRecords
  <2>3. p \in Requests
    BY <2>1, <2>2 DEF FirstRequest, Requests, CallOps, ContainerOps
  <2>4. StepOf(c) /\ SameTask(c, p)
    BY <1>0, <2>1, <2>3, GotoFacts DEF Points
  <2> QED
    BY <1>7, <1>10, <2>3, <2>4 DEF Client, SameTask, At, Requests, Holds, hostVars
<1>11. ASSUME NEW c \in Calls, NEW ok \in BOOLEAN, NEW lost \in BOOLEAN, Proceeds(c, ok, lost)
      PROVE  OneOwner' /\ Accounted'
  <2>1. StepOf(c) /\ call'[c].pc \notin {"ping", "register", "close"}
    BY <1>0, <1>11, ProceedsFacts
  <2>2. ~Holds(c) /\ UNCHANGED <<hosts, docker, ssh>>
    BY <1>11 DEF Proceeds, Requests, Holds, hostVars
  <2> QED
    BY <1>7, <2>1, <2>2
<1>12. ASSUME NEW c \in Calls, Leave(c) \/ ExecOutput(c)
      PROVE  OneOwner' /\ Accounted'
  <2>1. CASE Leave(c)
    BY <1>0, <1>7, <2>1, LeaveFacts DEF Leave, At, Holds, hostVars
  <2>2. CASE ExecOutput(c)
    <3>1. StepOf(c) /\ call'[c].pc = "exec inspect"
      BY <1>0, <2>2, GotoFacts DEF ExecOutput, SameTask, At, Points, Requests
    <3> QED
      BY <1>7, <2>2, <3>1 DEF ExecOutput, Holds, hostVars
  <2> QED
    BY <1>12, <2>1, <2>2
<1>13. ASSUME NEW c \in Calls, ExtractEntry(c) \/ ExtractEnds(c)
      PROVE  OneOwner' /\ Accounted'
  BY <1>0, <1>7, <1>13, ReturnFacts, EntryFacts
     DEF ExtractEntry, ExtractEnds, SameTask, At, Holds, hostVars
<1>14. ASSUME NEW c \in Calls, PumpEntry(c)
      PROVE  OneOwner' /\ Accounted'
  <2>1. call[c].pc \in {"put", "extract"}
    BY <1>14 DEF DockerInv, CopyFacts, PumpEntry
  <2> QED
    BY <1>0, <1>7, <1>14, <2>1, EntryFacts DEF PumpEntry, SameTask, At, Holds, hostVars
<1>15. ASSUME NEW c \in Calls, Serve(c) \/ CtxEnds(c)
      PROVE  OneOwner' /\ Accounted'
  BY <1>0, <1>7, <1>15, ServeFacts, CtxEndsFacts
     DEF Serve, CtxEnds, SameTask, At, Requests, Holds, hostVars
<1>16. CASE UNCHANGED <<hosts, docker, ssh, call>>
  BY <1>0, <1>16, QuietKeepsOwners
<1> QED
  BY <1>1, <1>2, <1>3, <1>4, <1>5, <1>6, <1>8, <1>9, <1>10, <1>11, <1>12, <1>13, <1>14, <1>15,
     <1>16, BeginStep, ProceedStep
     DEF Next, Runs, Pumps, Engine, CloseAll, Surroundings, PumpEnds, PumpShort, PumpFails, PumpStops,
         BodyEnds, ProcEnds, CloseAllBegin, CloseAllEnds, Exits, Cut, vars, hostVars

\* A container that is absent stays so while a call has its name, whoever the
\* engine serves: a create takes another, nothing else acts on what is not there.
LEMMA AbsentStays ==
  ASSUME TypeOK, NEW c \in Calls, Serve(c), NEW d \in Calls, call[d].x \in Containers,
         ctr[call[d].x] = "absent"
  PROVE  ctr'[call[d].x] = "absent"
<1> DEFINE y == call[d].x
<1>1. CASE Verb(c) = "create"
  BY <1>1 DEF Serve, Unclaimed, TypeOK
<1>2. CASE Verb(c) # "create"
  <2>1. EngineDoes(c) /\ Verb(c) \in ContainerOps \cup {"attach"}
    BY <1>2 DEF Serve, Acts
  <2>2. call[c].x # y => ctr'[y] = ctr[y]
    BY <2>1 DEF EngineDoes, ContainerOps, TypeOK
  <2>3. call[c].x = y => ctr'[y] = "absent"
    BY <2>1 DEF EngineDoes, ContainerOps, TypeOK
  <2> QED
    BY <2>2, <2>3
<1> QED
  BY <1>1, <1>2

\* No step of another call makes what a run says of its container untrue.
LEMMA RunsOfOthers ==
  ASSUME TypeOK, NEW d \in Calls, RunFacts(d), call'[d] = call[d],
         \A x \in Containers : ctr[x] = "absent" /\ call[d].x = x => ctr'[x] = "absent"
  PROVE  RunFacts(d)'
<1>1. call[d].x \in Containers \cup {None}
  BY DEF TypeOK, CallRecords
<1> QED
  BY <1>1 DEF RunFacts

\* A run that gives up has removed what it created, or created nothing.
LEMMA RunNextStep == DockerInv /\ [Next]_vars => \A c \in Calls : RunFacts(c)'
<1> SUFFICES ASSUME DockerInv, [Next]_vars
             PROVE  \A c \in Calls : RunFacts(c)'
  OBVIOUS
<1>0. TypeOK /\ OnCourse /\ \A c \in Calls : RunFacts(c)
  BY DEF DockerInv
<1>1. ASSUME NEW c \in Calls, StepOf(c), ctr' = ctr, RunFacts(c)'
      PROVE  \A d \in Calls : RunFacts(d)'
  <2>1. ASSUME NEW d \in Calls \ {c}
        PROVE  RunFacts(d)'
    BY <1>0, <1>1, RunsOfOthers DEF StepOf
  <2> QED
    BY <1>1, <2>1
<1>2. ASSUME NEW c \in Calls, ConnectBegin(c) \/ DisconnectBegin(c) \/ Dial(c) \/ Ping(c)
      PROVE  \A d \in Calls : RunFacts(d)'
  <2>1. call[c].pc \in {"idle", "dial", "ping"}
    BY <1>2 DEF ConnectBegin, DisconnectBegin, Dial, Ping
  <2>2. call[c].op = "look"
    BY <1>0, <2>1, LookPoints
  <2>3. StepOf(c) /\ call'[c].op = call[c].op
    BY <1>0, <1>2, ConnectBeginFacts, DisconnectBeginFacts, DialFacts, GotoFacts
       DEF Ping, SameTask, At, Points
  <2>4. ctr' = ctr
    BY <1>2 DEF ConnectBegin, DisconnectBegin, Dial, Ping
  <2> QED
    BY <1>1, <2>2, <2>3, <2>4 DEF RunFacts
<1>3. ASSUME NEW c \in Calls, BeginsOn(c)
      PROVE  \A d \in Calls : RunFacts(d)'
  <2>1. StepOf(c) /\ call'[c].pc = "client" /\ (call'[c].op = "run" => call'[c].x = None)
    BY <1>0, <1>3, BeginsOnFacts DEF At, With
  <2>2. ctr' = ctr
    BY <1>3 DEF BeginsOn, Begin
  <2> QED
    BY <1>1, <2>1, <2>2 DEF RunFacts
<1>4. ASSUME NEW c \in Calls, NEW res \in {"ok", "err"}, Return(c, res), ctr' = ctr,
             call[c].op = "run" => call[c].pc = "client"
      PROVE  \A d \in Calls : RunFacts(d)'
  <2>1. /\ StepOf(c) /\ call'[c].pc \in {"idle", "ok", "err"}
        /\ call'[c].op = "run" => call[c].op = "run" /\ call'[c].x = call[c].x
    BY <1>0, <1>4, ReturnFacts
  <2>2. call'[c].op = "run" => call'[c].x = None
    BY <1>0, <1>4, <2>1 DEF RunFacts
  <2> QED
    BY <1>1, <1>4, <2>1, <2>2 DEF RunFacts
<1>5. ASSUME NEW c \in Calls, DialFails(c) \/ PingFails(c) \/ Register(c) \/ DisconnectEnd(c)
      PROVE  \A d \in Calls : RunFacts(d)'
  <2>1. call[c].pc \in {"dial", "ping", "register", "close"} /\ ctr' = ctr
    BY <1>5 DEF DialFails, PingFails, Register, DisconnectEnd
  <2>2. call[c].op = "look"
    BY <1>0, <2>1, LookPoints
  <2> QED
    BY <1>4, <1>5, <2>1, <2>2 DEF DialFails, PingFails, Register, DisconnectEnd
<1>6. ASSUME NEW c \in Calls, ClientFails(c)
      PROVE  \A d \in Calls : RunFacts(d)'
  BY <1>4, <1>6 DEF ClientFails
<1>7. ASSUME NEW c \in Calls, call[c].pc \in {"wait", "extract"}
      PROVE  call[c].op # "run"
  BY <1>0, <1>7 DEF OnCourse, PointsOf
<1>8. ASSUME NEW c \in Calls, ExecTimeout(c) \/ ExtractEnds(c) \/ ExtractFails(c)
      PROVE  \A d \in Calls : RunFacts(d)'
  BY <1>4, <1>7, <1>8 DEF ExecTimeout, ExtractEnds, ExtractFails
<1>9. ASSUME NEW c \in Calls, ExtractEntry(c)
      PROVE  \A d \in Calls : RunFacts(d)'
  <2>1. call[c].op # "run" /\ ctr' = ctr
    BY <1>7, <1>9 DEF ExtractEntry
  <2>2. StepOf(c) /\ call'[c].op = call[c].op
    BY <1>0, <1>9, EntryFacts DEF ExtractEntry, SameTask, At
  <2> QED
    BY <1>1, <2>1, <2>2 DEF RunFacts
<1>10. ASSUME NEW c \in Calls, Client(c)
      PROVE  \A d \in Calls : RunFacts(d)'
  <2>1. PICK p \in FirstRequest(call[c].op) : Goto(c, p)
    BY <1>10 DEF Client
  <2>2. call[c].op \in CallOps
    BY <1>0 DEF TypeOK, CallRecords
  <2>3. p \in Points /\ (call[c].op = "run" => p \in {"probe", "create"})
    BY <2>1, <2>2 DEF FirstRequest, Points, Requests, CallOps, ContainerOps
  <2>4. StepOf(c) /\ SameTask(c, p) /\ SameData(c)
    BY <1>0, <2>1, <2>3, GotoFacts
  <2>5. call[c].pc = "client" /\ ~call[c].served /\ ctr' = ctr
    BY <1>0, <1>10 DEF Client, OnCourse
  <2>6. RunFacts(c)'
    BY <1>0, <2>3, <2>4, <2>5 DEF RunFacts, SameTask, SameData, At, With
  <2> QED
    BY <1>1, <2>4, <2>5, <2>6
<1>11. ASSUME NEW c \in Calls, NEW ok \in BOOLEAN, NEW lost \in BOOLEAN, Proceeds(c, ok, lost)
      PROVE  \A d \in Calls : RunFacts(d)'
  <2>1. StepOf(c) /\ ctr' = ctr
    BY <1>0, <1>11, ProceedsFacts DEF Proceeds
  <2>2. ASSUME call'[c].op = "run"
        PROVE  RunFacts(c)'
    <3>1. /\ call[c].op = "run" /\ call'[c].pc = RunNext(call[c].pc, ok)
          /\ call'[c].x = call[c].x /\ call'[c].lost = (call[c].lost \/ lost)
          /\ call'[c].pc \notin {"ok", "err"} => ~call'[c].served
      BY <1>0, <1>11, <2>2, ProceedsFacts
    <3>2. call[c].pc \in {"probe", "pull", "create", "start", "cleanup"}
      BY <1>0, <1>11, <3>1 DEF Proceeds, OnCourse, PointsOf, Requests
    <3>3. CASE call[c].pc \in {"probe", "pull"}
      BY <1>0, <3>1, <3>3 DEF RunNext, RunFacts
    <3>4. CASE call[c].pc = "create"
      <4>1. ok => call[c].served
        BY <1>11, <3>4 DEF Proceeds, Acts, Verb
      <4>2. ~ok /\ ~lost => ~call[c].served
        BY <1>11, <3>4 DEF Proceeds
      <4> QED
        BY <1>0, <3>1, <3>4, <4>1, <4>2 DEF RunNext, RunFacts
    <3>5. CASE call[c].pc = "start"
      BY <1>0, <3>1, <3>5 DEF RunNext, RunFacts
    <3>6. CASE call[c].pc = "cleanup"
      <4>1. ok => call[c].served
        BY <1>11, <3>6 DEF Proceeds, Acts, Verb, ContainerOps
      <4>2. ~ok /\ ~lost => ctr[call[c].x] = "absent"
        BY <1>11, <3>6 DEF Proceeds
      <4> QED
        BY <1>0, <2>1, <3>1, <3>6, <4>1, <4>2 DEF RunNext, RunFacts
    <3> QED
      BY <3>2, <3>3, <3>4, <3>5, <3>6
  <2>3. RunFacts(c)'
    BY <2>2 DEF RunFacts
  <2> QED
    BY <1>1, <2>1, <2>3
<1>12. ASSUME NEW c \in Calls, Leave(c)
      PROVE  \A d \in Calls : RunFacts(d)'
  <2>1. StepOf(c) /\ call'[c].op = "look" /\ ctr' = ctr
    BY <1>0, <1>12, LeaveFacts DEF At, Leave
  <2> QED
    BY <1>1, <2>1 DEF RunFacts
<1>13. ASSUME NEW c \in Calls, ExecOutput(c)
      PROVE  \A d \in Calls : RunFacts(d)'
  <2>1. call[c].op # "run" /\ ctr' = ctr
    BY <1>7, <1>13 DEF ExecOutput
  <2>2. StepOf(c) /\ call'[c].op = call[c].op
    BY <1>0, <1>13, GotoFacts DEF ExecOutput, SameTask, At, Points, Requests
  <2> QED
    BY <1>1, <2>1, <2>2 DEF RunFacts
<1>14. ASSUME NEW c \in Calls, PumpEntry(c) \/ CtxEnds(c)
      PROVE  \A d \in Calls : RunFacts(d)'
  <2>1. StepOf(c) /\ SameTask(c, call[c].pc) /\ ctr' = ctr
    BY <1>0, <1>14, EntryFacts, CtxEndsFacts DEF PumpEntry, CtxEnds
  <2>2. call'[c].x = call[c].x /\ call'[c].served = call[c].served /\ call'[c].lost = call[c].lost
    BY <1>0, <1>14, EntryFacts, CtxEndsFacts DEF PumpEntry, SameData, With
  <2>3. RunFacts(c)'
    BY <1>0, <2>1, <2>2 DEF RunFacts, SameTask, At
  <2> QED
    BY <1>1, <2>1, <2>3
<1>15. ASSUME NEW c \in Calls, Serve(c)
      PROVE  \A d \in Calls : RunFacts(d)'
  <2>1. StepOf(c) /\ SameTask(c, call[c].pc)
    BY <1>0, <1>15, ServeFacts
  <2>2. ASSUME NEW d \in Calls \ {c}
        PROVE  RunFacts(d)'
    <3>1. \A x \in Containers : ctr[x] = "absent" /\ call[d].x = x => ctr'[x] = "absent"
      BY <1>0, <1>15, AbsentStays
    <3>2. call'[d] = call[d]
      BY <2>1 DEF StepOf
    <3> QED
      BY <1>0, <3>1, <3>2, RunsOfOthers
  <2>3. ASSUME call[c].op = "run"
        PROVE  RunFacts(c)'
    <3>1. call[c].pc \in {"probe", "pull", "create", "start", "cleanup"}
      BY <1>0, <1>15, <2>3 DEF Serve, OnCourse, PointsOf, Requests
    <3>2. CASE call[c].pc = "create"
      <4>1. Verb(c) = "create"
        BY <3>2 DEF Verb
      <4>2. call'[c].x \in Containers /\ call'[c].served
        BY <1>0, <1>15, <4>1, ServeFacts DEF With
      <4> QED
        BY <2>1, <3>2, <4>2, DockerAssumption DEF RunFacts, SameTask, At
    <3>3. CASE call[c].pc = "cleanup"
      <4>1. Verb(c) = "rm -f"
        BY <3>3 DEF Verb
      <4>2. EngineDoes(c) /\ call'[c].x = call[c].x
        BY <1>0, <1>15, <4>1, ServeFacts DEF With
      <4>3. call[c].x \in Containers
        BY <1>0, <2>3, <3>3 DEF RunFacts, TypeOK, CallRecords
      <4>4. ctr'[call[c].x] = "absent"
        BY <1>0, <4>1, <4>2, <4>3 DEF EngineDoes, TypeOK
      <4> QED
        BY <1>0, <2>1, <2>3, <3>3, <4>2, <4>4 DEF RunFacts, SameTask, At
    <3>4. CASE call[c].pc \in {"probe", "pull", "start"}
      <4>1. Verb(c) # "create"
        BY <3>4 DEF Verb
      <4>2. call'[c].x = call[c].x
        BY <1>0, <1>15, <4>1, ServeFacts DEF With
      <4> QED
        BY <1>0, <2>1, <2>3, <3>4, <4>2 DEF RunFacts, SameTask, At
    <3> QED
      BY <3>1, <3>2, <3>3, <3>4
  <2>4. RunFacts(c)'
    BY <2>1, <2>3 DEF RunFacts, SameTask, At
  <2> QED
    BY <2>2, <2>4
<1>16. ASSUME NEW x \in Containers, Exits(x)
      PROVE  \A d \in Calls : RunFacts(d)'
  <2>1. \A y \in Containers : ctr[y] = "absent" => ctr'[y] = "absent"
    BY <1>0, <1>16 DEF Exits, TypeOK
  <2> QED
    BY <1>0, <1>16, <2>1, RunsOfOthers DEF Exits
<1>17. CASE UNCHANGED <<call, ctr>>
  BY <1>0, <1>17, RunsOfOthers
<1> QED
  BY <1>2, <1>3, <1>5, <1>6, <1>8, <1>9, <1>10, <1>11, <1>12, <1>13, <1>14, <1>15, <1>16, <1>17,
     BeginStep, ProceedStep
     DEF Next, Runs, Pumps, Engine, CloseAll, Surroundings, PumpEnds, PumpShort, PumpFails, PumpStops,
         BodyEnds, ProcEnds, CloseAllBegin, CloseAllOne, CloseAllEnds, Cut, vars

\* An upload ends well only behind the end of its archive, a download only
\* behind the end of its body, or behind its one entry.
LEMMA CopyNextStep == DockerInv /\ [Next]_vars => \A c \in Calls : CopyFacts(c)'
<1> SUFFICES ASSUME DockerInv, [Next]_vars
             PROVE  \A c \in Calls : CopyFacts(c)'
  OBVIOUS
<1>0. TypeOK /\ OnCourse /\ \A c \in Calls : CopyFacts(c)
  BY DEF DockerInv
<1>1. ASSUME NEW c \in Calls, StepOf(c), CopyFacts(c)',
             \A d \in Calls \ {c} : pump'[d] = pump[d]
      PROVE  \A d \in Calls : CopyFacts(d)'
  <2>1. ASSUME NEW d \in Calls \ {c}
        PROVE  CopyFacts(d)'
    BY <1>0, <1>1 DEF StepOf, CopyFacts
  <2> QED
    BY <1>1, <2>1
<1>2. ASSUME NEW c \in Calls, ConnectBegin(c) \/ DisconnectBegin(c) \/ Dial(c) \/ Ping(c)
      PROVE  \A d \in Calls : CopyFacts(d)'
  <2>1. call[c].pc \in {"idle", "dial", "ping"} /\ pump' = pump
    BY <1>2 DEF ConnectBegin, DisconnectBegin, Dial, Ping
  <2>2. call[c].op = "look"
    BY <1>0, <2>1, LookPoints
  <2>3. StepOf(c) /\ call'[c].op = call[c].op
    BY <1>0, <1>2, ConnectBeginFacts, DisconnectBeginFacts, DialFacts, GotoFacts
       DEF Ping, SameTask, At, Points
  <2>4. CopyFacts(c)'
    BY <1>0, <2>1, <2>2, <2>3 DEF CopyFacts
  <2> QED
    BY <1>1, <2>1, <2>3, <2>4
<1>3. ASSUME NEW c \in Calls, BeginsOn(c)
      PROVE  \A d \in Calls : CopyFacts(d)'
  <2>1. StepOf(c) /\ call[c].pc = "idle" /\ call'[c].pc = "client"
    BY <1>0, <1>3, BeginsOnFacts DEF At
  <2>2. pump' = pump
    BY <1>3 DEF BeginsOn, Begin
  <2>3. CopyFacts(c)'
    BY <1>0, <2>1, <2>2 DEF CopyFacts
  <2> QED
    BY <1>1, <2>1, <2>2, <2>3
<1>4. ASSUME NEW c \in Calls, NEW res \in {"ok", "err"}, Return(c, res), pump' = pump,
             call[c].pc \notin {"put", "extract"},
             res = "ok" => call[c].op \notin {"upload", "download"} \/ call[c].n = NEntries
      PROVE  \A d \in Calls : CopyFacts(d)'
  <2>1. /\ StepOf(c) /\ call'[c].pc \in {"idle", "ok", "err"}
        /\ call'[c].op \in {"upload", "download"} =>
             call'[c].op = call[c].op /\ call'[c].pc = res /\ call'[c].n = call[c].n
    BY <1>0, <1>4, ReturnFacts
  <2>2. CopyFacts(c)'
    BY <1>0, <1>4, <2>1 DEF CopyFacts
  <2> QED
    BY <1>1, <1>4, <2>1, <2>2
<1>5. ASSUME NEW c \in Calls, DialFails(c) \/ PingFails(c) \/ Register(c) \/ DisconnectEnd(c)
      PROVE  \A d \in Calls : CopyFacts(d)'
  <2>1. call[c].pc \in {"dial", "ping", "register", "close"} /\ pump' = pump
    BY <1>5 DEF DialFails, PingFails, Register, DisconnectEnd
  <2>2. call[c].op = "look"
    BY <1>0, <2>1, LookPoints
  <2> QED
    BY <1>4, <1>5, <2>1, <2>2 DEF DialFails, PingFails, Register, DisconnectEnd
<1>6. ASSUME NEW c \in Calls, ClientFails(c) \/ ExecTimeout(c)
      PROVE  \A d \in Calls : CopyFacts(d)'
  BY <1>4, <1>6 DEF ClientFails, ExecTimeout
<1>7. ASSUME NEW c \in Calls, ExtractEntry(c) \/ ExtractEnds(c) \/ ExtractFails(c)
      PROVE  \A d \in Calls : CopyFacts(d)'
  <2>1. CASE ExtractEntry(c)
    <3>1. call[c].pc = "extract" /\ pump[c].pipe = "open" /\ pump' = pump
      BY <2>1 DEF ExtractEntry
    <3>2. StepOf(c) /\ SameTask(c, call[c].pc)
      BY <1>0, <2>1, EntryFacts DEF ExtractEntry
    <3>3. CopyFacts(c)'
      BY <1>0, <3>1, <3>2 DEF CopyFacts, SameTask, At
    <3> QED
      BY <1>1, <3>1, <3>2, <3>3
  <2>2. ASSUME NEW res \in {"ok", "err"}, Return(c, res), res = "ok" => call[c].n = NEntries,
               pump' = [pump EXCEPT ![c].pipe = "closed"]
        PROVE  \A d \in Calls : CopyFacts(d)'
    <3>1. /\ StepOf(c)
          /\ call'[c].op \in {"upload", "download"} =>
               call'[c].pc = res /\ call'[c].n = call[c].n
      BY <1>0, <2>2, ReturnFacts
    <3>2. pump'[c].pipe = "closed" /\ \A d \in Calls \ {c} : pump'[d] = pump[d]
      BY <1>0, <2>2 DEF TypeOK
    <3>3. CopyFacts(c)'
      BY <2>2, <3>1, <3>2 DEF CopyFacts
    <3> QED
      BY <1>1, <3>1, <3>2, <3>3
  <2>3. CASE ExtractEnds(c)
    <3>1. call[c].n = NEntries
      BY <1>0, <2>3 DEF ExtractEnds, CopyFacts
    <3> QED
      BY <2>2, <2>3, <3>1 DEF ExtractEnds
  <2>4. CASE ExtractFails(c)
    BY <2>2, <2>4 DEF ExtractFails
  <2> QED
    BY <1>7, <2>1, <2>3, <2>4
<1>8. ASSUME NEW c \in Calls, Client(c)
      PROVE  \A d \in Calls : CopyFacts(d)'
  <2>1. PICK p \in FirstRequest(call[c].op) : Goto(c, p)
    BY <1>8 DEF Client
  <2>2. call[c].op \in CallOps
    BY <1>0 DEF TypeOK, CallRecords
  <2>3. p \in Requests /\ (call[c].op = "upload" => p = "put")
    BY <2>1, <2>2 DEF FirstRequest, Requests, CallOps, ContainerOps
  <2>4. StepOf(c) /\ SameTask(c, p)
    BY <1>0, <2>1, <2>3, GotoFacts DEF Points
  <2>5. pump[c].pipe = "closed"
    BY <1>0, <1>8 DEF Client, CopyFacts
  <2>6. /\ \A d \in Calls \ {c} : pump'[d] = pump[d]
        /\ call[c].op = "upload" => pump'[c].pipe = "open"
        /\ call[c].op # "upload" => pump' = pump
    BY <1>0, <1>8 DEF Client, TypeOK
  <2>7. CopyFacts(c)'
    BY <2>3, <2>4, <2>5, <2>6 DEF CopyFacts, SameTask, At, Requests
  <2> QED
    BY <1>1, <2>4, <2>6, <2>7
<1>9. ASSUME NEW c \in Calls, NEW ok \in BOOLEAN, NEW lost \in BOOLEAN, Proceeds(c, ok, lost)
      PROVE  \A d \in Calls : CopyFacts(d)'
  <2>1. /\ StepOf(c)
        /\ call'[c].op \in {"upload", "download"} => call'[c].op = call[c].op
        /\ call'[c].op = "upload" =>
             call'[c].n = call[c].n /\ call'[c].pc = IF ok THEN "ok" ELSE "err"
        /\ call'[c].op = "download" => call'[c].pc = IF ok THEN "extract" ELSE "err"
        /\ call[c].op = "download" => call'[c].op = "download"
    BY <1>0, <1>9, ProceedsFacts
  <2>2. \A d \in Calls \ {c} : pump'[d] = pump[d]
    BY <1>0, <1>9 DEF Proceeds, TypeOK
  <2>3. \/ pump'[c].pipe = "closed"
        \/ pump'[c].pipe = "open" /\ ok /\ call[c].op = "download"
    <3>1. CASE call[c].pc = "put"
      BY <1>0, <1>9, <3>1 DEF Proceeds, TypeOK
    <3>2. CASE call[c].pc = "get"
      <4>1. call[c].op = "download"
        BY <1>0, <3>2 DEF TypeOK, CallRecords, CallOps, ContainerOps, OnCourse, PointsOf
      <4>2. pump[c].pipe = "closed"
        BY <1>0, <3>2 DEF CopyFacts
      <4> QED
        BY <1>0, <1>9, <3>2, <4>1, <4>2 DEF Proceeds, TypeOK
    <3>3. CASE call[c].pc \notin {"put", "get"}
      <4>1. pump[c].pipe = "closed"
        BY <1>0, <1>9, <3>3 DEF CopyFacts, Proceeds, Requests
      <4> QED
        BY <1>0, <1>9, <3>3, <4>1 DEF Proceeds, TypeOK
    <3> QED
      BY <3>1, <3>2, <3>3
  <2>4. call[c].op = "upload" /\ ok => call[c].n = NEntries
    <3>1. call[c].op = "upload" => call[c].pc = "put"
      BY <1>0, <1>9 DEF Proceeds, OnCourse, PointsOf, Requests
    <3> QED
      BY <1>0, <1>9, <3>1 DEF Proceeds, CopyFacts
  <2>5. CopyFacts(c)'
    BY <2>1, <2>3, <2>4 DEF CopyFacts
  <2> QED
    BY <1>1, <2>1, <2>2, <2>5
<1>10. ASSUME NEW c \in Calls, Leave(c)
      PROVE  \A d \in Calls : CopyFacts(d)'
  <2>1. StepOf(c) /\ call'[c].op = "look"
    BY <1>0, <1>10, LeaveFacts DEF At
  <2>2. pump'[c] = NoPump /\ \A d \in Calls \ {c} : pump'[d] = pump[d]
    BY <1>0, <1>10 DEF Leave, TypeOK
  <2>3. CopyFacts(c)'
    BY <2>1, <2>2 DEF CopyFacts, NoPump
  <2> QED
    BY <1>1, <2>1, <2>2, <2>3
<1>11. ASSUME NEW c \in Calls, ExecOutput(c)
      PROVE  \A d \in Calls : CopyFacts(d)'
  <2>1. call[c].pc = "wait" /\ pump' = pump
    BY <1>11 DEF ExecOutput
  <2>2. StepOf(c) /\ call'[c].pc = "exec inspect"
    BY <1>0, <1>11, GotoFacts DEF ExecOutput, SameTask, At, Points, Requests
  <2>3. CopyFacts(c)'
    BY <1>0, <2>1, <2>2 DEF CopyFacts
  <2> QED
    BY <1>1, <2>1, <2>2, <2>3
<1>12. ASSUME NEW c \in Calls, PumpEntry(c)
      PROVE  \A d \in Calls : CopyFacts(d)'
  <2>1. pump[c].pipe = "open" /\ pump' = pump
    BY <1>12 DEF PumpEntry
  <2>2. StepOf(c) /\ SameTask(c, call[c].pc)
    BY <1>0, <1>12, EntryFacts DEF PumpEntry
  <2>3. CopyFacts(c)'
    BY <1>0, <2>1, <2>2 DEF CopyFacts, SameTask, At
  <2> QED
    BY <1>1, <2>1, <2>2, <2>3
<1>13. ASSUME NEW c \in Calls, Serve(c) \/ CtxEnds(c)
      PROVE  \A d \in Calls : CopyFacts(d)'
  <2>1. StepOf(c) /\ SameTask(c, call[c].pc) /\ call'[c].n = call[c].n
    BY <1>0, <1>13, ServeFacts, CtxEndsFacts DEF With, SameData
  <2>2. pump' = pump
    BY <1>13 DEF Serve, CtxEnds
  <2>3. CopyFacts(c)'
    BY <1>0, <2>1, <2>2 DEF CopyFacts, SameTask, At
  <2> QED
    BY <1>1, <2>1, <2>2, <2>3
<1>14. ASSUME NEW c \in Calls,
              PumpEnds(c) \/ PumpShort(c) \/ PumpFails(c) \/ PumpStops(c) \/ BodyEnds(c)
      PROVE  \A d \in Calls : CopyFacts(d)'
  <2>1. call' = call /\ \A d \in Calls \ {c} : pump'[d] = pump[d]
    BY <1>0, <1>14 DEF PumpEnds, PumpShort, PumpFails, PumpStops, BodyEnds, TypeOK
  <2>2. CASE PumpEnds(c)
    BY <1>0, <2>1, <2>2 DEF PumpEnds, CopyFacts, TypeOK
  <2>3. CASE PumpFails(c)
    BY <1>0, <2>1, <2>3 DEF PumpFails, WalkError, CopyFacts, TypeOK
  <2>4. CASE PumpStops(c)
    BY <1>0, <2>1, <2>4 DEF PumpStops, CopyFacts, TypeOK
  <2>5. CASE PumpShort(c)
    BY <1>0, <2>1, <2>5 DEF PumpShort, CopyFacts, TypeOK
  <2>6. CASE BodyEnds(c)
    BY <1>0, <2>1, <2>6 DEF BodyEnds, CopyFacts, TypeOK
  <2> QED
    BY <1>14, <2>2, <2>3, <2>4, <2>5, <2>6
<1>15. CASE UNCHANGED <<call, pump>>
  BY <1>0, <1>15 DEF CopyFacts
<1> QED
  BY <1>2, <1>3, <1>5, <1>6, <1>7, <1>8, <1>9, <1>10, <1>11, <1>12, <1>13, <1>14, <1>15,
     BeginStep, ProceedStep
     DEF Next, Runs, Pumps, Engine, CloseAll, Surroundings, ProcEnds, CloseAllBegin, CloseAllOne,
         CloseAllEnds, Exits, Cut, vars

-----------------------------------------------------------------------------
(* The theorems                                                             *)

\* The strengthening holds in every state.
LEMMA DockerInvariant == Spec => []DockerInv
<1>1. Init => DockerInv
  <2> SUFFICES ASSUME Init
               PROVE  DockerInv
    OBVIOUS
  <2> USE DockerAssumption
  <2>1. Idle \in CallRecords /\ Idle.pc = "idle" /\ Idle.op = "look"
    BY DEF Idle, CallRecords, Points, CallOps
  <2>2. \A c \in Calls : call[c] = Idle
    BY DEF Init
  <2>3. TypeOK
    BY <2>1 DEF Init, TypeOK, NoPump, Pipes
  <2>4. OnCourse
    BY <2>1, <2>2 DEF OnCourse, PointsOf
  <2>5. OneOwner /\ Accounted
    BY <2>1, <2>2 DEF Init, OneOwner, Accounted, Holds
  <2>6. \A c \in Calls : RunFacts(c) /\ CopyFacts(c)
    BY <2>1, <2>2 DEF Init, RunFacts, CopyFacts, NoPump
  <2> QED
    BY <2>3, <2>4, <2>5, <2>6 DEF DockerInv
<1>2. DockerInv /\ [Next]_vars => DockerInv'
  BY TypeNext, CourseNext, OwnersNext, RunNextStep, CopyNextStep DEF DockerInv
<1> QED
  BY <1>1, <1>2, PTL DEF Spec

\* Type correctness: among other things a request is only ever on behalf of an
\* operation that makes it, and a container only in a state the engine has.
THEOREM DockerTypeCorrect == Spec => []TypeOK
<1>1. DockerInv => TypeOK
  BY DEF DockerInv
<1> QED
  BY <1>1, DockerInvariant, PTL

\* Whatever connects, disconnects and CloseAll race for an id, no docker
\* client and no ssh connection is leaked and none is closed under a host that
\* is still listed.
THEOREM ConnsAlwaysAccounted == Spec => []ConnsAccounted
<1>1. DockerInv => ConnsAccounted
  <2> SUFFICES ASSUME DockerInv
               PROVE  ConnsAccounted
    OBVIOUS
  <2>1. docker \subseteq Hosts /\ ssh \subseteq Hosts
    BY DEF DockerInv, TypeOK
  <2>2. \A c \in Calls : Holds(c) => call[c].h \in Hosts
    BY DEF DockerInv, OneOwner
  <2>3. Accounted
    BY DEF DockerInv
  <2>4. ssh = docker \cap SSHHosts
    BY <2>1, <2>3 DEF Accounted
  <2>5. docker = {h \in Hosts : \E i \in Ids : hosts[i] = h}
                 \cup {call[c].h : c \in {d \in Calls : Holds(d)}}
    BY <2>1, <2>2, <2>3 DEF Accounted
  <2> QED
    BY <2>4, <2>5 DEF ConnsAccounted, Holds
<1> QED
  BY <1>1, DockerInvariant, PTL

\* docker_run leaves no stopped container behind when its start is refused,
\* however many calls start, stop, kill and remove containers meanwhile.
THEOREM NoHuskEver == Spec => []NoHusk
<1>1. DockerInv => NoHusk
  BY DEF DockerInv, RunFacts, NoHusk
<1> QED
  BY <1>1, DockerInvariant, PTL

\* A tree that was copied in part is never reported as copied, for a tree of
\* any size.
THEOREM CopiesAlwaysWhole == Spec => []CopiesWhole
<1>1. DockerInv => CopiesWhole
  BY DEF DockerInv, CopyFacts, CopiesWhole
<1> QED
  BY <1>1, DockerInvariant, PTL
=============================================================================
