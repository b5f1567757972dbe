-------------------------- MODULE SSHManagerProofs --------------------------
(***************************************************************************)
(* Proofs about SSHManager, for any number of ids, sessions, transports    *)
(* and tool calls.                                                         *)
(*                                                                         *)
(* LockInv says what the mutexes protect and holds whatever clients do;    *)
(* with it ClosedHoldsNothing is inductive.  SlotInv says that whoever     *)
(* dials for a session finds its client slot empty and is alone in doing   *)
(* so; it needs callers that do not reconnect a session whose ssh_connect  *)
(* has not returned (~EarlyReconnect), because Connect dials without       *)
(* reconnectMu.  MapInv says that a session in use is in the map or in the *)
(* hands of a close(); it also needs callers that do not reuse an id whose *)
(* ssh_connect has not returned (~EarlyReuse), because a failed dial       *)
(* deletes whatever entry the id has.  StatusInv says that the state       *)
(* follows the client, except between clearClient and markState.           *)
(***************************************************************************)
EXTENDS SSHManager, TLAPS

-----------------------------------------------------------------------------
(* Type correctness                                                         *)

\* The daemon starts with no session, no transport and no call.
LEMMA TypeOKInit == Init => TypeOK
<1> SUFFICES ASSUME Init PROVE TypeOK
  OBVIOUS
<1>1. DataOK
  BY ConstantsAssumption DEF Init, DataOK, Actors
<1>2. LocalsOK
  BY ConstantsAssumption
  DEF Init, LocalsOK, Actors, HandlerPoints, MainPoints, KeepalivePoints, ClosePoints
<1> QED  BY <1>1, <1>2 DEF TypeOK

\* CloneSession connects with a Spec that some ssh_connect brought.
LEMMA CloneSpec ==
  ASSUME TypeOK, NEW src \in Ids, sessions[src] # None
  PROVE  spec[sessions[src]] \in Specs
  BY DEF TypeOK, DataOK

\* StartKeepalive is the one step that moves two goroutines: its own and the
\* keepalive it starts.
LEMMA StartKeepaliveLocals ==
  ASSUME TypeOK, NEW h \in Handlers, StartKeepalive(h)
  PROVE  /\ hs[h] \in Sessions /\ hs[h] # h /\ ~closed[hs[h]]
         /\ \A x \in Actors : pc'[x] = IF x = hs[h] THEN "tick"
                                       ELSE IF x = h THEN "idle" ELSE pc[x]
         /\ \A x \in Actors : hs'[x] = IF x = h THEN None ELSE hs[x]
<1> USE ConstantsAssumption DEF TypeOK, DataOK, LocalsOK, Actors
<1>1. hs[h] \in Sessions /\ h \in Actors /\ hs[h] # h /\ ~closed[hs[h]]
  BY DEF StartKeepalive, StartsKeepalive, At
<1>2. \A x \in Actors : pc'[x] = IF x = hs[h] THEN "tick" ELSE IF x = h THEN "idle" ELSE pc[x]
  BY <1>1 DEF StartKeepalive
<1>3. \A x \in Actors : hs'[x] = IF x = h THEN None ELSE hs[x]
  BY <1>1 DEF StartKeepalive
<1> QED  BY <1>1, <1>2, <1>3

\* One step per action: it keeps the shared state and the locals typed.
LEMMA TypeOKNext == TypeOK /\ [Next]_vars => TypeOK'
<1> SUFFICES ASSUME TypeOK, [Next]_vars PROVE TypeOK'
  OBVIOUS
<1> USE ConstantsAssumption
    DEF TypeOK, DataOK, LocalsOK, Actors, HandlerPoints, MainPoints, KeepalivePoints,
        ConnectPoints, ClosePoints, ReconnectPoints, sessionVars, At, Goto, Return
<1>1. ASSUME NEW h \in Handlers, NEW id \in Ids, NEW sp \in Specs, ConnectBegin(h, id, sp)
      PROVE  TypeOK'
  BY <1>1 DEF ConnectBegin, FreshSession
<1>2. ASSUME NEW h \in Handlers, NEW id \in Ids, Disconnect(h, id)
      PROVE  TypeOK'
  BY <1>2 DEF Disconnect
<1>3. ASSUME NEW h \in Handlers, NEW id \in Ids, ReconnectBegin(h, id)
      PROVE  TypeOK'
  BY <1>3 DEF ReconnectBegin
<1>4. ASSUME NEW h \in Handlers, NEW id \in Ids, SftpBegin(h, id)
      PROVE  TypeOK'
  BY <1>4 DEF SftpBegin
<1>5. ASSUME NEW h \in Handlers, ReconnectLock(h)
      PROVE  TypeOK'
  BY <1>5 DEF ReconnectLock
<1>6. ASSUME NEW a \in Handlers \cup Sessions, DialOk(a)
      PROVE  TypeOK'
  BY <1>6 DEF DialOk, FreshClient
<1>7. ASSUME NEW s \in Sessions, KeepaliveStop(s)
      PROVE  TypeOK'
  BY <1>7 DEF KeepaliveStop
<1>8. ASSUME CloseAllBegin
      PROVE  TypeOK'
  BY <1>8 DEF CloseAllBegin
<1>9. ASSUME NEW id \in Ids, CloseAllNext(id)
      PROVE  TypeOK'
  BY <1>9 DEF CloseAllNext
<1>10. ASSUME CloseAllEnd
      PROVE  TypeOK'
  BY <1>10 DEF CloseAllEnd
<1>11. ASSUME NEW c \in Clients, Drop(c)
      PROVE  TypeOK'
  BY <1>11 DEF Drop
<1>12. ASSUME NEW c \in Clients, Hang(c)
      PROVE  TypeOK'
  BY <1>12 DEF Hang
<1>13. ASSUME NEW c \in Clients, HangResolved(c)
      PROVE  TypeOK'
  BY <1>13 DEF HangResolved
<1>14. ASSUME Exited
      PROVE  TypeOK'
  BY <1>14 DEF Exited, vars
<1>15. ASSUME UNCHANGED vars
      PROVE  TypeOK'
  BY <1>15 DEF vars
<1>16. ASSUME NEW h \in Handlers, HandlerStep(h)
      PROVE  TypeOK'
  <2>1. CASE ConnectDialFail(h)
    BY <2>1 DEF ConnectDialFail
  <2>2. CASE ConnectInstalled(h)
    BY <2>2 DEF ConnectInstalled, SetClientInstalled
  <2>3. CASE ConnectRefused(h)
    BY <2>3 DEF ConnectRefused, SetClientRefused, CloseTransport
  <2>4. CASE ConnectCleanup(h)
    BY <2>4 DEF ConnectCleanup
  <2>5. CASE AgentUnavailable(h)
    BY <2>5 DEF AgentUnavailable
  <2>6. CASE EnableAgentForwarding(h)
    BY <2>6 DEF EnableAgentForwarding
  <2>7. CASE ForwardToAgent(h)
    BY <2>7 DEF ForwardToAgent
  <2>8. CASE ForwardToAgentFails(h)
    BY <2>8 DEF ForwardToAgentFails
  <2>9. CASE MarkAgentError(h)
    BY <2>9 DEF MarkAgentError
  <2>10. CASE StartKeepalive(h)
    <3>1. DataOK'
      BY <2>10 DEF TypeOK, StartKeepalive
    <3>2. pc' \in [Actors -> HandlerPoints \cup MainPoints \cup KeepalivePoints]
      BY <2>10, StartKeepaliveLocals DEF TypeOK, StartKeepalive
    <3>3. /\ hid' \in [Actors -> Ids \cup {None}]
          /\ hs' \in [Actors -> Sessions \cup {None}]
          /\ hc' \in [Actors -> Clients \cup {None}]
      BY <2>10 DEF TypeOK, StartKeepalive
    <3>4. ASSUME NEW g \in Handlers
          PROVE  pc'[g] \in HandlerPoints /\ (pc'[g] # "idle" => hs'[g] \in Sessions)
      BY <2>10, StartKeepaliveLocals DEF TypeOK
    <3>5. pc'[Main] \in MainPoints /\ (pc'[Main] \in ClosePoints => hs'[Main] \in Sessions)
      BY <2>10, StartKeepaliveLocals DEF TypeOK
    <3>6. ASSUME NEW s \in Sessions
          PROVE  pc'[s] \in KeepalivePoints /\ hs'[s] = s
      BY <2>10, StartKeepaliveLocals DEF TypeOK
    <3> QED  BY <3>1, <3>2, <3>3, <3>4, <3>5, <3>6 DEF TypeOK
  <2>11. CASE NoKeepalive(h)
    BY <2>11 DEF NoKeepalive
  <2>12. CASE ReconnectDialFail(h)
    BY <2>12 DEF ReconnectDialFail, ReconnectUnlock
  <2>13. CASE SftpReturns(h)
    BY <2>13 DEF SftpReturns
  <2>14. CASE SftpLock(h)
    BY <2>14 DEF SftpLock
  <2>15. CASE SftpNew(h)
    BY <2>15 DEF SftpNew, SftpUnlock
  <2>16. CASE SftpNewFails(h)
    BY <2>16 DEF SftpNewFails, SftpUnlock
  <2> HIDE ConstantsAssumption DEF TypeOK, DataOK, LocalsOK, Actors, HandlerPoints, MainPoints,
     KeepalivePoints, ConnectPoints, ClosePoints, ReconnectPoints, sessionVars, At, Goto, Return
  <2> QED
    BY <1>16, <2>1, <2>2, <2>3, <2>4, <2>5, <2>6, <2>7, <2>8, <2>9, <2>10, <2>11,
       <2>12, <2>13, <2>14, <2>15, <2>16 DEF HandlerStep
<1>17. ASSUME NEW a \in Handlers \cup {Main}, CloseStep(a)
      PROVE  TypeOK'
  <2>1. CASE CloseWon(a)
    BY <2>1 DEF CloseWon
  <2>2. CASE CloseLost(a)
    <3>1. DataOK'
      BY <2>2 DEF TypeOK, CloseLost, CloseReturn
    <3>2. LocalsOK'
      BY <2>2 DEF TypeOK, CloseLost, CloseReturn
    <3> QED  BY <3>1, <3>2 DEF TypeOK
  <2>3. CASE CloseCancel(a)
    BY <2>3 DEF CloseCancel
  <2>4. CASE CloseDrain(a)
    BY <2>4 DEF CloseDrain
  <2>5. CASE CloseDetach(a)
    BY <2>5 DEF CloseDetach, ClearClient, CloseTransport
  <2>6. CASE CloseMark(a)
    <3>1. DataOK'
      BY <2>6 DEF TypeOK, CloseMark, CloseReturn
    <3>2. LocalsOK'
      BY <2>6 DEF TypeOK, CloseMark, CloseReturn
    <3> QED  BY <3>1, <3>2 DEF TypeOK
  <2> HIDE ConstantsAssumption DEF TypeOK, DataOK, LocalsOK, Actors, HandlerPoints, MainPoints,
     KeepalivePoints, ConnectPoints, ClosePoints, ReconnectPoints, sessionVars, At, Goto, Return
  <2> QED
    BY <1>17, <2>1, <2>2, <2>3, <2>4, <2>5, <2>6 DEF CloseStep, CloseCas
<1>18. ASSUME NEW a \in Handlers \cup Sessions, ReconnectStep(a)
      PROVE  TypeOK'
  <2>1. CASE ReconnectClear(a)
    BY <2>1 DEF ReconnectClear, ClearClient, CloseTransport
  <2>2. CASE ReconnectMark(a)
    BY <2>2 DEF ReconnectMark
  <2>3. CASE ReconnectInstalled(a)
    BY <2>3 DEF ReconnectInstalled, SetClientInstalled
  <2>4. CASE ReconnectRefused(a)
    BY <2>4 DEF ReconnectRefused, SetClientRefused, CloseTransport,
       ReconnectUnlock
  <2>5. CASE ReconnectEnd(a)
    BY <2>5 DEF ReconnectEnd, ReconnectUnlock
  <2> HIDE ConstantsAssumption DEF TypeOK, DataOK, LocalsOK, Actors, HandlerPoints, MainPoints,
     KeepalivePoints, ConnectPoints, ClosePoints, ReconnectPoints, sessionVars, At, Goto, Return
  <2> QED
    BY <1>18, <2>1, <2>2, <2>3, <2>4, <2>5 DEF ReconnectStep
<1>19. ASSUME NEW s \in Sessions, KeepaliveStep(s)
      PROVE  TypeOK'
  <2>1. CASE KeepaliveTick(s)
    BY <2>1 DEF KeepaliveTick
  <2>2. CASE KeepaliveOk(s)
    BY <2>2 DEF KeepaliveOk
  <2>3. CASE KeepaliveMarks(s)
    BY <2>3 DEF KeepaliveMarks, RequestFailed
  <2>4. CASE AttemptReconnect(s)
    BY <2>4 DEF AttemptReconnect, NoticesDrop, RequestFailed
  <2>5. CASE AttemptSkipped(s)
    BY <2>5 DEF AttemptSkipped, NoticesDrop, RequestFailed
  <2>6. CASE KeepaliveRetry(s)
    BY <2>6 DEF KeepaliveRetry
  <2>7. CASE KeepaliveGivesUp(s)
    BY <2>7 DEF KeepaliveGivesUp, ReconnectUnlock
  <2>8. CASE KeepaliveDialFail(s)
    BY <2>8 DEF KeepaliveDialFail
  <2> HIDE ConstantsAssumption DEF TypeOK, DataOK, LocalsOK, Actors, HandlerPoints, MainPoints,
     KeepalivePoints, ConnectPoints, ClosePoints, ReconnectPoints, sessionVars, At, Goto, Return
  <2> QED
    BY <1>19, <2>1, <2>2, <2>3, <2>4, <2>5, <2>6, <2>7, <2>8 DEF KeepaliveStep
<1> HIDE ConstantsAssumption DEF TypeOK, DataOK, LocalsOK, Actors, HandlerPoints, MainPoints,
     KeepalivePoints, ConnectPoints, ClosePoints, ReconnectPoints, sessionVars, At, Goto, Return
<1>20. ASSUME NEW h \in Handlers, HandlerNext(h)
      PROVE  TypeOK'
  BY <1>20, CloneSpec, <1>1, <1>2, <1>3, <1>4, <1>5, <1>6, <1>16, <1>17, <1>18
  DEF HandlerNext, Request, CloneBegin
<1>21. ASSUME NEW s \in Sessions, KeepaliveNext(s)
      PROVE  TypeOK'
  BY <1>21, <1>6, <1>7, <1>18, <1>19
  DEF KeepaliveNext
<1>22. ASSUME MainNext
      PROVE  TypeOK'
  BY <1>22, <1>8, <1>9, <1>10, <1>17 DEF MainNext
<1>23. ASSUME NetworkNext
      PROVE  TypeOK'
  BY <1>23, <1>11, <1>12, <1>13 DEF NetworkNext
<1> QED
  BY <1>20, <1>21, <1>22, <1>23, <1>14, <1>15 DEF Next

\* Every call that has begun has its session, every variable its type.
THEOREM TypeCorrect == Spec => []TypeOK
  BY TypeOKInit, TypeOKNext, PTL DEF Spec

-----------------------------------------------------------------------------
(* A closed session holds nothing                                           *)

\* dialFinal has returned a transport to whoever is about to install it.
DialedInv ==
  \A a \in Handlers \cup Sessions :
    pc[a] \in {"install", "rinstall"} => hc[a] \in Clients

\* sftp.NewClient runs under sftpMu, which keeps clearClient from taking the
\* session's transport away.
SftpMuInv ==
  \A h \in Handlers :
    pc[h] = "sftpnew" => smu[hs[h]] = h /\ client[hs[h]] # None

\* close() works on a session that it has marked closed, and has cancelled
\* the keepalive before it detaches the client.
CloseInv ==
  \A a \in Handlers \cup {Main} :
    /\ pc[a] \in {"cancel", "drain", "detach", "markdis"} => closed[hs[a]]
    /\ pc[a] \in {"drain", "detach", "markdis"} => ctx[hs[a]] # "live"

\* A reconnect under way holds reconnectMu.
ReconnectMuInv ==
  \A a \in Handlers \cup Sessions :
    pc[a] \in ReconnectPoints \cup {"loop"} => rmu[hs[a]] = a

\* The four of them together: who holds what while a call is under way.
LockInv == DialedInv /\ SftpMuInv /\ CloseInv /\ ReconnectMuInv

\* Every action keeps the ownership facts.
LEMMA LockNext ==
  ASSUME TypeOK, TypeOK', LockInv, [Next]_vars
  PROVE  LockInv'
<1> USE ConstantsAssumption
    DEF TypeOK, DataOK, LocalsOK, Actors, HandlerPoints, MainPoints, KeepalivePoints,
        ConnectPoints, ClosePoints, ReconnectPoints, sessionVars, At, Goto, Return,
        LockInv, DialedInv, SftpMuInv, CloseInv, ReconnectMuInv
<1>1. ASSUME NEW h \in Handlers, NEW id \in Ids, NEW sp \in Specs, ConnectBegin(h, id, sp)
      PROVE  LockInv'
  BY <1>1 DEF ConnectBegin, FreshSession
<1>2. ASSUME NEW h \in Handlers, NEW id \in Ids, Disconnect(h, id)
      PROVE  LockInv'
  BY <1>2 DEF Disconnect
<1>3. ASSUME NEW h \in Handlers, NEW id \in Ids, ReconnectBegin(h, id)
      PROVE  LockInv'
  BY <1>3 DEF ReconnectBegin
<1>4. ASSUME NEW h \in Handlers, NEW id \in Ids, SftpBegin(h, id)
      PROVE  LockInv'
  BY <1>4 DEF SftpBegin
<1>5. ASSUME NEW h \in Handlers, ReconnectLock(h)
      PROVE  LockInv'
  BY <1>5 DEF ReconnectLock
<1>6. ASSUME NEW a \in Handlers \cup Sessions, DialOk(a)
      PROVE  LockInv'
  BY <1>6 DEF DialOk, FreshClient
<1>7. ASSUME NEW s \in Sessions, KeepaliveStop(s)
      PROVE  LockInv'
  BY <1>7 DEF KeepaliveStop
<1>8. ASSUME CloseAllBegin
      PROVE  LockInv'
  BY <1>8 DEF CloseAllBegin
<1>9. ASSUME NEW id \in Ids, CloseAllNext(id)
      PROVE  LockInv'
  BY <1>9 DEF CloseAllNext
<1>10. ASSUME CloseAllEnd
      PROVE  LockInv'
  BY <1>10 DEF CloseAllEnd
<1>11. ASSUME NEW c \in Clients, Drop(c)
      PROVE  LockInv'
  BY <1>11 DEF Drop
<1>12. ASSUME NEW c \in Clients, Hang(c)
      PROVE  LockInv'
  BY <1>12 DEF Hang
<1>13. ASSUME NEW c \in Clients, HangResolved(c)
      PROVE  LockInv'
  BY <1>13 DEF HangResolved
<1>14. ASSUME Exited
      PROVE  LockInv'
  BY <1>14 DEF Exited, vars
<1>15. ASSUME UNCHANGED vars
      PROVE  LockInv'
  BY <1>15 DEF vars
<1>16. ASSUME NEW h \in Handlers, HandlerStep(h)
      PROVE  LockInv'
  <2>1. CASE ConnectDialFail(h)
    BY <2>1 DEF ConnectDialFail
  <2>2. CASE ConnectInstalled(h)
    BY <2>2 DEF ConnectInstalled, SetClientInstalled
  <2>3. CASE ConnectRefused(h)
    BY <2>3 DEF ConnectRefused, SetClientRefused, CloseTransport
  <2>4. CASE ConnectCleanup(h)
    BY <2>4 DEF ConnectCleanup
  <2>5. CASE AgentUnavailable(h)
    BY <2>5 DEF AgentUnavailable
  <2>6. CASE EnableAgentForwarding(h)
    BY <2>6 DEF EnableAgentForwarding
  <2>7. CASE ForwardToAgent(h)
    BY <2>7 DEF ForwardToAgent
  <2>8. CASE ForwardToAgentFails(h)
    BY <2>8 DEF ForwardToAgentFails
  <2>9. CASE MarkAgentError(h)
    BY <2>9 DEF MarkAgentError
  <2>10. CASE StartKeepalive(h)
    BY <2>10 DEF StartKeepalive, StartsKeepalive
  <2>11. CASE NoKeepalive(h)
    BY <2>11 DEF NoKeepalive
  <2>12. CASE ReconnectDialFail(h)
    BY <2>12 DEF ReconnectDialFail, ReconnectUnlock
  <2>13. CASE SftpReturns(h)
    BY <2>13 DEF SftpReturns
  <2>14. CASE SftpLock(h)
    BY <2>14 DEF SftpLock
  <2>15. CASE SftpNew(h)
    BY <2>15 DEF SftpNew, SftpUnlock
  <2>16. CASE SftpNewFails(h)
    BY <2>16 DEF SftpNewFails, SftpUnlock
  <2> HIDE ConstantsAssumption DEF TypeOK, DataOK, LocalsOK, Actors, HandlerPoints, MainPoints,
     KeepalivePoints, ConnectPoints, ClosePoints, ReconnectPoints, sessionVars, At, Goto, Return,
     LockInv, DialedInv, SftpMuInv, CloseInv, ReconnectMuInv
  <2> QED
    BY <1>16, <2>1, <2>2, <2>3, <2>4, <2>5, <2>6, <2>7, <2>8, <2>9, <2>10, <2>11,
       <2>12, <2>13, <2>14, <2>15, <2>16 DEF HandlerStep
<1>17. ASSUME NEW a \in Handlers \cup {Main}, CloseStep(a)
      PROVE  LockInv'
  <2>1. CASE CloseWon(a)
    BY <2>1 DEF CloseWon
  <2>2. CASE CloseLost(a)
    BY <2>2 DEF CloseLost, CloseReturn
  <2>3. CASE CloseCancel(a)
    BY <2>3 DEF CloseCancel
  <2>4. CASE CloseDrain(a)
    BY <2>4 DEF CloseDrain
  <2>5. CASE CloseDetach(a)
    BY <2>5 DEF CloseDetach, ClearClient, CloseTransport
  <2>6. CASE CloseMark(a)
    BY <2>6 DEF CloseMark, CloseReturn
  <2> HIDE ConstantsAssumption DEF TypeOK, DataOK, LocalsOK, Actors, HandlerPoints, MainPoints,
     KeepalivePoints, ConnectPoints, ClosePoints, ReconnectPoints, sessionVars, At, Goto, Return,
     LockInv, DialedInv, SftpMuInv, CloseInv, ReconnectMuInv
  <2> QED
    BY <1>17, <2>1, <2>2, <2>3, <2>4, <2>5, <2>6 DEF CloseStep, CloseCas
<1>18. ASSUME NEW a \in Handlers \cup Sessions, ReconnectStep(a)
      PROVE  LockInv'
  <2>1. CASE ReconnectClear(a)
    BY <2>1 DEF ReconnectClear, ClearClient, CloseTransport
  <2>2. CASE ReconnectMark(a)
    BY <2>2 DEF ReconnectMark
  <2>3. CASE ReconnectInstalled(a)
    BY <2>3 DEF ReconnectInstalled, SetClientInstalled
  <2>4. CASE ReconnectRefused(a)
    BY <2>4 DEF ReconnectRefused, SetClientRefused, CloseTransport,
       ReconnectUnlock
  <2>5. CASE ReconnectEnd(a)
    BY <2>5 DEF ReconnectEnd, ReconnectUnlock
  <2> HIDE ConstantsAssumption DEF TypeOK, DataOK, LocalsOK, Actors, HandlerPoints, MainPoints,
     KeepalivePoints, ConnectPoints, ClosePoints, ReconnectPoints, sessionVars, At, Goto, Return,
     LockInv, DialedInv, SftpMuInv, CloseInv, ReconnectMuInv
  <2> QED
    BY <1>18, <2>1, <2>2, <2>3, <2>4, <2>5 DEF ReconnectStep
<1>19. ASSUME NEW s \in Sessions, KeepaliveStep(s)
      PROVE  LockInv'
  <2>1. CASE KeepaliveTick(s)
    BY <2>1 DEF KeepaliveTick
  <2>2. CASE KeepaliveOk(s)
    BY <2>2 DEF KeepaliveOk
  <2>3. CASE KeepaliveMarks(s)
    BY <2>3 DEF KeepaliveMarks, RequestFailed
  <2>4. CASE AttemptReconnect(s)
    BY <2>4 DEF AttemptReconnect, NoticesDrop, RequestFailed
  <2>5. CASE AttemptSkipped(s)
    BY <2>5 DEF AttemptSkipped, NoticesDrop, RequestFailed
  <2>6. CASE KeepaliveRetry(s)
    BY <2>6 DEF KeepaliveRetry
  <2>7. CASE KeepaliveGivesUp(s)
    BY <2>7 DEF KeepaliveGivesUp, ReconnectUnlock
  <2>8. CASE KeepaliveDialFail(s)
    BY <2>8 DEF KeepaliveDialFail
  <2> HIDE ConstantsAssumption DEF TypeOK, DataOK, LocalsOK, Actors, HandlerPoints, MainPoints,
     KeepalivePoints, ConnectPoints, ClosePoints, ReconnectPoints, sessionVars, At, Goto, Return,
     LockInv, DialedInv, SftpMuInv, CloseInv, ReconnectMuInv
  <2> QED
    BY <1>19, <2>1, <2>2, <2>3, <2>4, <2>5, <2>6, <2>7, <2>8 DEF KeepaliveStep
<1> HIDE ConstantsAssumption DEF TypeOK, DataOK, LocalsOK, Actors, HandlerPoints, MainPoints,
     KeepalivePoints, ConnectPoints, ClosePoints, ReconnectPoints, sessionVars, At, Goto, Return,
     LockInv, DialedInv, SftpMuInv, CloseInv, ReconnectMuInv
<1>20. ASSUME NEW h \in Handlers, HandlerNext(h)
      PROVE  LockInv'
  BY <1>20, CloneSpec, <1>1, <1>2, <1>3, <1>4, <1>5, <1>6, <1>16, <1>17, <1>18
  DEF HandlerNext, Request, CloneBegin
<1>21. ASSUME NEW s \in Sessions, KeepaliveNext(s)
      PROVE  LockInv'
  BY <1>21, <1>6, <1>7, <1>18, <1>19
  DEF KeepaliveNext
<1>22. ASSUME MainNext
      PROVE  LockInv'
  BY <1>22, <1>8, <1>9, <1>10, <1>17 DEF MainNext
<1>23. ASSUME NetworkNext
      PROVE  LockInv'
  BY <1>23, <1>11, <1>12, <1>13 DEF NetworkNext
<1> QED
  BY <1>20, <1>21, <1>22, <1>23, <1>14, <1>15 DEF Next

\* The inductive step for ClosedHoldsNothing: setClient and startKeepalive
\* see closed, clearClient waits for the SFTP client under construction.
LEMMA ClosedNext ==
  ASSUME TypeOK, TypeOK', LockInv, ClosedHoldsNothing, [Next]_vars
  PROVE  ClosedHoldsNothing'
<1> USE ConstantsAssumption
    DEF TypeOK, DataOK, LocalsOK, Actors, HandlerPoints, MainPoints, KeepalivePoints,
        ConnectPoints, ClosePoints, ReconnectPoints, sessionVars, At, Goto, Return,
        LockInv, CloseInv, SftpMuInv, ClosedHoldsNothing, Closing
<1>1. ASSUME NEW h \in Handlers, NEW id \in Ids, NEW sp \in Specs, ConnectBegin(h, id, sp)
      PROVE  ClosedHoldsNothing'
  BY <1>1, SMTT(40) DEF ConnectBegin, FreshSession
<1>2. ASSUME NEW h \in Handlers, NEW id \in Ids, Disconnect(h, id)
      PROVE  ClosedHoldsNothing'
  BY <1>2, SMTT(40) DEF Disconnect
<1>3. ASSUME NEW h \in Handlers, NEW id \in Ids, ReconnectBegin(h, id)
      PROVE  ClosedHoldsNothing'
  BY <1>3 DEF ReconnectBegin
<1>4. ASSUME NEW h \in Handlers, NEW id \in Ids, SftpBegin(h, id)
      PROVE  ClosedHoldsNothing'
  BY <1>4, SMTT(40) DEF SftpBegin
<1>5. ASSUME NEW h \in Handlers, ReconnectLock(h)
      PROVE  ClosedHoldsNothing'
  BY <1>5 DEF ReconnectLock
<1>6. ASSUME NEW a \in Handlers \cup Sessions, DialOk(a)
      PROVE  ClosedHoldsNothing'
  BY <1>6, SMTT(30) DEF DialOk, FreshClient
<1>7. ASSUME NEW s \in Sessions, KeepaliveStop(s)
      PROVE  ClosedHoldsNothing'
  BY <1>7 DEF KeepaliveStop
<1>8. ASSUME CloseAllBegin
      PROVE  ClosedHoldsNothing'
  BY <1>8 DEF CloseAllBegin
<1>9. ASSUME NEW id \in Ids, CloseAllNext(id)
      PROVE  ClosedHoldsNothing'
  BY <1>9 DEF CloseAllNext
<1>10. ASSUME CloseAllEnd
      PROVE  ClosedHoldsNothing'
  BY <1>10 DEF CloseAllEnd
<1>11. ASSUME NEW c \in Clients, Drop(c)
      PROVE  ClosedHoldsNothing'
  BY <1>11 DEF Drop
<1>12. ASSUME NEW c \in Clients, Hang(c)
      PROVE  ClosedHoldsNothing'
  BY <1>12 DEF Hang
<1>13. ASSUME NEW c \in Clients, HangResolved(c)
      PROVE  ClosedHoldsNothing'
  BY <1>13 DEF HangResolved
<1>14. ASSUME Exited
      PROVE  ClosedHoldsNothing'
  BY <1>14 DEF Exited, vars
<1>15. ASSUME UNCHANGED vars
      PROVE  ClosedHoldsNothing'
  BY <1>15 DEF vars
<1>16. ASSUME NEW h \in Handlers, HandlerStep(h)
      PROVE  ClosedHoldsNothing'
  <2>1. CASE ConnectDialFail(h)
    BY <2>1 DEF ConnectDialFail
  <2>2. CASE ConnectInstalled(h)
    BY <2>2 DEF ConnectInstalled, SetClientInstalled
  <2>3. CASE ConnectRefused(h)
    BY <2>3 DEF ConnectRefused, SetClientRefused, CloseTransport
  <2>4. CASE ConnectCleanup(h)
    BY <2>4 DEF ConnectCleanup
  <2>5. CASE AgentUnavailable(h)
    BY <2>5 DEF AgentUnavailable
  <2>6. CASE EnableAgentForwarding(h)
    BY <2>6, SMTT(40) DEF EnableAgentForwarding
  <2>7. CASE ForwardToAgent(h)
    BY <2>7 DEF ForwardToAgent
  <2>8. CASE ForwardToAgentFails(h)
    BY <2>8, SMTT(40) DEF ForwardToAgentFails
  <2>9. CASE MarkAgentError(h)
    BY <2>9 DEF MarkAgentError
  <2>10. CASE StartKeepalive(h)
    <3> SUFFICES ASSUME NEW s \in Sessions, closed'[s],
                        \A a \in Handlers \cup {Main} :
                          ~(hs'[a] = s /\ pc'[a] \in {"cancel", "drain", "detach"})
                 PROVE  /\ client'[s] = None /\ sftp'[s] = None
                        /\ agent'[s] # "on" /\ ctx'[s] # "live"
      OBVIOUS
    <3>0. closed[s]
      BY <2>10 DEF StartKeepalive
    <3>1. s # hs[h]
      BY <2>10, <3>0, StartKeepaliveLocals
    <3>2. ASSUME NEW a \in Handlers \cup {Main}, hs[a] = s, pc[a] \in {"cancel", "drain", "detach"}
          PROVE  FALSE
      <4>1. a # h
        BY <2>10, <3>2 DEF StartKeepalive
      <4>2. a # hs[h] /\ a \in Actors
        BY <2>10, StartKeepaliveLocals
      <4>3. pc'[a] = pc[a] /\ hs'[a] = hs[a]
        BY <2>10, <4>1, <4>2, StartKeepaliveLocals
      <4> QED  BY <3>2, <4>3
    <3>3. ctx'[s] = ctx[s]
      BY <2>10, <3>1 DEF StartKeepalive
    <3>4. /\ client[s] = None /\ sftp[s] = None
          /\ agent[s] # "on" /\ ctx[s] # "live"
      BY <3>0, <3>2
    <3> QED  BY <2>10, <3>3, <3>4 DEF StartKeepalive
  <2>11. CASE NoKeepalive(h)
    BY <2>11 DEF NoKeepalive
  <2>12. CASE ReconnectDialFail(h)
    BY <2>12 DEF ReconnectDialFail, ReconnectUnlock
  <2>13. CASE SftpReturns(h)
    BY <2>13 DEF SftpReturns
  <2>14. CASE SftpLock(h)
    BY <2>14 DEF SftpLock
  <2>15. CASE SftpNew(h)
    BY <2>15, SMTT(30) DEF SftpNew, SftpUnlock
  <2>16. CASE SftpNewFails(h)
    BY <2>16 DEF SftpNewFails, SftpUnlock
  <2> HIDE ConstantsAssumption DEF TypeOK, DataOK, LocalsOK, Actors, HandlerPoints, MainPoints,
     KeepalivePoints, ConnectPoints, ClosePoints, ReconnectPoints, sessionVars, At, Goto, Return,
     LockInv, CloseInv, SftpMuInv, ClosedHoldsNothing, Closing
  <2> QED
    BY <1>16, <2>1, <2>2, <2>3, <2>4, <2>5, <2>6, <2>7, <2>8, <2>9, <2>10, <2>11,
       <2>12, <2>13, <2>14, <2>15, <2>16 DEF HandlerStep
<1>17. ASSUME NEW a \in Handlers \cup {Main}, CloseStep(a)
      PROVE  ClosedHoldsNothing'
  <2>1. CASE CloseWon(a)
    BY <2>1 DEF CloseWon
  <2>2. CASE CloseLost(a)
    BY <2>2 DEF CloseLost, CloseReturn
  <2>3. CASE CloseCancel(a)
    BY <2>3 DEF CloseCancel
  <2>4. CASE CloseDrain(a)
    BY <2>4 DEF CloseDrain
  <2>5. CASE CloseDetach(a)
    BY <2>5 DEF CloseDetach, ClearClient, CloseTransport
  <2>6. CASE CloseMark(a)
    BY <2>6 DEF CloseMark, CloseReturn
  <2> HIDE ConstantsAssumption DEF TypeOK, DataOK, LocalsOK, Actors, HandlerPoints, MainPoints,
     KeepalivePoints, ConnectPoints, ClosePoints, ReconnectPoints, sessionVars, At, Goto, Return,
     LockInv, CloseInv, SftpMuInv, ClosedHoldsNothing, Closing
  <2> QED
    BY <1>17, <2>1, <2>2, <2>3, <2>4, <2>5, <2>6 DEF CloseStep, CloseCas
<1>18. ASSUME NEW a \in Handlers \cup Sessions, ReconnectStep(a)
      PROVE  ClosedHoldsNothing'
  <2>1. CASE ReconnectClear(a)
    BY <2>1, SMTT(40) DEF ReconnectClear, ClearClient, CloseTransport
  <2>2. CASE ReconnectMark(a)
    BY <2>2 DEF ReconnectMark
  <2>3. CASE ReconnectInstalled(a)
    BY <2>3 DEF ReconnectInstalled, SetClientInstalled
  <2>4. CASE ReconnectRefused(a)
    BY <2>4 DEF ReconnectRefused, SetClientRefused, CloseTransport,
       ReconnectUnlock
  <2>5. CASE ReconnectEnd(a)
    BY <2>5 DEF ReconnectEnd, ReconnectUnlock
  <2> HIDE ConstantsAssumption DEF TypeOK, DataOK, LocalsOK, Actors, HandlerPoints, MainPoints,
     KeepalivePoints, ConnectPoints, ClosePoints, ReconnectPoints, sessionVars, At, Goto, Return,
     LockInv, CloseInv, SftpMuInv, ClosedHoldsNothing, Closing
  <2> QED
    BY <1>18, <2>1, <2>2, <2>3, <2>4, <2>5 DEF ReconnectStep
<1>19. ASSUME NEW s \in Sessions, KeepaliveStep(s)
      PROVE  ClosedHoldsNothing'
  <2>1. CASE KeepaliveTick(s)
    BY <2>1 DEF KeepaliveTick
  <2>2. CASE KeepaliveOk(s)
    BY <2>2 DEF KeepaliveOk
  <2>3. CASE KeepaliveMarks(s)
    BY <2>3, SMTT(40) DEF KeepaliveMarks, RequestFailed
  <2>4. CASE AttemptReconnect(s)
    BY <2>4, SMTT(30) DEF AttemptReconnect, NoticesDrop, RequestFailed
  <2>5. CASE AttemptSkipped(s)
    BY <2>5 DEF AttemptSkipped, NoticesDrop, RequestFailed
  <2>6. CASE KeepaliveRetry(s)
    BY <2>6 DEF KeepaliveRetry
  <2>7. CASE KeepaliveGivesUp(s)
    BY <2>7 DEF KeepaliveGivesUp, ReconnectUnlock
  <2>8. CASE KeepaliveDialFail(s)
    BY <2>8 DEF KeepaliveDialFail
  <2> HIDE ConstantsAssumption DEF TypeOK, DataOK, LocalsOK, Actors, HandlerPoints, MainPoints,
     KeepalivePoints, ConnectPoints, ClosePoints, ReconnectPoints, sessionVars, At, Goto, Return,
     LockInv, CloseInv, SftpMuInv, ClosedHoldsNothing, Closing
  <2> QED
    BY <1>19, <2>1, <2>2, <2>3, <2>4, <2>5, <2>6, <2>7, <2>8 DEF KeepaliveStep
<1> HIDE ConstantsAssumption DEF TypeOK, DataOK, LocalsOK, Actors, HandlerPoints, MainPoints,
     KeepalivePoints, ConnectPoints, ClosePoints, ReconnectPoints, sessionVars, At, Goto, Return,
     LockInv, CloseInv, SftpMuInv, ClosedHoldsNothing, Closing
<1>20. ASSUME NEW h \in Handlers, HandlerNext(h)
      PROVE  ClosedHoldsNothing'
  BY <1>20, CloneSpec, <1>1, <1>2, <1>3, <1>4, <1>5, <1>6, <1>16, <1>17, <1>18
  DEF HandlerNext, Request, CloneBegin
<1>21. ASSUME NEW s \in Sessions, KeepaliveNext(s)
      PROVE  ClosedHoldsNothing'
  BY <1>21, <1>6, <1>7, <1>18, <1>19
  DEF KeepaliveNext
<1>22. ASSUME MainNext
      PROVE  ClosedHoldsNothing'
  BY <1>22, <1>8, <1>9, <1>10, <1>17 DEF MainNext
<1>23. ASSUME NetworkNext
      PROVE  ClosedHoldsNothing'
  BY <1>23, <1>11, <1>12, <1>13 DEF NetworkNext
<1> QED
  BY <1>20, <1>21, <1>22, <1>23, <1>14, <1>15 DEF Next

\* There is no session at the start.
LEMMA ClosedInit == Init => LockInv /\ ClosedHoldsNothing
  BY ConstantsAssumption
  DEF Init, LockInv, DialedInv, SftpMuInv, CloseInv, ReconnectMuInv, ClosedHoldsNothing,
      Actors, ReconnectPoints

\* Once close() has detached it, a session never has a transport, an SFTP
\* client, an agent connection or a keepalive context again, whatever calls
\* were under way.
THEOREM ClosedStaysEmpty == Spec => []ClosedHoldsNothing
<1>1. TypeOK /\ TypeOK' /\ LockInv /\ ClosedHoldsNothing /\ [Next]_vars
        => LockInv' /\ ClosedHoldsNothing'
  BY LockNext, ClosedNext
<1> QED  BY TypeCorrect, ClosedInit, <1>1, PTL DEF Spec

-----------------------------------------------------------------------------
(* The client slot                                                          *)

\* Nobody else connects or reconnects a session that is in ssh_connect.
ConnectAloneInv ==
  \A h \in Handlers :
    pc[h] \in ConnectPoints =>
      /\ pc[hs[h]] = "off"
      /\ \A g \in Handlers :
           g # h /\ hs[g] = hs[h] => pc[g] \notin ConnectPoints \cup ReconnectPoints \cup {"rlock"}

\* Between an emptied slot and the install that fills it.
DialPoints == {"dial", "install", "rmark", "rdial", "rinstall", "loop"}

\* Whoever dials for a session finds it without a client.
EmptySlotInv ==
  \A a \in Handlers \cup Sessions : pc[a] \in DialPoints => client[hs[a]] = None

\* The transport sftp.NewClient runs on is still the session's.
SftpClientInv == \A h \in Handlers : pc[h] = "sftpnew" => hc[h] = client[hs[h]]

\* What makes the client slot empty whenever something is installed in it.
SlotInv == ConnectAloneInv /\ EmptySlotInv /\ SftpClientInv /\ SftpRidesClient

\* The action of NeverOverwrites.
NoOverwriteStep ==
  \A s \in Sessions : client'[s] # client[s] => client[s] = None \/ client'[s] = None

\* Every action keeps SlotInv, and none replaces one transport by another.
LEMMA SlotNext ==
  ASSUME ~EarlyReconnect, TypeOK, TypeOK', LockInv, SlotInv, [Next]_vars
  PROVE  SlotInv' /\ NoOverwriteStep
<1> USE ConstantsAssumption
    DEF TypeOK, DataOK, LocalsOK, Actors, HandlerPoints, MainPoints, KeepalivePoints,
        ConnectPoints, ClosePoints, ReconnectPoints, sessionVars, At, Goto, Return,
        LockInv, DialedInv, SftpMuInv, ReconnectMuInv, ConnectAloneInv, SlotInv,
        DialPoints, EmptySlotInv, SftpClientInv, SftpRidesClient, NoOverwriteStep
<1>1. ASSUME NEW h \in Handlers, NEW id \in Ids, NEW sp \in Specs, ConnectBegin(h, id, sp)
      PROVE  SlotInv' /\ NoOverwriteStep
  BY <1>1 DEF ConnectBegin, FreshSession
<1>2. ASSUME NEW h \in Handlers, NEW id \in Ids, Disconnect(h, id)
      PROVE  SlotInv' /\ NoOverwriteStep
  BY <1>2 DEF Disconnect
<1>3. ASSUME NEW h \in Handlers, NEW id \in Ids, ReconnectBegin(h, id)
      PROVE  SlotInv' /\ NoOverwriteStep
  BY <1>3 DEF ReconnectBegin
<1>4. ASSUME NEW h \in Handlers, NEW id \in Ids, SftpBegin(h, id)
      PROVE  SlotInv' /\ NoOverwriteStep
  BY <1>4 DEF SftpBegin
<1>5. ASSUME NEW h \in Handlers, ReconnectLock(h)
      PROVE  SlotInv' /\ NoOverwriteStep
  BY <1>5 DEF ReconnectLock
<1>6. ASSUME NEW a \in Handlers \cup Sessions, DialOk(a)
      PROVE  SlotInv' /\ NoOverwriteStep
  BY <1>6 DEF DialOk, FreshClient
<1>7. ASSUME NEW s \in Sessions, KeepaliveStop(s)
      PROVE  SlotInv' /\ NoOverwriteStep
  BY <1>7 DEF KeepaliveStop
<1>8. ASSUME CloseAllBegin
      PROVE  SlotInv' /\ NoOverwriteStep
  BY <1>8 DEF CloseAllBegin
<1>9. ASSUME NEW id \in Ids, CloseAllNext(id)
      PROVE  SlotInv' /\ NoOverwriteStep
  BY <1>9 DEF CloseAllNext
<1>10. ASSUME CloseAllEnd
      PROVE  SlotInv' /\ NoOverwriteStep
  BY <1>10 DEF CloseAllEnd
<1>11. ASSUME NEW c \in Clients, Drop(c)
      PROVE  SlotInv' /\ NoOverwriteStep
  BY <1>11 DEF Drop
<1>12. ASSUME NEW c \in Clients, Hang(c)
      PROVE  SlotInv' /\ NoOverwriteStep
  BY <1>12 DEF Hang
<1>13. ASSUME NEW c \in Clients, HangResolved(c)
      PROVE  SlotInv' /\ NoOverwriteStep
  BY <1>13 DEF HangResolved
<1>14. ASSUME Exited
      PROVE  SlotInv' /\ NoOverwriteStep
  BY <1>14 DEF Exited, vars
<1>15. ASSUME UNCHANGED vars
      PROVE  SlotInv' /\ NoOverwriteStep
  BY <1>15 DEF vars
<1>16. ASSUME NEW h \in Handlers, HandlerStep(h)
      PROVE  SlotInv' /\ NoOverwriteStep
  <2>1. CASE ConnectDialFail(h)
    BY <2>1 DEF ConnectDialFail
  <2>2. CASE ConnectInstalled(h)
    <3>1. client[hs[h]] = None /\ hs[h] \in Sessions
      BY <2>2 DEF ConnectInstalled
    <3>2. EmptySlotInv'
      <4> SUFFICES ASSUME NEW x \in Handlers \cup Sessions, pc'[x] \in DialPoints
                   PROVE  client'[hs'[x]] = None
        OBVIOUS
      <4>1. x # h /\ pc'[x] = pc[x] /\ hs'[x] = hs[x]
        BY <2>2 DEF ConnectInstalled
      <4>2. hs[x] # hs[h]
        <5>1. pc[h] \in ConnectPoints /\ pc[x] \in ConnectPoints \cup ReconnectPoints \cup {"loop"}
          BY <2>2, <4>1 DEF ConnectInstalled
        <5>2. CASE x \in Handlers
          BY <4>1, <5>1, <5>2
        <5>3. CASE x \in Sessions
          BY <4>1, <5>1, <5>3
        <5> QED  BY <5>2, <5>3
      <4>3. client[hs[x]] = None
        BY <4>1
      <4> QED  BY <2>2, <4>1, <4>2, <4>3 DEF ConnectInstalled, SetClientInstalled
    <3>3. ConnectAloneInv'
      BY <2>2 DEF ConnectInstalled
    <3>4. SftpClientInv' /\ SftpRidesClient'
      BY <2>2, <3>1 DEF ConnectInstalled, SetClientInstalled
    <3>5. NoOverwriteStep
      BY <2>2, <3>1 DEF ConnectInstalled, SetClientInstalled
    <3> QED  BY <3>2, <3>3, <3>4, <3>5
  <2>3. CASE ConnectRefused(h)
    BY <2>3 DEF ConnectRefused, SetClientRefused, CloseTransport
  <2>4. CASE ConnectCleanup(h)
    BY <2>4 DEF ConnectCleanup
  <2>5. CASE AgentUnavailable(h)
    BY <2>5 DEF AgentUnavailable
  <2>6. CASE EnableAgentForwarding(h)
    BY <2>6 DEF EnableAgentForwarding
  <2>7. CASE ForwardToAgent(h)
    BY <2>7 DEF ForwardToAgent
  <2>8. CASE ForwardToAgentFails(h)
    BY <2>8 DEF ForwardToAgentFails
  <2>9. CASE MarkAgentError(h)
    BY <2>9 DEF MarkAgentError
  <2>10. CASE StartKeepalive(h)
    BY <2>10 DEF StartKeepalive, StartsKeepalive
  <2>11. CASE NoKeepalive(h)
    BY <2>11 DEF NoKeepalive
  <2>12. CASE ReconnectDialFail(h)
    BY <2>12 DEF ReconnectDialFail, ReconnectUnlock
  <2>13. CASE SftpReturns(h)
    BY <2>13 DEF SftpReturns
  <2>14. CASE SftpLock(h)
    BY <2>14 DEF SftpLock
  <2>15. CASE SftpNew(h)
    BY <2>15 DEF SftpNew, SftpUnlock
  <2>16. CASE SftpNewFails(h)
    BY <2>16 DEF SftpNewFails, SftpUnlock
  <2> HIDE ConstantsAssumption DEF TypeOK, DataOK, LocalsOK, Actors, HandlerPoints, MainPoints,
     KeepalivePoints, ConnectPoints, ClosePoints, ReconnectPoints, sessionVars, At, Goto, Return,
     LockInv, DialedInv, SftpMuInv, ReconnectMuInv, ConnectAloneInv, SlotInv,
        DialPoints, EmptySlotInv, SftpClientInv, SftpRidesClient, NoOverwriteStep
  <2> QED
    BY <1>16, <2>1, <2>2, <2>3, <2>4, <2>5, <2>6, <2>7, <2>8, <2>9, <2>10, <2>11,
       <2>12, <2>13, <2>14, <2>15, <2>16 DEF HandlerStep
<1>17. ASSUME NEW a \in Handlers \cup {Main}, CloseStep(a)
      PROVE  SlotInv' /\ NoOverwriteStep
  <2>1. CASE CloseWon(a)
    BY <2>1 DEF CloseWon
  <2>2. CASE CloseLost(a)
    BY <2>2 DEF CloseLost, CloseReturn
  <2>3. CASE CloseCancel(a)
    BY <2>3 DEF CloseCancel
  <2>4. CASE CloseDrain(a)
    BY <2>4 DEF CloseDrain
  <2>5. CASE CloseDetach(a)
    BY <2>5 DEF CloseDetach, ClearClient, CloseTransport
  <2>6. CASE CloseMark(a)
    BY <2>6 DEF CloseMark, CloseReturn
  <2> HIDE ConstantsAssumption DEF TypeOK, DataOK, LocalsOK, Actors, HandlerPoints, MainPoints,
     KeepalivePoints, ConnectPoints, ClosePoints, ReconnectPoints, sessionVars, At, Goto, Return,
     LockInv, DialedInv, SftpMuInv, ReconnectMuInv, ConnectAloneInv, SlotInv,
        DialPoints, EmptySlotInv, SftpClientInv, SftpRidesClient, NoOverwriteStep
  <2> QED
    BY <1>17, <2>1, <2>2, <2>3, <2>4, <2>5, <2>6 DEF CloseStep, CloseCas
<1>18. ASSUME NEW a \in Handlers \cup Sessions, ReconnectStep(a)
      PROVE  SlotInv' /\ NoOverwriteStep
  <2>1. CASE ReconnectClear(a)
    BY <2>1 DEF ReconnectClear, ClearClient, CloseTransport
  <2>2. CASE ReconnectMark(a)
    BY <2>2 DEF ReconnectMark
  <2>3. CASE ReconnectInstalled(a)
    <3>1. client[hs[a]] = None /\ hs[a] \in Sessions
      BY <2>3 DEF ReconnectInstalled
    <3>2. EmptySlotInv'
      <4> SUFFICES ASSUME NEW x \in Handlers \cup Sessions, pc'[x] \in DialPoints
                   PROVE  client'[hs'[x]] = None
        OBVIOUS
      <4>1. x # a /\ pc'[x] = pc[x] /\ hs'[x] = hs[x]
        BY <2>3 DEF ReconnectInstalled
      <4>2. hs[x] # hs[a]
        <5>1. pc[a] \in ReconnectPoints /\ rmu[hs[a]] = a
          BY <2>3 DEF ReconnectInstalled
        <5>2. CASE pc[x] \in {"dial", "install"}
          <6>1. x \in Handlers /\ pc[hs[x]] = "off"
            BY <5>2
          <6>2. CASE a \in Handlers
            BY <4>1, <5>1, <5>2, <6>1, <6>2
          <6>3. CASE a \in Sessions
            BY <4>1, <5>1, <6>1, <6>3
          <6> QED  BY <6>2, <6>3
        <5>3. CASE pc[x] \notin {"dial", "install"}
          <6>1. rmu[hs[x]] = x
            BY <4>1, <5>3
          <6> QED  BY <4>1, <5>1, <6>1
        <5> QED  BY <5>2, <5>3
      <4>3. client[hs[x]] = None
        BY <4>1
      <4> QED  BY <2>3, <4>1, <4>2, <4>3 DEF ReconnectInstalled, SetClientInstalled
    <3>3. ConnectAloneInv'
      BY <2>3 DEF ReconnectInstalled
    <3>4. SftpClientInv' /\ SftpRidesClient'
      BY <2>3, <3>1 DEF ReconnectInstalled, SetClientInstalled
    <3>5. NoOverwriteStep
      BY <2>3, <3>1 DEF ReconnectInstalled, SetClientInstalled
    <3> QED  BY <3>2, <3>3, <3>4, <3>5
  <2>4. CASE ReconnectRefused(a)
    BY <2>4 DEF ReconnectRefused, SetClientRefused, CloseTransport,
       ReconnectUnlock
  <2>5. CASE ReconnectEnd(a)
    BY <2>5 DEF ReconnectEnd, ReconnectUnlock
  <2> HIDE ConstantsAssumption DEF TypeOK, DataOK, LocalsOK, Actors, HandlerPoints, MainPoints,
     KeepalivePoints, ConnectPoints, ClosePoints, ReconnectPoints, sessionVars, At, Goto, Return,
     LockInv, DialedInv, SftpMuInv, ReconnectMuInv, ConnectAloneInv, SlotInv,
        DialPoints, EmptySlotInv, SftpClientInv, SftpRidesClient, NoOverwriteStep
  <2> QED
    BY <1>18, <2>1, <2>2, <2>3, <2>4, <2>5 DEF ReconnectStep
<1>19. ASSUME NEW s \in Sessions, KeepaliveStep(s)
      PROVE  SlotInv' /\ NoOverwriteStep
  <2>1. CASE KeepaliveTick(s)
    BY <2>1 DEF KeepaliveTick
  <2>2. CASE KeepaliveOk(s)
    BY <2>2 DEF KeepaliveOk
  <2>3. CASE KeepaliveMarks(s)
    BY <2>3 DEF KeepaliveMarks, RequestFailed
  <2>4. CASE AttemptReconnect(s)
    BY <2>4 DEF AttemptReconnect, NoticesDrop, RequestFailed
  <2>5. CASE AttemptSkipped(s)
    BY <2>5 DEF AttemptSkipped, NoticesDrop, RequestFailed
  <2>6. CASE KeepaliveRetry(s)
    BY <2>6 DEF KeepaliveRetry
  <2>7. CASE KeepaliveGivesUp(s)
    BY <2>7 DEF KeepaliveGivesUp, ReconnectUnlock
  <2>8. CASE KeepaliveDialFail(s)
    BY <2>8 DEF KeepaliveDialFail
  <2> HIDE ConstantsAssumption DEF TypeOK, DataOK, LocalsOK, Actors, HandlerPoints, MainPoints,
     KeepalivePoints, ConnectPoints, ClosePoints, ReconnectPoints, sessionVars, At, Goto, Return,
     LockInv, DialedInv, SftpMuInv, ReconnectMuInv, ConnectAloneInv, SlotInv,
        DialPoints, EmptySlotInv, SftpClientInv, SftpRidesClient, NoOverwriteStep
  <2> QED
    BY <1>19, <2>1, <2>2, <2>3, <2>4, <2>5, <2>6, <2>7, <2>8 DEF KeepaliveStep
<1> HIDE ConstantsAssumption DEF TypeOK, DataOK, LocalsOK, Actors, HandlerPoints, MainPoints,
     KeepalivePoints, ConnectPoints, ClosePoints, ReconnectPoints, sessionVars, At, Goto, Return,
     LockInv, DialedInv, SftpMuInv, ReconnectMuInv, ConnectAloneInv, SlotInv,
        DialPoints, EmptySlotInv, SftpClientInv, SftpRidesClient, NoOverwriteStep
<1>20. ASSUME NEW h \in Handlers, HandlerNext(h)
      PROVE  SlotInv' /\ NoOverwriteStep
  BY <1>20, CloneSpec, <1>1, <1>2, <1>3, <1>4, <1>5, <1>6, <1>16, <1>17, <1>18
  DEF HandlerNext, Request, CloneBegin
<1>21. ASSUME NEW s \in Sessions, KeepaliveNext(s)
      PROVE  SlotInv' /\ NoOverwriteStep
  BY <1>21, <1>6, <1>7, <1>18, <1>19
  DEF KeepaliveNext
<1>22. ASSUME MainNext
      PROVE  SlotInv' /\ NoOverwriteStep
  BY <1>22, <1>8, <1>9, <1>10, <1>17 DEF MainNext
<1>23. ASSUME NetworkNext
      PROVE  SlotInv' /\ NoOverwriteStep
  BY <1>23, <1>11, <1>12, <1>13 DEF NetworkNext
<1> QED
  BY <1>20, <1>21, <1>22, <1>23, <1>14, <1>15 DEF Next

\* There is no session at the start.
LEMMA SlotInit == Init => LockInv /\ SlotInv
  BY ConstantsAssumption
  DEF Init, LockInv, DialedInv, SftpMuInv, CloseInv, ReconnectMuInv, SlotInv,
      ConnectAloneInv, EmptySlotInv, SftpClientInv, SftpRidesClient, DialPoints,
      Actors, ConnectPoints, ReconnectPoints

\* If no session is reconnected before its ssh_connect has returned, no
\* transport is ever installed over another one.
THEOREM ClientNeverOverwritten ==
  ASSUME ~EarlyReconnect
  PROVE  Spec => NeverOverwrites
<1>1. TypeOK /\ TypeOK' /\ LockInv /\ SlotInv /\ [Next]_vars
        => LockInv' /\ SlotInv' /\ NoOverwriteStep
  BY LockNext, SlotNext
<1>2. NoOverwriteStep =>
        [\A s \in Sessions : client'[s] # client[s] => client[s] = None \/ client'[s] = None]_vars
  BY DEF NoOverwriteStep
<1> QED  BY TypeCorrect, SlotInit, <1>1, <1>2, PTL DEF Spec, NeverOverwrites

\* Under the same discipline the SFTP client of a session rides on the
\* transport the session has.
THEOREM SftpFollowsClient ==
  ASSUME ~EarlyReconnect
  PROVE  Spec => []SftpRidesClient
<1>1. TypeOK /\ TypeOK' /\ LockInv /\ SlotInv /\ [Next]_vars => LockInv' /\ SlotInv'
  BY LockNext, SlotNext
<1>2. SlotInv => SftpRidesClient
  BY DEF SlotInv
<1> QED  BY TypeCorrect, SlotInit, <1>1, <1>2, PTL DEF Spec

-----------------------------------------------------------------------------
(* No transport is leaked                                                   *)

\* a is about to install what dialFinal gave it.
Dialed(a) == pc[a] \in {"install", "rinstall"}

\* Somebody answers for transport c.
Owned(c) ==
  \/ \E s \in Sessions : client[s] = c
  \/ \E a \in Actors : hc[a] = c /\ Dialed(a)

\* A step that installs, detaches, closes or dials nothing leaks nothing.
LEMMA NoLeakFrame ==
  ASSUME NoLeakedTransport,
         client' = client,
         \A c \in Clients : net'[c] \in {"open", "hung"} => net[c] \in {"open", "hung"},
         \A a \in Actors : Dialed(a) => Dialed(a)' /\ hc'[a] = hc[a]
  PROVE  NoLeakedTransport'
  BY DEF NoLeakedTransport, Dialed

\* The inductive step for NoLeakedTransport: what is detached is closed, what
\* is installed finds an empty slot, what is refused is closed.
LEMMA NoLeakNext ==
  ASSUME TypeOK, TypeOK', LockInv, SlotInv, NoLeakedTransport, [Next]_vars
  PROVE  NoLeakedTransport'
<1> USE ConstantsAssumption
    DEF TypeOK, DataOK, LocalsOK, Actors, HandlerPoints, MainPoints, KeepalivePoints,
        ConnectPoints, ClosePoints, ReconnectPoints, sessionVars, At, Goto, Return,
        LockInv, DialedInv, SlotInv, ConnectAloneInv, DialPoints,
        EmptySlotInv, NoLeakedTransport, Dialed, Owned
<1>1. ASSUME NEW h \in Handlers, NEW id \in Ids, NEW sp \in Specs, ConnectBegin(h, id, sp)
      PROVE  NoLeakedTransport'
  BY <1>1, NoLeakFrame DEF ConnectBegin, FreshSession
<1>2. ASSUME NEW h \in Handlers, NEW id \in Ids, Disconnect(h, id)
      PROVE  NoLeakedTransport'
  BY <1>2, NoLeakFrame DEF Disconnect
<1>3. ASSUME NEW h \in Handlers, NEW id \in Ids, ReconnectBegin(h, id)
      PROVE  NoLeakedTransport'
  BY <1>3, NoLeakFrame DEF ReconnectBegin
<1>4. ASSUME NEW h \in Handlers, NEW id \in Ids, SftpBegin(h, id)
      PROVE  NoLeakedTransport'
  BY <1>4, NoLeakFrame DEF SftpBegin
<1>5. ASSUME NEW h \in Handlers, ReconnectLock(h)
      PROVE  NoLeakedTransport'
  BY <1>5, NoLeakFrame DEF ReconnectLock
<1>6. ASSUME NEW a \in Handlers \cup Sessions, DialOk(a)
      PROVE  NoLeakedTransport'
  <2> SUFFICES ASSUME NEW c \in Clients, net'[c] \in {"open", "hung"} PROVE Owned(c)'
    OBVIOUS
  <2>1. PICK d \in Clients : net' = [net EXCEPT ![d] = "open"] /\ hc' = [hc EXCEPT ![a] = d]
    BY <1>6 DEF DialOk
  <2>2. Dialed(a)' /\ client' = client
    BY <1>6 DEF DialOk
  <2>3. CASE c = d
    BY <2>1, <2>2, <2>3
  <2>4. CASE c # d
    <3>0. net[c] = net'[c]
      BY <2>1, <2>4
    <3>1. Owned(c)
      BY <3>0
    <3>2. ASSUME NEW x \in Actors, Dialed(x), hc[x] = c PROVE Owned(c)'
      <4>1. x # a
        BY <1>6, <3>2 DEF DialOk
      <4>2. Dialed(x)' /\ hc'[x] = c
        BY <1>6, <2>1, <3>2, <4>1 DEF DialOk
      <4> QED  BY <4>2
    <3> QED  BY <2>2, <3>1, <3>2
  <2> QED  BY <2>3, <2>4
<1>7. ASSUME NEW s \in Sessions, KeepaliveStop(s)
      PROVE  NoLeakedTransport'
  BY <1>7, NoLeakFrame DEF KeepaliveStop
<1>8. ASSUME CloseAllBegin
      PROVE  NoLeakedTransport'
  BY <1>8, NoLeakFrame DEF CloseAllBegin
<1>9. ASSUME NEW id \in Ids, CloseAllNext(id)
      PROVE  NoLeakedTransport'
  BY <1>9, NoLeakFrame DEF CloseAllNext
<1>10. ASSUME CloseAllEnd
      PROVE  NoLeakedTransport'
  BY <1>10, NoLeakFrame DEF CloseAllEnd
<1>11. ASSUME NEW c \in Clients, Drop(c)
      PROVE  NoLeakedTransport'
  BY <1>11, NoLeakFrame DEF Drop
<1>12. ASSUME NEW c \in Clients, Hang(c)
      PROVE  NoLeakedTransport'
  BY <1>12, NoLeakFrame DEF Hang
<1>13. ASSUME NEW c \in Clients, HangResolved(c)
      PROVE  NoLeakedTransport'
  BY <1>13, NoLeakFrame DEF HangResolved
<1>14. ASSUME Exited
      PROVE  NoLeakedTransport'
  BY <1>14, NoLeakFrame DEF Exited, vars
<1>15. ASSUME UNCHANGED vars
      PROVE  NoLeakedTransport'
  BY <1>15, NoLeakFrame DEF vars
<1>16. ASSUME NEW h \in Handlers, HandlerStep(h)
      PROVE  NoLeakedTransport'
  <2>1. CASE ConnectDialFail(h)
    BY <2>1, NoLeakFrame DEF ConnectDialFail
  <2>2. CASE ConnectInstalled(h)
    <3> SUFFICES ASSUME NEW c \in Clients, net'[c] \in {"open", "hung"} PROVE Owned(c)'
      OBVIOUS
    <3>1. hs[h] \in Sessions /\ client[hs[h]] = None /\ client'[hs[h]] = hc[h]
      BY <2>2 DEF ConnectInstalled, SetClientInstalled
    <3>2. CASE c = hc[h]
      BY <3>1, <3>2
    <3>3. ASSUME NEW s \in Sessions, client[s] = c PROVE Owned(c)'
      <4>1. client'[s] = c
        BY <2>2, <3>1, <3>3 DEF ConnectInstalled, SetClientInstalled
      <4> QED  BY <4>1
    <3>4. ASSUME NEW x \in Actors, c # hc[h], Dialed(x), hc[x] = c PROVE Owned(c)'
      <4>1. x # h
        BY <3>4
      <4>2. Dialed(x)' /\ hc'[x] = c
        BY <2>2, <3>4, <4>1 DEF ConnectInstalled
      <4> QED  BY <4>2
    <3>5. Owned(c)
      BY <2>2 DEF ConnectInstalled, SetClientInstalled
    <3> QED  BY <3>2, <3>3, <3>4, <3>5
  <2>3. CASE ConnectRefused(h)
    <3> SUFFICES ASSUME NEW c \in Clients, net'[c] \in {"open", "hung"} PROVE Owned(c)'
      OBVIOUS
    <3>1. c # hc[h] /\ Owned(c) /\ client' = client
      BY <2>3 DEF ConnectRefused, SetClientRefused, CloseTransport
    <3>2. ASSUME NEW x \in Actors, Dialed(x), hc[x] = c PROVE Owned(c)'
      <4>1. x # h
        BY <3>1, <3>2
      <4>2. Dialed(x)' /\ hc'[x] = c
        BY <2>3, <3>2, <4>1 DEF ConnectRefused
      <4> QED  BY <4>2
    <3> QED  BY <3>1, <3>2
  <2>4. CASE ConnectCleanup(h)
    BY <2>4, NoLeakFrame DEF ConnectCleanup
  <2>5. CASE AgentUnavailable(h)
    BY <2>5, NoLeakFrame DEF AgentUnavailable
  <2>6. CASE EnableAgentForwarding(h)
    BY <2>6, NoLeakFrame DEF EnableAgentForwarding
  <2>7. CASE ForwardToAgent(h)
    BY <2>7, NoLeakFrame DEF ForwardToAgent
  <2>8. CASE ForwardToAgentFails(h)
    BY <2>8, NoLeakFrame DEF ForwardToAgentFails
  <2>9. CASE MarkAgentError(h)
    BY <2>9, NoLeakFrame DEF MarkAgentError
  <2>10. CASE StartKeepalive(h)
    <3>1. ASSUME NEW x \in Actors, Dialed(x) PROVE Dialed(x)' /\ hc'[x] = hc[x]
      <4>1. pc[h] = "startka" /\ pc[hs[h]] = "off" /\ hc' = hc
        BY <2>10, StartKeepaliveLocals DEF StartKeepalive
      <4>2. x # h /\ x # hs[h]
        BY <3>1, <4>1
      <4>3. pc'[x] = pc[x]
        BY <2>10, <4>2, StartKeepaliveLocals
      <4> QED  BY <3>1, <4>1, <4>3
    <3> QED  BY <2>10, <3>1, NoLeakFrame DEF StartKeepalive
  <2>11. CASE NoKeepalive(h)
    BY <2>11, NoLeakFrame DEF NoKeepalive
  <2>12. CASE ReconnectDialFail(h)
    BY <2>12, NoLeakFrame DEF ReconnectDialFail, ReconnectUnlock
  <2>13. CASE SftpReturns(h)
    BY <2>13, NoLeakFrame DEF SftpReturns
  <2>14. CASE SftpLock(h)
    BY <2>14, NoLeakFrame DEF SftpLock
  <2>15. CASE SftpNew(h)
    BY <2>15, NoLeakFrame DEF SftpNew, SftpUnlock
  <2>16. CASE SftpNewFails(h)
    BY <2>16, NoLeakFrame DEF SftpNewFails, SftpUnlock
  <2> HIDE ConstantsAssumption DEF TypeOK, DataOK, LocalsOK, Actors, HandlerPoints, MainPoints,
     KeepalivePoints, ConnectPoints, ClosePoints, ReconnectPoints, sessionVars, At, Goto, Return,
     LockInv, DialedInv, SlotInv, ConnectAloneInv, DialPoints,
        EmptySlotInv, NoLeakedTransport, Dialed, Owned
  <2> QED
    BY <1>16, <2>1, <2>2, <2>3, <2>4, <2>5, <2>6, <2>7, <2>8, <2>9, <2>10, <2>11,
       <2>12, <2>13, <2>14, <2>15, <2>16 DEF HandlerStep
<1>17. ASSUME NEW a \in Handlers \cup {Main}, CloseStep(a)
      PROVE  NoLeakedTransport'
  <2>1. CASE CloseWon(a)
    BY <2>1, NoLeakFrame DEF CloseWon
  <2>2. CASE CloseLost(a)
    BY <2>2, NoLeakFrame DEF CloseLost, CloseReturn
  <2>3. CASE CloseCancel(a)
    BY <2>3, NoLeakFrame DEF CloseCancel
  <2>4. CASE CloseDrain(a)
    BY <2>4, NoLeakFrame DEF CloseDrain
  <2>5. CASE CloseDetach(a)
    <3> SUFFICES ASSUME NEW c \in Clients, net'[c] \in {"open", "hung"} PROVE Owned(c)'
      OBVIOUS
    <3>1. c # client[hs[a]] /\ Owned(c)
      BY <2>5 DEF CloseDetach, ClearClient, CloseTransport
    <3>2. ASSUME NEW s \in Sessions, client[s] = c PROVE Owned(c)'
      <4>1. client'[s] = c
        BY <2>5, <3>1, <3>2 DEF CloseDetach, ClearClient
      <4> QED  BY <4>1
    <3>3. ASSUME NEW x \in Actors, Dialed(x), hc[x] = c PROVE Owned(c)'
      <4>1. Dialed(x)' /\ hc'[x] = c
        BY <2>5, <3>3 DEF CloseDetach
      <4> QED  BY <4>1
    <3> QED  BY <3>1, <3>2, <3>3
  <2>6. CASE CloseMark(a)
    BY <2>6, NoLeakFrame DEF CloseMark, CloseReturn
  <2> HIDE ConstantsAssumption DEF TypeOK, DataOK, LocalsOK, Actors, HandlerPoints, MainPoints,
     KeepalivePoints, ConnectPoints, ClosePoints, ReconnectPoints, sessionVars, At, Goto, Return,
     LockInv, DialedInv, SlotInv, ConnectAloneInv, DialPoints,
        EmptySlotInv, NoLeakedTransport, Dialed, Owned
  <2> QED
    BY <1>17, <2>1, <2>2, <2>3, <2>4, <2>5, <2>6 DEF CloseStep, CloseCas
<1>18. ASSUME NEW a \in Handlers \cup Sessions, ReconnectStep(a)
      PROVE  NoLeakedTransport'
  <2>1. CASE ReconnectClear(a)
    <3> SUFFICES ASSUME NEW c \in Clients, net'[c] \in {"open", "hung"} PROVE Owned(c)'
      OBVIOUS
    <3>1. c # client[hs[a]] /\ Owned(c)
      BY <2>1 DEF ReconnectClear, ClearClient, CloseTransport
    <3>2. ASSUME NEW s \in Sessions, client[s] = c PROVE Owned(c)'
      <4>1. client'[s] = c
        BY <2>1, <3>1, <3>2 DEF ReconnectClear, ClearClient
      <4> QED  BY <4>1
    <3>3. ASSUME NEW x \in Actors, Dialed(x), hc[x] = c PROVE Owned(c)'
      <4>1. Dialed(x)' /\ hc'[x] = c
        BY <2>1, <3>3 DEF ReconnectClear
      <4> QED  BY <4>1
    <3> QED  BY <3>1, <3>2, <3>3
  <2>2. CASE ReconnectMark(a)
    BY <2>2, NoLeakFrame DEF ReconnectMark
  <2>3. CASE ReconnectInstalled(a)
    <3> SUFFICES ASSUME NEW c \in Clients, net'[c] \in {"open", "hung"} PROVE Owned(c)'
      OBVIOUS
    <3>1. hs[a] \in Sessions /\ client[hs[a]] = None /\ client'[hs[a]] = hc[a]
      BY <2>3 DEF ReconnectInstalled, SetClientInstalled
    <3>2. CASE c = hc[a]
      BY <3>1, <3>2
    <3>3. ASSUME NEW s \in Sessions, client[s] = c PROVE Owned(c)'
      <4>1. client'[s] = c
        BY <2>3, <3>1, <3>3 DEF ReconnectInstalled, SetClientInstalled
      <4> QED  BY <4>1
    <3>4. ASSUME NEW x \in Actors, c # hc[a], Dialed(x), hc[x] = c PROVE Owned(c)'
      <4>1. x # a
        BY <3>4
      <4>2. Dialed(x)' /\ hc'[x] = c
        BY <2>3, <3>4, <4>1 DEF ReconnectInstalled
      <4> QED  BY <4>2
    <3>5. Owned(c)
      BY <2>3 DEF ReconnectInstalled, SetClientInstalled
    <3> QED  BY <3>2, <3>3, <3>4, <3>5
  <2>4. CASE ReconnectRefused(a)
    <3> SUFFICES ASSUME NEW c \in Clients, net'[c] \in {"open", "hung"} PROVE Owned(c)'
      OBVIOUS
    <3>1. c # hc[a] /\ Owned(c) /\ client' = client
      BY <2>4 DEF ReconnectRefused, SetClientRefused, CloseTransport
    <3>2. ASSUME NEW x \in Actors, Dialed(x), hc[x] = c PROVE Owned(c)'
      <4>1. x # a
        BY <3>1, <3>2
      <4>2. Dialed(x)' /\ hc'[x] = c
        BY <2>4, <3>2, <4>1 DEF ReconnectRefused
      <4> QED  BY <4>2
    <3> QED  BY <3>1, <3>2
  <2>5. CASE ReconnectEnd(a)
    BY <2>5, NoLeakFrame DEF ReconnectEnd, ReconnectUnlock
  <2> HIDE ConstantsAssumption DEF TypeOK, DataOK, LocalsOK, Actors, HandlerPoints, MainPoints,
     KeepalivePoints, ConnectPoints, ClosePoints, ReconnectPoints, sessionVars, At, Goto, Return,
     LockInv, DialedInv, SlotInv, ConnectAloneInv, DialPoints,
        EmptySlotInv, NoLeakedTransport, Dialed, Owned
  <2> QED
    BY <1>18, <2>1, <2>2, <2>3, <2>4, <2>5 DEF ReconnectStep
<1>19. ASSUME NEW s \in Sessions, KeepaliveStep(s)
      PROVE  NoLeakedTransport'
  <2>1. CASE KeepaliveTick(s)
    BY <2>1, NoLeakFrame DEF KeepaliveTick
  <2>2. CASE KeepaliveOk(s)
    BY <2>2, NoLeakFrame DEF KeepaliveOk
  <2>3. CASE KeepaliveMarks(s)
    BY <2>3, NoLeakFrame DEF KeepaliveMarks, RequestFailed
  <2>4. CASE AttemptReconnect(s)
    BY <2>4, NoLeakFrame DEF AttemptReconnect, NoticesDrop, RequestFailed
  <2>5. CASE AttemptSkipped(s)
    BY <2>5, NoLeakFrame DEF AttemptSkipped, NoticesDrop, RequestFailed
  <2>6. CASE KeepaliveRetry(s)
    BY <2>6, NoLeakFrame DEF KeepaliveRetry
  <2>7. CASE KeepaliveGivesUp(s)
    BY <2>7, NoLeakFrame DEF KeepaliveGivesUp, ReconnectUnlock
  <2>8. CASE KeepaliveDialFail(s)
    BY <2>8, NoLeakFrame DEF KeepaliveDialFail
  <2> HIDE ConstantsAssumption DEF TypeOK, DataOK, LocalsOK, Actors, HandlerPoints, MainPoints,
     KeepalivePoints, ConnectPoints, ClosePoints, ReconnectPoints, sessionVars, At, Goto, Return,
     LockInv, DialedInv, SlotInv, ConnectAloneInv, DialPoints,
        EmptySlotInv, NoLeakedTransport, Dialed, Owned
  <2> QED
    BY <1>19, <2>1, <2>2, <2>3, <2>4, <2>5, <2>6, <2>7, <2>8 DEF KeepaliveStep
<1> HIDE ConstantsAssumption DEF TypeOK, DataOK, LocalsOK, Actors, HandlerPoints, MainPoints,
     KeepalivePoints, ConnectPoints, ClosePoints, ReconnectPoints, sessionVars, At, Goto, Return,
     LockInv, DialedInv, SlotInv, ConnectAloneInv, DialPoints,
        EmptySlotInv, NoLeakedTransport, Dialed, Owned
<1>20. ASSUME NEW h \in Handlers, HandlerNext(h)
      PROVE  NoLeakedTransport'
  BY <1>20, CloneSpec, <1>1, <1>2, <1>3, <1>4, <1>5, <1>6, <1>16, <1>17, <1>18
  DEF HandlerNext, Request, CloneBegin
<1>21. ASSUME NEW s \in Sessions, KeepaliveNext(s)
      PROVE  NoLeakedTransport'
  BY <1>21, <1>6, <1>7, <1>18, <1>19
  DEF KeepaliveNext
<1>22. ASSUME MainNext
      PROVE  NoLeakedTransport'
  BY <1>22, <1>8, <1>9, <1>10, <1>17 DEF MainNext
<1>23. ASSUME NetworkNext
      PROVE  NoLeakedTransport'
  BY <1>23, <1>11, <1>12, <1>13 DEF NetworkNext
<1> QED
  BY <1>20, <1>21, <1>22, <1>23, <1>14, <1>15 DEF Next

\* Every transport is closed at the start.
LEMMA NoLeakInit == Init => NoLeakedTransport
  BY DEF Init, NoLeakedTransport

\* Under the same discipline every transport that is not closed is some
\* session's client or about to be installed.
THEOREM NothingLeaks ==
  ASSUME ~EarlyReconnect
  PROVE  Spec => []NoLeakedTransport
<1>1. TypeOK /\ TypeOK' /\ LockInv /\ SlotInv /\ NoLeakedTransport /\ [Next]_vars
        => LockInv' /\ SlotInv' /\ NoLeakedTransport'
  BY LockNext, SlotNext, NoLeakNext
<1> QED  BY TypeCorrect, SlotInit, NoLeakInit, <1>1, PTL DEF Spec

-----------------------------------------------------------------------------
(* A session with a transport can be disconnected                          *)

\* Connecting, reconnecting, or its keepalive runs: a transport may follow.
UsePoints ==
  ConnectPoints \cup ReconnectPoints \cup {"rlock", "loop", "tick", "request"}
InUse(s) ==
  client[s] # None \/ \E a \in Handlers \cup Sessions : hs[a] = s /\ pc[a] \in UsePoints

\* An id names the session, or a close() of it has begun.
Reached(s) ==
  \/ \E id \in Ids : sessions[id] = s
  \/ \E a \in Handlers \cup {Main} : hs[a] = s /\ pc[a] = "cas"

\* The strengthening: a session that may still get a transport counts too.
ReachInv == \A s \in Sessions : ~closed[s] /\ InUse(s) => Reached(s)

\* The entry that a failed ssh_connect deletes is its own or already gone.
EntryInv ==
  \A h \in Handlers :
    pc[h] \in ConnectPoints => hid[h] \in Ids /\ sessions[hid[h]] \in {hs[h], None}

\* The refused install saw a closed session.
CleanupInv == \A h \in Handlers : pc[h] = "cleanup" => closed[hs[h]]

\* CloseAll keeps the map to itself, and deletes the entry of what it closed.
CloseAllInv ==
  /\ pc[Main] \in ClosePoints \cup {"closeall"} => mmu = Main
  /\ pc[Main] \in ClosePoints => hid[Main] \in Ids /\ sessions[hid[Main]] = hs[Main]

\* What keeps the map of sessions complete.
MapInv == ReachInv /\ EntryInv /\ CleanupInv /\ CloseAllInv

\* A goroutine a moves and leaves the map as it is: it begins no connect and no
\* reconnect, a transport comes only to a session it works for, and it leaves
\* "cas" only with the session closed.
Moves(a) ==
  /\ \A x \in Actors : x # a => pc'[x] = pc[x] /\ hs'[x] = hs[x] /\ hid'[x] = hid[x]
  /\ UNCHANGED <<sessions, mmu>>
  /\ \A s \in Sessions : closed[s] => closed'[s]
  /\ \A s \in Sessions :
       client'[s] # None => client[s] # None \/ (a # Main /\ hs[a] = s /\ pc[a] \in UsePoints)
  /\ pc'[a] \in UsePoints => pc[a] \in UsePoints /\ hs'[a] = hs[a]
  /\ pc'[a] \in ConnectPoints => pc[a] \in ConnectPoints /\ hid'[a] = hid[a]
  /\ pc'[a] = "cleanup" => closed[hs[a]]
  /\ pc[a] = "cas" => closed'[hs[a]]
  /\ pc'[a] # "cas"
  /\ a = Main => /\ pc[a] \in ClosePoints /\ pc'[a] \in ClosePoints
                 /\ hs'[a] = hs[a] /\ hid'[a] = hid[a]

\* Such a step keeps the map complete.
LEMMA MovesKeepMap ==
  ASSUME TypeOK, TypeOK', MapInv, NEW a \in Actors, Moves(a)
  PROVE  MapInv'
<1>0. /\ Main \notin Handlers \cup Sessions /\ Handlers \cap Sessions = {} /\ Main \in Actors
      /\ Handlers \subseteq Actors /\ Sessions \subseteq Actors
      /\ Actors = Handlers \cup {Main} \cup Sessions
  BY ConstantsAssumption DEF Actors
<1>1. ReachInv'
  <2> SUFFICES ASSUME NEW s \in Sessions, ~closed'[s], InUse(s)'
               PROVE  Reached(s)'
    BY DEF ReachInv
  <2>1. ~closed[s]
    BY DEF Moves
  <2>2. InUse(s)
    <3>1. CASE client'[s] # None
      BY <1>0, <3>1 DEF Moves, InUse
    <3>2. CASE client'[s] = None
      <4>1. PICK x \in Handlers \cup Sessions : hs'[x] = s /\ pc'[x] \in UsePoints
        BY <3>2 DEF InUse
      <4>2. hs[x] = s /\ pc[x] \in UsePoints
        BY <1>0, <4>1 DEF Moves
      <4> QED  BY <4>2 DEF InUse
    <3> QED  BY <3>1, <3>2
  <2>3. Reached(s)
    BY <2>1, <2>2 DEF MapInv, ReachInv
  <2>4. CASE \E id \in Ids : sessions[id] = s
    BY <2>4 DEF Moves, Reached
  <2>5. CASE \E x \in Handlers \cup {Main} : hs[x] = s /\ pc[x] = "cas"
    <3>1. PICK x \in Handlers \cup {Main} : hs[x] = s /\ pc[x] = "cas"
      BY <2>5
    <3>2. x # a
      BY <3>1 DEF Moves
    <3>3. hs'[x] = s /\ pc'[x] = "cas"
      BY <1>0, <3>1, <3>2 DEF Moves
    <3> QED  BY <3>3 DEF Reached
  <2> QED  BY <2>3, <2>4, <2>5 DEF Reached
<1>2. EntryInv'
  <2> SUFFICES ASSUME NEW h \in Handlers, pc'[h] \in ConnectPoints
               PROVE  hid'[h] \in Ids /\ sessions'[hid'[h]] \in {hs'[h], None}
    BY DEF EntryInv
  <2>1. pc[h] \in ConnectPoints /\ hid'[h] = hid[h] /\ hs'[h] = hs[h]
    BY <1>0 DEF Moves, UsePoints
  <2> QED  BY <2>1 DEF Moves, MapInv, EntryInv
<1>3. CleanupInv'
  <2> SUFFICES ASSUME NEW h \in Handlers, pc'[h] = "cleanup"
               PROVE  closed'[hs'[h]]
    BY DEF CleanupInv
  <2>1. hs'[h] = hs[h] /\ closed[hs[h]]
    BY <1>0 DEF Moves, UsePoints, ConnectPoints, MapInv, CleanupInv
  <2>2. hs[h] \in Sessions
    BY <1>0, <2>1 DEF TypeOK, LocalsOK
  <2> QED  BY <2>1, <2>2 DEF Moves
<1>4. CloseAllInv'
  BY <1>0 DEF Moves, MapInv, CloseAllInv
<1> QED  BY <1>1, <1>2, <1>3, <1>4 DEF MapInv

\* The steps of a tool call that leave the map alone.
LEMMA HandlerMoves ==
  ASSUME TypeOK, TypeOK', LockInv, NEW h \in Handlers,
         \/ ReconnectLock(h) \/ DialOk(h) \/ ConnectInstalled(h) \/ ConnectRefused(h)
         \/ AgentUnavailable(h) \/ EnableAgentForwarding(h) \/ ForwardToAgent(h)
         \/ ForwardToAgentFails(h) \/ MarkAgentError(h) \/ NoKeepalive(h)
         \/ ReconnectDialFail(h) \/ SftpReturns(h) \/ SftpLock(h) \/ SftpNew(h)
         \/ SftpNewFails(h)
  PROVE  Moves(h)
<1> USE ConstantsAssumption
    DEF TypeOK, DataOK, LocalsOK, Actors, HandlerPoints, MainPoints, KeepalivePoints,
        ConnectPoints, ClosePoints, ReconnectPoints, sessionVars, At, Goto, Return,
        UsePoints, Moves
<1>1. CASE ReconnectLock(h)
  BY <1>1 DEF ReconnectLock
<1>2. CASE DialOk(h)
  BY <1>2 DEF DialOk, FreshClient
<1>3. CASE ConnectInstalled(h)
  BY <1>3 DEF ConnectInstalled, SetClientInstalled
<1>4. CASE ConnectRefused(h)
  BY <1>4 DEF ConnectRefused, SetClientRefused, CloseTransport
<1>5. CASE AgentUnavailable(h)
  BY <1>5 DEF AgentUnavailable
<1>6. CASE EnableAgentForwarding(h)
  BY <1>6 DEF EnableAgentForwarding
<1>7. CASE ForwardToAgent(h)
  BY <1>7 DEF ForwardToAgent
<1>8. CASE ForwardToAgentFails(h)
  BY <1>8 DEF ForwardToAgentFails
<1>9. CASE MarkAgentError(h)
  BY <1>9 DEF MarkAgentError
<1>10. CASE NoKeepalive(h)
  BY <1>10 DEF NoKeepalive
<1>11. CASE ReconnectDialFail(h)
  BY <1>11 DEF ReconnectDialFail, ReconnectUnlock
<1>12. CASE SftpReturns(h)
  BY <1>12 DEF SftpReturns
<1>13. CASE SftpLock(h)
  BY <1>13 DEF SftpLock
<1>14. CASE SftpNew(h)
  BY <1>14 DEF SftpNew, SftpUnlock
<1>15. CASE SftpNewFails(h)
  BY <1>15 DEF SftpNewFails, SftpUnlock
<1> HIDE ConstantsAssumption DEF TypeOK, DataOK, LocalsOK, Actors, HandlerPoints, MainPoints,
     KeepalivePoints, ConnectPoints, ClosePoints, ReconnectPoints, sessionVars, At, Goto, Return,
     UsePoints, Moves
<1> QED  BY <1>1, <1>2, <1>3, <1>4, <1>5, <1>6, <1>7, <1>8, <1>9, <1>10, <1>11, <1>12, <1>13, <1>14, <1>15

\* The steps of close() up to the detach.
LEMMA CloseMoves ==
  ASSUME TypeOK, TypeOK', LockInv, NEW a \in Handlers \cup {Main},
         \/ CloseWon(a) \/ CloseCancel(a) \/ CloseDrain(a) \/ CloseDetach(a)
  PROVE  Moves(a)
<1> USE ConstantsAssumption
    DEF TypeOK, DataOK, LocalsOK, Actors, HandlerPoints, MainPoints, KeepalivePoints,
        ConnectPoints, ClosePoints, ReconnectPoints, sessionVars, At, Goto, Return,
        UsePoints, Moves
<1>1. CASE CloseWon(a)
  BY <1>1 DEF CloseWon
<1>2. CASE CloseCancel(a)
  BY <1>2 DEF CloseCancel
<1>3. CASE CloseDrain(a)
  BY <1>3 DEF CloseDrain
<1>4. CASE CloseDetach(a)
  BY <1>4 DEF CloseDetach, ClearClient, CloseTransport
<1> HIDE ConstantsAssumption DEF TypeOK, DataOK, LocalsOK, Actors, HandlerPoints, MainPoints,
     KeepalivePoints, ConnectPoints, ClosePoints, ReconnectPoints, sessionVars, At, Goto, Return,
     UsePoints, Moves
<1> QED  BY <1>1, <1>2, <1>3, <1>4

\* The steps of a reconnect.
LEMMA ReconnectMoves ==
  ASSUME TypeOK, TypeOK', LockInv, NEW a \in Handlers \cup Sessions,
         \/ ReconnectClear(a) \/ ReconnectMark(a) \/ ReconnectInstalled(a)
         \/ ReconnectRefused(a) \/ ReconnectEnd(a)
  PROVE  Moves(a)
<1> USE ConstantsAssumption
    DEF TypeOK, DataOK, LocalsOK, Actors, HandlerPoints, MainPoints, KeepalivePoints,
        ConnectPoints, ClosePoints, ReconnectPoints, sessionVars, At, Goto, Return,
        UsePoints, Moves
<1>1. CASE ReconnectClear(a)
  BY <1>1 DEF ReconnectClear, ClearClient, CloseTransport
<1>2. CASE ReconnectMark(a)
  BY <1>2 DEF ReconnectMark
<1>3. CASE ReconnectInstalled(a)
  BY <1>3 DEF ReconnectInstalled, SetClientInstalled
<1>4. CASE ReconnectRefused(a)
  BY <1>4 DEF ReconnectRefused, SetClientRefused, CloseTransport, ReconnectUnlock
<1>5. CASE ReconnectEnd(a)
  BY <1>5 DEF ReconnectEnd, ReconnectUnlock
<1> HIDE ConstantsAssumption DEF TypeOK, DataOK, LocalsOK, Actors, HandlerPoints, MainPoints,
     KeepalivePoints, ConnectPoints, ClosePoints, ReconnectPoints, sessionVars, At, Goto, Return,
     UsePoints, Moves
<1> QED  BY <1>1, <1>2, <1>3, <1>4, <1>5

\* The other steps of a keepalive.
LEMMA KeepaliveMoves ==
  ASSUME TypeOK, TypeOK', LockInv, NEW s \in Sessions,
         \/ KeepaliveStop(s) \/ DialOk(s) \/ KeepaliveTick(s) \/ KeepaliveOk(s)
         \/ KeepaliveMarks(s) \/ AttemptReconnect(s) \/ AttemptSkipped(s)
         \/ KeepaliveRetry(s) \/ KeepaliveGivesUp(s) \/ KeepaliveDialFail(s)
  PROVE  Moves(s)
<1> USE ConstantsAssumption
    DEF TypeOK, DataOK, LocalsOK, Actors, HandlerPoints, MainPoints, KeepalivePoints,
        ConnectPoints, ClosePoints, ReconnectPoints, sessionVars, At, Goto, Return,
        UsePoints, Moves
<1>1. CASE KeepaliveStop(s)
  BY <1>1 DEF KeepaliveStop
<1>2. CASE DialOk(s)
  BY <1>2 DEF DialOk, FreshClient
<1>3. CASE KeepaliveTick(s)
  BY <1>3 DEF KeepaliveTick
<1>4. CASE KeepaliveOk(s)
  BY <1>4 DEF KeepaliveOk
<1>5. CASE KeepaliveMarks(s)
  BY <1>5 DEF KeepaliveMarks, RequestFailed
<1>6. CASE AttemptReconnect(s)
  BY <1>6 DEF AttemptReconnect, NoticesDrop, RequestFailed
<1>7. CASE AttemptSkipped(s)
  BY <1>7 DEF AttemptSkipped, NoticesDrop, RequestFailed
<1>8. CASE KeepaliveRetry(s)
  BY <1>8 DEF KeepaliveRetry
<1>9. CASE KeepaliveGivesUp(s)
  BY <1>9 DEF KeepaliveGivesUp, ReconnectUnlock
<1>10. CASE KeepaliveDialFail(s)
  BY <1>10 DEF KeepaliveDialFail
<1> HIDE ConstantsAssumption DEF TypeOK, DataOK, LocalsOK, Actors, HandlerPoints, MainPoints,
     KeepalivePoints, ConnectPoints, ClosePoints, ReconnectPoints, sessionVars, At, Goto, Return,
     UsePoints, Moves
<1> QED  BY <1>1, <1>2, <1>3, <1>4, <1>5, <1>6, <1>7, <1>8, <1>9, <1>10

\* A call ends and deletes an entry of the map, whose session is closed or is
\* left by everybody.
LEMMA DeleteKeepsMap ==
  ASSUME TypeOK, TypeOK', MapInv, NEW a \in Handlers \cup {Main}, NEW id \in Ids,
         \A x \in Actors : x # a => pc'[x] = pc[x] /\ hs'[x] = hs[x] /\ hid'[x] = hid[x],
         UNCHANGED <<mmu, client, closed>>, sessions' = [sessions EXCEPT ![id] = None],
         pc'[a] = IF a = Main THEN "closeall" ELSE "idle",
         mmu = IF a = Main THEN Main ELSE None,
         pc[a] = "cas" => closed[hs[a]],
         \A s \in Sessions : sessions[id] = s => closed[s] \/ ~InUse(s)'
  PROVE  MapInv'
<1>0. /\ Main \notin Handlers \cup Sessions /\ Handlers \cap Sessions = {} /\ Main \in Actors
      /\ Handlers \subseteq Actors /\ Sessions \subseteq Actors /\ None \notin Actors
      /\ "idle" \notin UsePoints /\ "idle" \notin ConnectPoints /\ "idle" \notin ClosePoints
      /\ "closeall" \notin ClosePoints
  BY ConstantsAssumption
  DEF Actors, UsePoints, ConnectPoints, ReconnectPoints, ClosePoints
<1>1. \A i \in Ids : sessions'[i] = IF i = id THEN None ELSE sessions[i]
  BY DEF TypeOK, DataOK
<1>2. ReachInv'
  <2> SUFFICES ASSUME NEW s \in Sessions, ~closed'[s], InUse(s)'
               PROVE  Reached(s)'
    BY DEF ReachInv
  <2>1. InUse(s)
    BY <1>0 DEF InUse
  <2>2. Reached(s)
    BY <2>1 DEF MapInv, ReachInv
  <2>3. CASE \E i \in Ids : sessions[i] = s
    <3>1. PICK i \in Ids : sessions[i] = s
      BY <2>3
    <3>2. i # id
      BY <3>1
    <3> QED  BY <1>1, <3>1, <3>2 DEF Reached
  <2>4. CASE \E x \in Handlers \cup {Main} : hs[x] = s /\ pc[x] = "cas"
    <3>1. PICK x \in Handlers \cup {Main} : hs[x] = s /\ pc[x] = "cas"
      BY <2>4
    <3>2. x # a
      BY <3>1
    <3>3. hs'[x] = s /\ pc'[x] = "cas"
      BY <1>0, <3>1, <3>2
    <3> QED  BY <3>3 DEF Reached
  <2> QED  BY <2>2, <2>3, <2>4 DEF Reached
<1>3. EntryInv'
  <2> SUFFICES ASSUME NEW h \in Handlers, pc'[h] \in ConnectPoints
               PROVE  hid'[h] \in Ids /\ sessions'[hid'[h]] \in {hs'[h], None}
    BY DEF EntryInv
  <2>1. pc[h] \in ConnectPoints /\ hid'[h] = hid[h] /\ hs'[h] = hs[h]
    BY <1>0
  <2> QED  BY <1>1, <2>1 DEF MapInv, EntryInv
<1>4. CleanupInv'
  BY <1>0 DEF MapInv, CleanupInv
<1>5. CloseAllInv'
  BY <1>0 DEF MapInv, CloseAllInv
<1> QED  BY <1>2, <1>3, <1>4, <1>5 DEF MapInv

\* A dial that failed: nobody else uses the session whose entry goes.
LEMMA ConnectDialFailMap ==
  ASSUME TypeOK, TypeOK', LockInv, SlotInv, MapInv, NEW h \in Handlers, ConnectDialFail(h)
  PROVE  MapInv'
<1>0. /\ h # Main /\ h \in Actors /\ h \notin Sessions /\ Handlers \subseteq Actors
      /\ Sessions \subseteq Actors /\ Main \notin Handlers /\ None \notin Sessions
  BY ConstantsAssumption DEF Actors
<1>1. /\ pc[h] = "dial" /\ mmu = None /\ hs[h] \in Sessions
      /\ hid[h] \in Ids /\ sessions[hid[h]] \in {hs[h], None}
      /\ sessions' = [sessions EXCEPT ![hid[h]] = None] /\ UNCHANGED <<mmu, client, closed>>
  BY DEF ConnectDialFail, At, TypeOK, LocalsOK, MapInv, EntryInv, ConnectPoints, sessionVars
<1>2. /\ \A x \in Actors : x # h => pc'[x] = pc[x] /\ hs'[x] = hs[x] /\ hid'[x] = hid[x]
      /\ pc'[h] = "idle"
  BY <1>0 DEF ConnectDialFail, Return, TypeOK, LocalsOK
<1>3. PICK s \in Sessions : s = hs[h]
  BY <1>1
<1>4. ~InUse(s)'
  <2>1. client'[s] = None
    BY <1>1, <1>3 DEF SlotInv, EmptySlotInv, DialPoints
  <2>2. ASSUME NEW x \in Handlers \cup Sessions, hs'[x] = s, pc'[x] \in UsePoints
        PROVE  FALSE
    <3>1. x # h /\ hs[x] = hs[h] /\ pc[x] \in UsePoints
      BY <1>0, <1>2, <1>3, <2>2 DEF UsePoints, ConnectPoints, ReconnectPoints
    <3>2. CASE x \in Handlers
      <4>1. pc[x] \notin ConnectPoints \cup ReconnectPoints \cup {"rlock"}
        BY <1>1, <3>1, <3>2 DEF SlotInv, ConnectAloneInv, ConnectPoints
      <4>2. pc[x] \notin {"loop", "tick", "request"}
        BY <3>2
           DEF TypeOK, LocalsOK, HandlerPoints, ConnectPoints, ClosePoints, ReconnectPoints
      <4> QED  BY <3>1, <4>1, <4>2 DEF UsePoints
    <3>3. CASE x \in Sessions
      <4>1. pc[x] = "off"
        BY <1>1, <3>1, <3>3 DEF SlotInv, ConnectAloneInv, ConnectPoints, TypeOK, LocalsOK
      <4> QED  BY <3>1, <4>1 DEF UsePoints, ConnectPoints, ReconnectPoints
    <3> QED  BY <3>2, <3>3
  <2> QED  BY <2>1, <2>2 DEF InUse
<1>5. \A t \in Sessions : sessions[hid[h]] = t => closed[t] \/ ~InUse(t)'
  <2> SUFFICES ASSUME NEW t \in Sessions, sessions[hid[h]] = t
               PROVE  ~InUse(t)'
    OBVIOUS
  <2>1. t = s
    BY <1>0, <1>1, <1>3
  <2> QED  BY <1>4, <2>1
<1> QED  BY <1>0, <1>1, <1>2, <1>5, DeleteKeepsMap

\* A session that was closed during the dial: its entry goes, if it is still there.
LEMMA ConnectCleanupMap ==
  ASSUME TypeOK, TypeOK', MapInv, NEW h \in Handlers, ConnectCleanup(h)
  PROVE  MapInv'
<1>0. h # Main /\ h \in Actors
  BY ConstantsAssumption DEF Actors
<1>1. /\ pc[h] = "cleanup" /\ mmu = None /\ hs[h] \in Sessions /\ hid[h] \in Ids
      /\ closed[hs[h]] /\ UNCHANGED <<mmu, client, closed>>
      /\ sessions' = [sessions EXCEPT ![hid[h]] = IF @ = hs[h] THEN None ELSE @]
  BY DEF ConnectCleanup, At, TypeOK, LocalsOK, MapInv, EntryInv, CleanupInv, ConnectPoints,
         sessionVars
<1>2. /\ \A x \in Actors : x # h => pc'[x] = pc[x] /\ hs'[x] = hs[x] /\ hid'[x] = hid[x]
      /\ pc'[h] = "idle"
  BY <1>0, ConstantsAssumption DEF ConnectCleanup, Return, TypeOK, LocalsOK, Actors
<1>3. CASE sessions[hid[h]] = hs[h]
  <2>1. sessions' = [sessions EXCEPT ![hid[h]] = None]
    BY <1>1, <1>3
  <2>2. \A s \in Sessions : sessions[hid[h]] = s => closed[s] \/ ~InUse(s)'
    BY <1>1, <1>3
  <2>3. pc'[h] = IF h = Main THEN "closeall" ELSE "idle"
    BY <1>0, <1>2
  <2>4. mmu = IF h = Main THEN Main ELSE None
    BY <1>0, <1>1
  <2> QED  BY <1>1, <1>2, <2>1, <2>2, <2>3, <2>4, DeleteKeepsMap
<1>4. CASE sessions[hid[h]] # hs[h]
  <2>1. sessions' = sessions
    BY <1>1, <1>4 DEF TypeOK, DataOK
  <2>2. Moves(h)
    BY <1>0, <1>1, <1>2, <2>1 DEF Moves, UsePoints, ConnectPoints, ReconnectPoints
  <2> QED  BY <1>0, <2>2, MovesKeepMap
<1> QED  BY <1>3, <1>4

\* A disconnect: the session leaves the map with its close() under way.
LEMMA DisconnectMap ==
  ASSUME TypeOK, TypeOK', MapInv, NEW h \in Handlers, NEW id \in Ids, Disconnect(h, id)
  PROVE  MapInv'
<1>0. /\ Main \notin Handlers \cup Sessions /\ Handlers \cap Sessions = {} /\ Main \in Actors
      /\ Handlers \subseteq Actors /\ Sessions \subseteq Actors /\ None # Main
      /\ "cas" \notin UsePoints /\ "cas" \notin ConnectPoints
  BY ConstantsAssumption DEF Actors, UsePoints, ConnectPoints, ReconnectPoints
<1>1. /\ pc[h] = "idle" /\ mmu = None /\ UNCHANGED <<mmu, client, closed>>
      /\ \A i \in Ids : sessions'[i] = IF i = id THEN None ELSE sessions[i]
  BY DEF Disconnect, At, sessionVars, TypeOK, DataOK
<1>2. /\ \A x \in Actors : x # h => pc'[x] = pc[x] /\ hs'[x] = hs[x] /\ hid'[x] = hid[x]
      /\ pc'[h] = "cas" /\ hs'[h] = sessions[id]
  BY <1>0 DEF Disconnect, Goto, TypeOK, LocalsOK
<1>3. ReachInv'
  <2> SUFFICES ASSUME NEW s \in Sessions, ~closed'[s], InUse(s)'
               PROVE  Reached(s)'
    BY DEF ReachInv
  <2>1. InUse(s)
    BY <1>0, <1>1, <1>2 DEF InUse
  <2>2. Reached(s)
    BY <1>1, <2>1 DEF MapInv, ReachInv
  <2>3. CASE \E i \in Ids : sessions[i] = s
    <3>1. PICK i \in Ids : sessions[i] = s
      BY <2>3
    <3>2. CASE i = id
      BY <1>2, <3>1, <3>2 DEF Reached
    <3>3. CASE i # id
      BY <1>1, <3>1, <3>3 DEF Reached
    <3> QED  BY <3>2, <3>3
  <2>4. CASE \E x \in Handlers \cup {Main} : hs[x] = s /\ pc[x] = "cas"
    BY <1>0, <1>1, <1>2, <2>4 DEF Reached
  <2> QED  BY <2>2, <2>3, <2>4 DEF Reached
<1>4. EntryInv'
  <2> SUFFICES ASSUME NEW g \in Handlers, pc'[g] \in ConnectPoints
               PROVE  hid'[g] \in Ids /\ sessions'[hid'[g]] \in {hs'[g], None}
    BY DEF EntryInv
  <2>1. pc[g] \in ConnectPoints /\ hid'[g] = hid[g] /\ hs'[g] = hs[g]
    BY <1>0, <1>2
  <2> QED  BY <1>1, <2>1 DEF MapInv, EntryInv
<1>5. CleanupInv' /\ CloseAllInv'
  BY <1>0, <1>1, <1>2 DEF MapInv, CleanupInv, CloseAllInv
<1> QED  BY <1>3, <1>4, <1>5 DEF MapInv

\* The keepalive takes over from the ssh_connect that started it.
LEMMA StartKeepaliveMap ==
  ASSUME TypeOK, TypeOK', MapInv, NEW h \in Handlers, StartKeepalive(h)
  PROVE  MapInv'
<1>0. /\ Main \notin Handlers \cup Sessions /\ Handlers \cap Sessions = {} /\ Main \in Actors
      /\ Handlers \subseteq Actors /\ Sessions \subseteq Actors
      /\ "idle" \notin UsePoints /\ "idle" \notin ConnectPoints /\ "startka" \in UsePoints
  BY ConstantsAssumption DEF Actors, UsePoints, ConnectPoints, ReconnectPoints
<1>1. /\ hs[h] \in Sessions /\ pc[h] = "startka"
      /\ UNCHANGED <<sessions, mmu, client, closed>>
      /\ \A x \in Actors : pc'[x] = IF x = hs[h] THEN "tick" ELSE IF x = h THEN "idle" ELSE pc[x]
      /\ \A x \in Actors : hs'[x] = IF x = h THEN None ELSE hs[x]
      /\ \A x \in Actors : x # h => hid'[x] = hid[x]
  <2>1. pc[h] = "startka" /\ UNCHANGED <<sessions, mmu, client, closed>>
    BY DEF StartKeepalive, At
  <2>2. \A x \in Actors : x # h => hid'[x] = hid[x]
    BY DEF StartKeepalive, TypeOK, LocalsOK
  <2> QED  BY <2>1, <2>2, StartKeepaliveLocals
<1>2. ReachInv'
  <2> SUFFICES ASSUME NEW s \in Sessions, ~closed'[s], InUse(s)'
               PROVE  Reached(s)'
    BY DEF ReachInv
  <2>1. InUse(s)
    <3>1. CASE s = hs[h]
      BY <1>0, <1>1, <3>1 DEF InUse
    <3>2. CASE s # hs[h]
      <4>1. ASSUME NEW x \in Handlers \cup Sessions, hs'[x] = s, pc'[x] \in UsePoints
            PROVE  hs[x] = s /\ pc[x] \in UsePoints
        <5>1. x # h
          BY <1>0, <1>1, <4>1
        <5>2. x # hs[h]
          BY <1>0, <1>1, <3>2, <4>1, <5>1 DEF TypeOK, LocalsOK
        <5> QED  BY <1>0, <1>1, <4>1, <5>1, <5>2
      <4> QED  BY <1>1, <4>1 DEF InUse
    <3> QED  BY <3>1, <3>2
  <2>2. Reached(s)
    BY <1>1, <2>1 DEF MapInv, ReachInv
  <2>3. \A x \in Handlers \cup {Main} : hs[x] = s /\ pc[x] = "cas" => hs'[x] = s /\ pc'[x] = "cas"
    BY <1>0, <1>1
  <2> QED  BY <1>1, <2>2, <2>3 DEF Reached
<1>3. EntryInv'
  <2> SUFFICES ASSUME NEW g \in Handlers, pc'[g] \in ConnectPoints
               PROVE  hid'[g] \in Ids /\ sessions'[hid'[g]] \in {hs'[g], None}
    BY DEF EntryInv
  <2>1. pc[g] \in ConnectPoints /\ hid'[g] = hid[g] /\ hs'[g] = hs[g]
    BY <1>0, <1>1
  <2> QED  BY <1>1, <2>1 DEF MapInv, EntryInv
<1>4. CleanupInv' /\ CloseAllInv'
  BY <1>0, <1>1 DEF MapInv, CleanupInv, CloseAllInv
<1> QED  BY <1>2, <1>3, <1>4 DEF MapInv

\* The end of close(), which in CloseAll deletes the entry.
LEMMA CloseEndMap ==
  ASSUME TypeOK, TypeOK', LockInv, MapInv, NEW a \in Handlers \cup {Main},
         CloseLost(a) \/ CloseMark(a)
  PROVE  MapInv'
<1>0. Main \notin Handlers /\ a \in Actors /\ Handlers \subseteq Actors
  BY ConstantsAssumption DEF Actors
<1>1. /\ pc[a] \in {"cas", "markdis"} /\ closed[hs[a]] /\ hs[a] \in Sessions
      /\ UNCHANGED <<mmu, client, closed>> /\ CloseReturn(a)
  BY <1>0 DEF CloseLost, CloseMark, At, LockInv, CloseInv, sessionVars, TypeOK, LocalsOK,
     ClosePoints
<1>2. /\ \A x \in Actors : x # a => pc'[x] = pc[x] /\ hs'[x] = hs[x] /\ hid'[x] = hid[x]
      /\ pc'[a] = IF a = Main THEN "closeall" ELSE "idle"
  BY <1>0, <1>1 DEF CloseReturn, Goto, TypeOK, LocalsOK
<1>3. CASE a = Main
  <2>1. mmu = Main /\ hid[a] \in Ids /\ sessions[hid[a]] = hs[a]
    BY <1>1, <1>3 DEF MapInv, CloseAllInv, ClosePoints
  <2>2. sessions' = [sessions EXCEPT ![hid[a]] = None]
    BY <1>1, <1>3 DEF CloseReturn
  <2> QED  BY <1>1, <1>2, <1>3, <2>1, <2>2, DeleteKeepsMap
<1>4. CASE a # Main
  <2>1. sessions' = sessions
    BY <1>1, <1>4 DEF CloseReturn
  <2>2. Moves(a)
    BY <1>0, <1>1, <1>2, <1>4, <2>1 DEF Moves, UsePoints, ConnectPoints, ReconnectPoints
  <2> QED  BY <1>0, <2>2, MovesKeepMap
<1> QED  BY <1>3, <1>4

\* CloseAll takes Manager.mu, goes on with the next session, and ends.
LEMMA CloseAllMap ==
  ASSUME TypeOK, TypeOK', MapInv,
         CloseAllBegin \/ CloseAllEnd \/ \E id \in Ids : CloseAllNext(id)
  PROVE  MapInv'
<1>0. /\ Main \notin Handlers \cup Sessions /\ Main \in Actors
      /\ Handlers \subseteq Actors /\ Sessions \subseteq Actors
  BY ConstantsAssumption DEF Actors
<1>1. /\ UNCHANGED <<sessions, client, closed>> /\ pc[Main] \in {"serving", "closeall"}
      /\ \A x \in Actors : x # Main => pc'[x] = pc[x] /\ hs'[x] = hs[x] /\ hid'[x] = hid[x]
  <2>1. UNCHANGED <<sessions, client, closed>> /\ pc[Main] \in {"serving", "closeall"}
    BY DEF CloseAllBegin, CloseAllEnd, CloseAllNext, At, sessionVars
  <2>2. \A x \in Actors : x # Main => pc'[x] = pc[x]
    BY DEF CloseAllBegin, CloseAllEnd, CloseAllNext, Goto, TypeOK, LocalsOK
  <2>3. \A x \in Actors : x # Main => hs'[x] = hs[x] /\ hid'[x] = hid[x]
    BY DEF CloseAllBegin, CloseAllEnd, CloseAllNext, TypeOK, LocalsOK
  <2> QED  BY <2>1, <2>2, <2>3
<1>2. ReachInv'
  <2> SUFFICES ASSUME NEW s \in Sessions, ~closed'[s], InUse(s)'
               PROVE  Reached(s)'
    BY DEF ReachInv
  <2>1. InUse(s)
    BY <1>0, <1>1 DEF InUse
  <2>2. Reached(s)
    BY <1>1, <2>1 DEF MapInv, ReachInv
  <2>3. \A x \in Handlers \cup {Main} : hs[x] = s /\ pc[x] = "cas" => hs'[x] = s /\ pc'[x] = "cas"
    BY <1>0, <1>1
  <2> QED  BY <1>1, <2>2, <2>3 DEF Reached
<1>3. EntryInv' /\ CleanupInv'
  BY <1>0, <1>1 DEF MapInv, EntryInv, CleanupInv
<1>4. CloseAllInv'
  BY <1>0, <1>1
     DEF CloseAllBegin, CloseAllEnd, CloseAllNext, At, Goto, TypeOK, LocalsOK, DataOK,
     MapInv, CloseAllInv, ClosePoints
<1> QED  BY <1>2, <1>3, <1>4 DEF MapInv

\* ssh_connect lists its session before anything else.
LEMMA ConnectBeginMap ==
  ASSUME ~EarlyReuse, TypeOK, TypeOK', MapInv, NEW h \in Handlers, NEW id \in Ids, NEW sp \in Specs,
         ConnectBegin(h, id, sp)
  PROVE  MapInv'
<1>0. /\ Main \notin Handlers \cup Sessions /\ Handlers \cap Sessions = {} /\ Main \in Actors
      /\ Handlers \subseteq Actors /\ Sessions \subseteq Actors /\ None \notin Actors
  BY ConstantsAssumption DEF Actors
<1>1. PICK s \in Sessions :
        /\ FreshSession(s)
        /\ sessions' = [sessions EXCEPT ![id] = s]
        /\ hs' = [hs EXCEPT ![h] = s]
        /\ closed' = [closed EXCEPT ![s] = FALSE]
  BY DEF ConnectBegin
<1>2. /\ pc[h] = "idle" /\ mmu = None /\ sessions[id] = None /\ UNCHANGED <<mmu, client>>
      /\ \A g \in Handlers : ~(hid[g] = id /\ pc[g] \in ConnectPoints)
  BY DEF ConnectBegin, At
<1>3. /\ \A i \in Ids : sessions'[i] = IF i = id THEN s ELSE sessions[i]
      /\ \A t \in Sessions : t # s => closed'[t] = closed[t]
  BY <1>1 DEF TypeOK, DataOK
<1>4. /\ \A x \in Actors : x # h => pc'[x] = pc[x] /\ hs'[x] = hs[x] /\ hid'[x] = hid[x]
      /\ pc'[h] = "dial" /\ hs'[h] = s /\ hid'[h] = id
  BY <1>0, <1>1 DEF ConnectBegin, Goto, TypeOK, LocalsOK
<1>5. ReachInv'
  <2> SUFFICES ASSUME NEW t \in Sessions, ~closed'[t], InUse(t)'
               PROVE  Reached(t)'
    BY DEF ReachInv
  <2>1. CASE t = s
    BY <1>3, <2>1 DEF Reached
  <2>2. CASE t # s
    <3>1. InUse(t)
      BY <1>0, <1>2, <1>4, <2>2 DEF InUse
    <3>2. Reached(t)
      BY <1>3, <2>2, <3>1 DEF MapInv, ReachInv
    <3>3. \A i \in Ids : sessions[i] = t => sessions'[i] = t
      BY <1>0, <1>2, <1>3
    <3>4. \A x \in Handlers \cup {Main} :
            hs[x] = t /\ pc[x] = "cas" => hs'[x] = t /\ pc'[x] = "cas"
      BY <1>0, <1>2, <1>4
    <3> QED  BY <3>2, <3>3, <3>4 DEF Reached
  <2> QED  BY <2>1, <2>2
<1>6. EntryInv'
  <2> SUFFICES ASSUME NEW g \in Handlers, pc'[g] \in ConnectPoints
               PROVE  hid'[g] \in Ids /\ sessions'[hid'[g]] \in {hs'[g], None}
    BY DEF EntryInv
  <2>1. CASE g = h
    BY <1>3, <1>4, <2>1
  <2>2. CASE g # h
    <3>1. pc[g] \in ConnectPoints /\ hid'[g] = hid[g] /\ hs'[g] = hs[g] /\ hid[g] # id
      BY <1>0, <1>2, <1>4, <2>2
    <3> QED  BY <1>3, <3>1 DEF MapInv, EntryInv
  <2> QED  BY <2>1, <2>2
<1>7. CleanupInv'
  <2> SUFFICES ASSUME NEW g \in Handlers, pc'[g] = "cleanup"
               PROVE  closed'[hs'[g]]
    BY DEF CleanupInv
  <2>1. g # h /\ pc[g] = "cleanup" /\ hs'[g] = hs[g] /\ hs[g] \in Sessions
    BY <1>0, <1>4 DEF TypeOK, LocalsOK
  <2>2. hs[g] # s
    BY <1>1 DEF FreshSession
  <2> QED  BY <1>3, <2>1, <2>2 DEF MapInv, CleanupInv
<1>8. CloseAllInv'
  BY <1>0, <1>2, <1>4 DEF MapInv, CloseAllInv
<1> QED  BY <1>5, <1>6, <1>7, <1>8 DEF MapInv

\* ssh_reconnect begins with a session it has found in the map.
LEMMA ReconnectBeginMap ==
  ASSUME TypeOK, TypeOK', MapInv, NEW h \in Handlers, NEW id \in Ids, ReconnectBegin(h, id)
  PROVE  MapInv'
<1>0. /\ Main \notin Handlers \cup Sessions /\ Handlers \cap Sessions = {} /\ Main \in Actors
      /\ Handlers \subseteq Actors /\ Sessions \subseteq Actors
      /\ "rlock" \notin ConnectPoints
  BY ConstantsAssumption DEF Actors, ConnectPoints
<1>1. pc[h] = "idle" /\ mmu = None /\ UNCHANGED <<sessions, mmu, client, closed>>
  BY DEF ReconnectBegin, At, sessionVars
<1>2. /\ \A x \in Actors : x # h => pc'[x] = pc[x] /\ hs'[x] = hs[x] /\ hid'[x] = hid[x]
      /\ pc'[h] = "rlock" /\ hs'[h] = sessions[id]
  BY <1>0 DEF ReconnectBegin, Goto, TypeOK, LocalsOK
<1>3. ReachInv'
  <2> SUFFICES ASSUME NEW t \in Sessions, ~closed'[t], InUse(t)'
               PROVE  Reached(t)'
    BY DEF ReachInv
  <2>1. CASE t = sessions[id]
    BY <1>1, <2>1 DEF Reached
  <2>2. CASE t # sessions[id]
    <3>1. InUse(t)
      BY <1>0, <1>1, <1>2, <2>2 DEF InUse
    <3>2. Reached(t)
      BY <1>1, <3>1 DEF MapInv, ReachInv
    <3>3. \A x \in Handlers \cup {Main} :
            hs[x] = t /\ pc[x] = "cas" => hs'[x] = t /\ pc'[x] = "cas"
      BY <1>0, <1>1, <1>2
    <3> QED  BY <1>1, <3>2, <3>3 DEF Reached
  <2> QED  BY <2>1, <2>2
<1>4. EntryInv'
  BY <1>0, <1>1, <1>2 DEF MapInv, EntryInv
<1>5. CleanupInv' /\ CloseAllInv'
  BY <1>0, <1>1, <1>2 DEF MapInv, CleanupInv, CloseAllInv
<1> QED  BY <1>3, <1>4, <1>5 DEF MapInv

\* What clients ask for.
LEMMA RequestMap ==
  ASSUME ~EarlyReuse, TypeOK, TypeOK', MapInv, NEW h \in Handlers, Request(h)
  PROVE  MapInv'
<1>1. ASSUME NEW id \in Ids, NEW sp \in Specs, ConnectBegin(h, id, sp)
      PROVE  MapInv'
  BY <1>1, ConnectBeginMap
<1>2. ASSUME NEW id \in Ids, Disconnect(h, id)
      PROVE  MapInv'
  BY <1>2, DisconnectMap
<1>3. ASSUME NEW id \in Ids, ReconnectBegin(h, id)
      PROVE  MapInv'
  BY <1>3, ReconnectBeginMap
<1>4. ASSUME NEW id \in Ids, SftpBegin(h, id)
      PROVE  MapInv'
  <2>1. Moves(h) /\ h \in Actors
    BY <1>4, ConstantsAssumption
    DEF Moves, SftpBegin, TypeOK, DataOK, LocalsOK, Actors, ConnectPoints, ClosePoints,
        ReconnectPoints, UsePoints, At, Goto, sessionVars
  <2> QED  BY <2>1, MovesKeepMap
<1> QED  BY CloneSpec, <1>1, <1>2, <1>3, <1>4 DEF Request, CloneBegin

\* Every step keeps the map complete.
LEMMA MapNext ==
  ASSUME ~EarlyReconnect, ~EarlyReuse, TypeOK, TypeOK', LockInv, SlotInv, MapInv, [Next]_vars
  PROVE  MapInv'
<1>0. Handlers \subseteq Actors /\ Sessions \subseteq Actors /\ Main \in Actors
  BY DEF Actors
<1>1. ASSUME NEW h \in Handlers, HandlerStep(h) \/ ReconnectLock(h) \/ DialOk(h)
      PROVE  MapInv'
  BY <1>0, <1>1, HandlerMoves, MovesKeepMap, ConnectDialFailMap, ConnectCleanupMap,
     StartKeepaliveMap DEF HandlerStep
<1>2. ASSUME NEW a \in Handlers \cup {Main}, CloseStep(a)
      PROVE  MapInv'
  BY <1>0, <1>2, CloseMoves, MovesKeepMap, CloseEndMap DEF CloseStep, CloseCas
<1>3. ASSUME NEW a \in Handlers \cup Sessions, ReconnectStep(a)
      PROVE  MapInv'
  BY <1>0, <1>3, ReconnectMoves, MovesKeepMap DEF ReconnectStep
<1>4. ASSUME NEW s \in Sessions, KeepaliveStep(s) \/ KeepaliveStop(s) \/ DialOk(s)
      PROVE  MapInv'
  BY <1>0, <1>4, KeepaliveMoves, MovesKeepMap DEF KeepaliveStep
<1>5. CASE NetworkNext \/ Exited \/ UNCHANGED vars
  <2>1. UNCHANGED <<sessions, mmu, client, closed, pc, hid, hs>>
    BY <1>5 DEF NetworkNext, Drop, Hang, HangResolved, Exited, vars, sessionVars
  <2> QED
    BY <2>1 DEF MapInv, ReachInv, InUse, Reached, EntryInv, CleanupInv, CloseAllInv
<1>6. ASSUME NEW h \in Handlers, HandlerNext(h)
      PROVE  MapInv'
  BY <1>1, <1>2, <1>3, <1>6, RequestMap DEF HandlerNext
<1>7. ASSUME NEW s \in Sessions, KeepaliveNext(s)
      PROVE  MapInv'
  BY <1>3, <1>4, <1>7 DEF KeepaliveNext
<1>8. CASE MainNext
  BY <1>2, <1>8, CloseAllMap DEF MainNext
<1> QED  BY <1>5, <1>6, <1>7, <1>8 DEF Next

\* If clients wait for ssh_connect before they reuse its id or reconnect its
\* session, every session with a transport is named by an id or in a close():
\* nothing an ssh_connect, ssh_disconnect, ssh_reconnect or CloseAll does in
\* between leaves a connection that nobody can disconnect.
THEOREM NoOrphanEver ==
  ASSUME ~EarlyReconnect, ~EarlyReuse
  PROVE  Spec => []NoOrphan
<1>1. Init => MapInv
  BY ConstantsAssumption
  DEF Init, MapInv, ReachInv, InUse, UsePoints, EntryInv, CleanupInv, CloseAllInv, Actors,
      ConnectPoints, ReconnectPoints, ClosePoints
<1>2. TypeOK /\ TypeOK' /\ LockInv /\ SlotInv /\ ClosedHoldsNothing /\ MapInv /\ [Next]_vars
        => LockInv' /\ SlotInv' /\ ClosedHoldsNothing' /\ MapInv'
  BY LockNext, SlotNext, ClosedNext, MapNext
<1>3. TypeOK /\ ClosedHoldsNothing /\ MapInv => NoOrphan
  <2> SUFFICES ASSUME TypeOK, ClosedHoldsNothing, MapInv, NEW s \in Sessions, client[s] # None
               PROVE  \/ \E id \in Ids : sessions[id] = s
                      \/ \E a \in Handlers \cup {Main} :
                           hs[a] = s /\ pc[a] \in {"cas", "cancel", "drain", "detach"}
    BY DEF NoOrphan
  <2>1. CASE closed[s]
    BY <2>1 DEF ClosedHoldsNothing, Closing
  <2>2. CASE ~closed[s]
    BY <2>2 DEF MapInv, ReachInv, InUse, Reached
  <2> QED  BY <2>1, <2>2
<1> QED  BY TypeCorrect, ClosedInit, SlotInit, <1>1, <1>2, <1>3, PTL DEF Spec

-----------------------------------------------------------------------------
(* What ssh_list shows                                                      *)

\* The session's keepalive, if any, reconnects; one that only reports may
\* mark it by a result about an earlier client.
Reports(s) == spec[s].keepalive => spec[s].auto

\* Between clearClient and markState(StateReconnecting).
Marking(s) == \E a \in Handlers \cup Sessions : hs[a] = s /\ pc[a] = "rmark"

\* The strengthening: the state lags behind the client only there.
ShownInv ==
  \A s \in Sessions :
    ~closed[s] /\ Reports(s) /\ ~Marking(s) => (state[s] = "connected" <=> client[s] # None)

\* A connect that enables agent forwarding has its transport.
AgentInv ==
  \A h \in Handlers :
    pc[h] \in {"agent", "agentfwd", "agenterr"} /\ ~closed[hs[h]] => client[hs[h]] # None

\* Only a session with a keepalive has a keepalive goroutine.
KeepaliveInv ==
  \A s \in Sessions : pc[s] # "off" => spec[s].keepalive \/ spec[s].auto

StatusInv == ShownInv /\ AgentInv /\ KeepaliveInv

\* What a step does to a session's status: nothing, or the session is closed, or
\* a transport is installed and shown, or only a session whose keepalive merely
\* reports is marked.
StatusKept(s) ==
  \/ client'[s] = client[s] /\ state'[s] = state[s] /\ closed'[s] = closed[s]
  \/ closed'[s]
  \/ client'[s] # None /\ state'[s] = "connected"
  \/ ~Reports(s) /\ client'[s] = client[s] /\ closed'[s] = closed[s]

AgentPoints == {"agent", "agentfwd", "agenterr"}

\* A step with such effects keeps StatusInv, if nobody leaves "rmark" by it,
\* enters the agent's steps without a transport, or starts a keepalive that was
\* not asked for.
LEMMA StatusFrame ==
  ASSUME StatusInv, UNCHANGED spec,
         \A s \in Sessions : StatusKept(s),
         \A a \in Handlers \cup Sessions :
           pc[a] = "rmark" => pc'[a] = "rmark" /\ hs'[a] = hs[a],
         \A h \in Handlers :
           pc'[h] \in AgentPoints =>
             /\ hs'[h] \in Sessions
             /\ \/ client'[hs'[h]] # None
                \/ pc[h] \in AgentPoints /\ hs'[h] = hs[h],
         \A s \in Sessions :
           pc'[s] # "off" => pc[s] # "off" \/ spec[s].keepalive \/ spec[s].auto
  PROVE  StatusInv'
<1>1. ShownInv'
  <2> SUFFICES ASSUME NEW s \in Sessions, ~closed'[s], Reports(s)', ~Marking(s)'
               PROVE  state'[s] = "connected" <=> client'[s] # None
    BY DEF ShownInv
  <2>1. Reports(s) /\ ~Marking(s)
    BY DEF Reports, Marking
  <2> QED  BY <2>1 DEF StatusKept, StatusInv, ShownInv
<1>2. AgentInv'
  <2> SUFFICES ASSUME NEW h \in Handlers, pc'[h] \in AgentPoints, ~closed'[hs'[h]]
               PROVE  client'[hs'[h]] # None
    BY DEF AgentInv, AgentPoints
  <2>1. hs'[h] \in Sessions
    OBVIOUS
  <2>2. CASE pc[h] \in AgentPoints /\ hs'[h] = hs[h]
    BY <2>1, <2>2 DEF StatusKept, StatusInv, AgentInv, AgentPoints
  <2> QED  BY <2>2
<1>3. KeepaliveInv'
  BY DEF StatusInv, KeepaliveInv
<1> QED  BY <1>1, <1>2, <1>3 DEF StatusInv

\* The keepalive that startKeepalive starts was asked for.
LEMMA StartKeepaliveStatus ==
  ASSUME TypeOK, SlotInv, StatusInv, NEW h \in Handlers, StartKeepalive(h)
  PROVE  StatusInv'
<1>0. /\ Main \notin Handlers \cup Sessions /\ Handlers \cap Sessions = {}
      /\ Handlers \subseteq Actors /\ Sessions \subseteq Actors /\ Main \in Actors
  BY ConstantsAssumption DEF Actors
<1>1. /\ UNCHANGED <<spec, client, state, closed>> /\ pc[h] = "startka"
      /\ spec[hs[h]].keepalive \/ spec[hs[h]].auto
  BY DEF StartKeepalive, StartsKeepalive, At
<1>2. /\ \A x \in Actors : pc'[x] = IF x = hs[h] THEN "tick" ELSE IF x = h THEN "idle" ELSE pc[x]
      /\ \A x \in Actors : hs'[x] = IF x = h THEN None ELSE hs[x]
      /\ hs[h] \in Sessions /\ pc[hs[h]] = "off"
  BY <1>1, StartKeepaliveLocals DEF SlotInv, ConnectAloneInv, ConnectPoints
<1>3. \A s \in Sessions : StatusKept(s)
  BY <1>1 DEF StatusKept
<1>4. \A x \in Handlers \cup Sessions : pc[x] = "rmark" => pc'[x] = "rmark" /\ hs'[x] = hs[x]
  BY <1>0, <1>1, <1>2
<1>5. \A g \in Handlers : pc'[g] \in AgentPoints => pc[g] \in AgentPoints /\ hs'[g] = hs[g]
  BY <1>0, <1>1, <1>2 DEF AgentPoints
<1>6. \A g \in Handlers : pc[g] \in AgentPoints => hs[g] \in Sessions
  BY DEF AgentPoints, TypeOK, LocalsOK
<1>7. \A s \in Sessions : pc'[s] # "off" => pc[s] # "off" \/ spec[s].keepalive \/ spec[s].auto
  BY <1>0, <1>1, <1>2
<1> QED  BY <1>1, <1>3, <1>4, <1>5, <1>6, <1>7, StatusFrame

\* close() takes the transport of a session that is closed already.
LEMMA CloseDetachStatus ==
  ASSUME TypeOK, LockInv, StatusInv, NEW a \in Handlers \cup {Main}, CloseDetach(a)
  PROVE  StatusInv'
<1>0. /\ Main \notin Handlers \cup Sessions /\ Handlers \cap Sessions = {}
      /\ Handlers \subseteq Actors /\ Sessions \subseteq Actors /\ Main \in Actors
  BY ConstantsAssumption DEF Actors
<1>1. /\ UNCHANGED <<spec, state, closed, hs>> /\ pc[a] = "detach"
      /\ hs[a] \in Sessions /\ closed[hs[a]]
  BY DEF CloseDetach, At, TypeOK, LocalsOK, ClosePoints, LockInv, CloseInv
<1>2. \A x \in Actors : pc'[x] = IF x = a THEN "markdis" ELSE pc[x]
  BY <1>0 DEF CloseDetach, Goto, TypeOK, LocalsOK
<1>3. \A s \in Sessions : StatusKept(s)
  BY <1>1 DEF CloseDetach, ClearClient, StatusKept, TypeOK, DataOK
<1>4. \A x \in Handlers \cup Sessions : pc[x] = "rmark" => pc'[x] = "rmark" /\ hs'[x] = hs[x]
  BY <1>0, <1>1, <1>2
<1>5. \A g \in Handlers : pc'[g] \in AgentPoints => pc[g] \in AgentPoints /\ hs'[g] = hs[g]
  BY <1>0, <1>1, <1>2 DEF AgentPoints
<1>6. \A g \in Handlers : pc[g] \in AgentPoints => hs[g] \in Sessions
  BY DEF AgentPoints, TypeOK, LocalsOK
<1>7. \A s \in Sessions : pc'[s] # "off" => pc[s] # "off" \/ spec[s].keepalive \/ spec[s].auto
  BY <1>0, <1>1, <1>2
<1> QED  BY <1>1, <1>3, <1>4, <1>5, <1>6, <1>7, StatusFrame

\* Every action keeps StatusInv.
LEMMA StatusNext ==
  ASSUME ~EarlyReconnect, TypeOK, TypeOK', LockInv, SlotInv, StatusInv, [Next]_vars
  PROVE  StatusInv'
<1> USE ConstantsAssumption
    DEF TypeOK, DataOK, LocalsOK, Actors, HandlerPoints, MainPoints, KeepalivePoints,
        ConnectPoints, ClosePoints, ReconnectPoints, sessionVars, At, Goto, Return,
        LockInv, CloseInv, ReconnectMuInv, SlotInv, ConnectAloneInv, EmptySlotInv, DialPoints,
        StatusInv, ShownInv, Reports, Marking, AgentInv, KeepaliveInv
<1>1. ASSUME NEW h \in Handlers, NEW id \in Ids, NEW sp \in Specs, ConnectBegin(h, id, sp)
      PROVE  StatusInv'
  BY <1>1 DEF ConnectBegin, FreshSession
<1>2. ASSUME NEW h \in Handlers, NEW id \in Ids, Disconnect(h, id)
      PROVE  StatusInv'
  BY <1>2 DEF Disconnect
<1>3. ASSUME NEW h \in Handlers, NEW id \in Ids, ReconnectBegin(h, id)
      PROVE  StatusInv'
  BY <1>3 DEF ReconnectBegin
<1>4. ASSUME NEW h \in Handlers, NEW id \in Ids, SftpBegin(h, id)
      PROVE  StatusInv'
  BY <1>4 DEF SftpBegin
<1>5. ASSUME NEW h \in Handlers, ReconnectLock(h)
      PROVE  StatusInv'
  BY <1>5 DEF ReconnectLock
<1>6. ASSUME NEW a \in Handlers \cup Sessions, DialOk(a)
      PROVE  StatusInv'
  BY <1>6, StatusFrame DEF DialOk, FreshClient, StatusKept, AgentPoints, CloseInv, DialedInv
<1>7. ASSUME NEW s \in Sessions, KeepaliveStop(s)
      PROVE  StatusInv'
  BY <1>7 DEF KeepaliveStop
<1>8. ASSUME CloseAllBegin
      PROVE  StatusInv'
  BY <1>8 DEF CloseAllBegin
<1>9. ASSUME NEW id \in Ids, CloseAllNext(id)
      PROVE  StatusInv'
  BY <1>9 DEF CloseAllNext
<1>10. ASSUME CloseAllEnd
      PROVE  StatusInv'
  BY <1>10 DEF CloseAllEnd
<1>11. ASSUME NEW c \in Clients, Drop(c)
      PROVE  StatusInv'
  BY <1>11 DEF Drop
<1>12. ASSUME NEW c \in Clients, Hang(c)
      PROVE  StatusInv'
  BY <1>12 DEF Hang
<1>13. ASSUME NEW c \in Clients, HangResolved(c)
      PROVE  StatusInv'
  BY <1>13 DEF HangResolved
<1>14. ASSUME Exited
      PROVE  StatusInv'
  BY <1>14 DEF Exited, vars
<1>15. ASSUME UNCHANGED vars
      PROVE  StatusInv'
  BY <1>15 DEF vars
<1>16. ASSUME NEW h \in Handlers, HandlerStep(h)
      PROVE  StatusInv'
  <2>1. CASE ConnectDialFail(h)
    BY <2>1, StatusFrame DEF ConnectDialFail, StatusKept, AgentPoints, CloseInv, DialedInv
  <2>2. CASE ConnectInstalled(h)
    BY <2>2, StatusFrame
       DEF ConnectInstalled, SetClientInstalled, StatusKept, AgentPoints, CloseInv,
           DialedInv
  <2>3. CASE ConnectRefused(h)
    BY <2>3 DEF ConnectRefused, SetClientRefused, CloseTransport
  <2>4. CASE ConnectCleanup(h)
    BY <2>4, StatusFrame DEF ConnectCleanup, StatusKept, AgentPoints, CloseInv, DialedInv
  <2>5. CASE AgentUnavailable(h)
    BY <2>5 DEF AgentUnavailable
  <2>6. CASE EnableAgentForwarding(h)
    BY <2>6 DEF EnableAgentForwarding
  <2>7. CASE ForwardToAgent(h)
    BY <2>7 DEF ForwardToAgent
  <2>8. CASE ForwardToAgentFails(h)
    BY <2>8 DEF ForwardToAgentFails
  <2>9. CASE MarkAgentError(h)
    BY <2>9, StatusFrame DEF MarkAgentError, StatusKept, AgentPoints, CloseInv, DialedInv
  <2>10. CASE StartKeepalive(h)
    BY <2>10, StartKeepaliveStatus
  <2>11. CASE NoKeepalive(h)
    BY <2>11, StatusFrame DEF NoKeepalive, StatusKept, AgentPoints, CloseInv, DialedInv
  <2>12. CASE ReconnectDialFail(h)
    BY <2>12 DEF ReconnectDialFail, ReconnectUnlock
  <2>13. CASE SftpReturns(h)
    BY <2>13, StatusFrame DEF SftpReturns, StatusKept, AgentPoints, CloseInv, DialedInv
  <2>14. CASE SftpLock(h)
    BY <2>14 DEF SftpLock
  <2>15. CASE SftpNew(h)
    BY <2>15 DEF SftpNew, SftpUnlock
  <2>16. CASE SftpNewFails(h)
    BY <2>16 DEF SftpNewFails, SftpUnlock
  <2> HIDE ConstantsAssumption DEF TypeOK, DataOK, LocalsOK, Actors, HandlerPoints, MainPoints,
     KeepalivePoints, ConnectPoints, ClosePoints, ReconnectPoints, sessionVars, At, Goto, Return,
     LockInv, CloseInv, ReconnectMuInv, SlotInv, ConnectAloneInv, EmptySlotInv, DialPoints,
        StatusInv, ShownInv, Reports, Marking, AgentInv, KeepaliveInv
  <2> QED
    BY <1>16, <2>1, <2>2, <2>3, <2>4, <2>5, <2>6, <2>7, <2>8, <2>9, <2>10, <2>11,
       <2>12, <2>13, <2>14, <2>15, <2>16 DEF HandlerStep
<1>17. ASSUME NEW a \in Handlers \cup {Main}, CloseStep(a)
      PROVE  StatusInv'
  <2>1. CASE CloseWon(a)
    BY <2>1 DEF CloseWon
  <2>2. CASE CloseLost(a)
    BY <2>2 DEF CloseLost, CloseReturn
  <2>3. CASE CloseCancel(a)
    BY <2>3 DEF CloseCancel
  <2>4. CASE CloseDrain(a)
    BY <2>4 DEF CloseDrain
  <2>5. CASE CloseDetach(a)
    BY <2>5, CloseDetachStatus
  <2>6. CASE CloseMark(a)
    BY <2>6, SMTT(40) DEF CloseMark, CloseReturn
  <2> HIDE ConstantsAssumption DEF TypeOK, DataOK, LocalsOK, Actors, HandlerPoints, MainPoints,
     KeepalivePoints, ConnectPoints, ClosePoints, ReconnectPoints, sessionVars, At, Goto, Return,
     LockInv, CloseInv, ReconnectMuInv, SlotInv, ConnectAloneInv, EmptySlotInv, DialPoints,
        StatusInv, ShownInv, Reports, Marking, AgentInv, KeepaliveInv
  <2> QED
    BY <1>17, <2>1, <2>2, <2>3, <2>4, <2>5, <2>6 DEF CloseStep, CloseCas
<1>18. ASSUME NEW a \in Handlers \cup Sessions, ReconnectStep(a)
      PROVE  StatusInv'
  <2>1. CASE ReconnectClear(a)
    BY <2>1, SMTT(40) DEF ReconnectClear, ClearClient, CloseTransport
  <2>2. CASE ReconnectMark(a)
    BY <2>2, SMTT(40) DEF ReconnectMark
  <2>3. CASE ReconnectInstalled(a)
    BY <2>3, StatusFrame
       DEF ReconnectInstalled, SetClientInstalled, StatusKept, AgentPoints, CloseInv,
           DialedInv
  <2>4. CASE ReconnectRefused(a)
    BY <2>4 DEF ReconnectRefused, SetClientRefused, CloseTransport,
       ReconnectUnlock
  <2>5. CASE ReconnectEnd(a)
    BY <2>5 DEF ReconnectEnd, ReconnectUnlock
  <2> HIDE ConstantsAssumption DEF TypeOK, DataOK, LocalsOK, Actors, HandlerPoints, MainPoints,
     KeepalivePoints, ConnectPoints, ClosePoints, ReconnectPoints, sessionVars, At, Goto, Return,
     LockInv, CloseInv, ReconnectMuInv, SlotInv, ConnectAloneInv, EmptySlotInv, DialPoints,
        StatusInv, ShownInv, Reports, Marking, AgentInv, KeepaliveInv
  <2> QED
    BY <1>18, <2>1, <2>2, <2>3, <2>4, <2>5 DEF ReconnectStep
<1>19. ASSUME NEW s \in Sessions, KeepaliveStep(s)
      PROVE  StatusInv'
  <2>1. CASE KeepaliveTick(s)
    BY <2>1 DEF KeepaliveTick
  <2>2. CASE KeepaliveOk(s)
    BY <2>2 DEF KeepaliveOk
  <2>3. CASE KeepaliveMarks(s)
    BY <2>3, StatusFrame
       DEF KeepaliveMarks, RequestFailed, StatusKept, AgentPoints, CloseInv, DialedInv
  <2>4. CASE AttemptReconnect(s)
    BY <2>4 DEF AttemptReconnect, NoticesDrop, RequestFailed
  <2>5. CASE AttemptSkipped(s)
    BY <2>5 DEF AttemptSkipped, NoticesDrop, RequestFailed
  <2>6. CASE KeepaliveRetry(s)
    BY <2>6 DEF KeepaliveRetry
  <2>7. CASE KeepaliveGivesUp(s)
    BY <2>7 DEF KeepaliveGivesUp, ReconnectUnlock
  <2>8. CASE KeepaliveDialFail(s)
    BY <2>8 DEF KeepaliveDialFail
  <2> HIDE ConstantsAssumption DEF TypeOK, DataOK, LocalsOK, Actors, HandlerPoints, MainPoints,
     KeepalivePoints, ConnectPoints, ClosePoints, ReconnectPoints, sessionVars, At, Goto, Return,
     LockInv, CloseInv, ReconnectMuInv, SlotInv, ConnectAloneInv, EmptySlotInv, DialPoints,
        StatusInv, ShownInv, Reports, Marking, AgentInv, KeepaliveInv
  <2> QED
    BY <1>19, <2>1, <2>2, <2>3, <2>4, <2>5, <2>6, <2>7, <2>8 DEF KeepaliveStep
<1> HIDE ConstantsAssumption DEF TypeOK, DataOK, LocalsOK, Actors, HandlerPoints, MainPoints,
     KeepalivePoints, ConnectPoints, ClosePoints, ReconnectPoints, sessionVars, At, Goto, Return,
     LockInv, CloseInv, ReconnectMuInv, SlotInv, ConnectAloneInv, EmptySlotInv, DialPoints,
        StatusInv, ShownInv, Reports, Marking, AgentInv, KeepaliveInv
<1>20. ASSUME NEW h \in Handlers, HandlerNext(h)
      PROVE  StatusInv'
  BY <1>20, CloneSpec, <1>1, <1>2, <1>3, <1>4, <1>5, <1>6, <1>16, <1>17, <1>18
  DEF HandlerNext, Request, CloneBegin
<1>21. ASSUME NEW s \in Sessions, KeepaliveNext(s)
      PROVE  StatusInv'
  BY <1>21, <1>6, <1>7, <1>18, <1>19
  DEF KeepaliveNext
<1>22. ASSUME MainNext
      PROVE  StatusInv'
  BY <1>22, <1>8, <1>9, <1>10, <1>17 DEF MainNext
<1>23. ASSUME NetworkNext
      PROVE  StatusInv'
  BY <1>23, <1>11, <1>12, <1>13 DEF NetworkNext
<1> QED
  BY <1>20, <1>21, <1>22, <1>23, <1>14, <1>15 DEF Next

\* Nothing runs yet.
LEMMA StatusInit == Init => StatusInv
  BY ConstantsAssumption
  DEF Init, StatusInv, ShownInv, AgentInv, KeepaliveInv, Actors

\* Spec => []StatusTruthful, for callers that do not reconnect a session whose
\* ssh_connect has not returned: what markState last wrote agrees with the client
\* slot whenever no connect, reconnect or close() is under way.
THEOREM StatusStaysTruthful ==
  ASSUME ~EarlyReconnect
  PROVE  Spec => []StatusTruthful
<1>1. LockInv /\ SlotInv /\ StatusInv /\ TypeOK /\ TypeOK' /\ [Next]_vars
        => (LockInv /\ SlotInv /\ StatusInv)'
  BY LockNext, SlotNext, StatusNext
<1>2. TypeOK /\ StatusInv => StatusTruthful
  BY ConstantsAssumption
  DEF TypeOK, LocalsOK, StatusInv, ShownInv, Reports, Marking, StatusTruthful, Settled,
      ReconnectPoints
<1> QED  BY TypeCorrect, SlotInit, StatusInit, <1>1, <1>2, PTL DEF Spec
=============================================================================
