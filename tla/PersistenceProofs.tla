------------------------- MODULE PersistenceProofs -------------------------
(***************************************************************************)
(* Proofs about Persistence, for any ids, hosts and tool calls: the types, *)
(* that records stay on disk as long as they should, and that a clean      *)
(* shutdown saves everything.                                              *)
(***************************************************************************)
EXTENDS Persistence, TLAPS

Captured == {"fwd", "dk", "save"}

\* Who may be in PersistNow: the flusher until it ends, then Stop.
OneWriter ==
  /\ \A h \in Handlers : wpc[h] = "off"
  /\ wpc[Flusher] # "off" => flush
  /\ flush => main \in {"serve", "stop"}
  /\ wpc[Main] # "off" <=> main = "final"

\* A kept session is where the next write will find it: in the map or, while
\* Restore runs, in what is yet to be restored, or already in the snapshot.
KeptInv ==
  /\ main \in {"serve", "stop", "final"} => kept \subseteq ssh
  /\ main = "restore" => kept \subseteq ssh \cup todo.ssh
  /\ \A w \in Writers : wpc[w] \in Captured => kept \subseteq snap[w].ssh
  /\ kept \subseteq file.ssh

\* The same for what was connected when Stop began to write, on its way from
\* the map through the snapshot to the file.
StoppedInv ==
  /\ wpc[Main] = "ssh" => stopped \subseteq ssh
  /\ wpc[Main] \in Captured => stopped \subseteq snap[Main].ssh
  /\ main \in {"close", "exit", "down"} /\ ~failed => stopped \subseteq file.ssh

WriteInv == ~snapshots => OneWriter /\ KeptInv /\ StoppedInv

\* Every step of a writer, a call, the flusher or the daemon keeps the types.
LEMMA TypeNext == TypeOK /\ [Next]_vars => TypeOK'
<1> SUFFICES ASSUME TypeOK, [Next]_vars
             PROVE  TypeOK'
  OBVIOUS
<1> USE DEF TypeOK, Snapshots, Empty, managers, flusher, calls, writes, history, reasons
<1>1. ASSUME NEW w \in Writers, CaptureSSH(w)
      PROVE  TypeOK'
  BY <1>1 DEF CaptureSSH
<1>2. ASSUME NEW w \in Writers, CaptureForwards(w)
      PROVE  TypeOK'
  BY <1>2 DEF CaptureForwards
<1>3. ASSUME NEW w \in Writers, CaptureHosts(w)
      PROVE  TypeOK'
  BY <1>3 DEF CaptureHosts
<1>4. ASSUME NEW w \in Writers, Save(w)
      PROVE  TypeOK'
  BY <1>4 DEF Save, WriteEnds
<1>5. ASSUME NEW w \in Writers, SaveFails(w)
      PROVE  TypeOK'
  BY <1>5 DEF SaveFails, WriteEnds
<1>6. ASSUME NEW h \in Handlers, Arrive(h)
      PROVE  TypeOK'
  BY <1>6 DEF Arrive
<1>7. ASSUME NEW h \in Handlers, OtherCall(h)
      PROVE  TypeOK'
  BY <1>7 DEF OtherCall, Returns
<1>8. ASSUME NEW h \in Handlers, ConnectOk(h)
      PROVE  TypeOK'
  BY <1>8 DEF ConnectOk, Changed
<1>9. ASSUME NEW h \in Handlers, ConnectFails(h)
      PROVE  TypeOK'
  BY <1>9 DEF ConnectFails, Forget, Dialers
<1>10. ASSUME NEW h \in Handlers, ConnectRefused(h)
      PROVE  TypeOK'
  BY <1>10 DEF ConnectRefused, Returns
<1>11. ASSUME NEW h \in Handlers, SnapshotTool(h)
      PROVE  TypeOK'
  BY <1>11 DEF SnapshotTool, Returns
<1>12. ASSUME NEW h \in Handlers, Persist(h)
      PROVE  TypeOK'
  BY <1>12 DEF Persist, Returns
<1>13. ASSUME NEW h \in Handlers, NEW i \in Ids, ConnectBegin(h, i)
      PROVE  TypeOK'
  BY <1>13 DEF ConnectBegin
<1>14. ASSUME NEW h \in Handlers, NEW i \in Ids, Disconnect(h, i)
      PROVE  TypeOK'
  BY <1>14 DEF Disconnect, Forget, Dialers
<1>15. ASSUME NEW h \in Handlers, NEW i \in Ids, OpenForward(h, i)
      PROVE  TypeOK'
  BY <1>15 DEF OpenForward, Changed, Connected
<1>16. ASSUME NEW h \in Handlers, NEW i \in Ids, CloseForward(h, i)
      PROVE  TypeOK'
  BY <1>16 DEF CloseForward, Changed
<1>17. ASSUME NEW h \in Handlers, NEW d \in Hosts, DockerConnect(h, d)
      PROVE  TypeOK'
  BY <1>17 DEF DockerConnect, Changed
<1>18. ASSUME NEW h \in Handlers, NEW d \in Hosts, DockerDisconnect(h, d)
      PROVE  TypeOK'
  BY <1>18 DEF DockerDisconnect, Changed
<1>19. CASE FlushRequest
  BY <1>19 DEF FlushRequest, AtSelect
<1>20. CASE FlushFire
  BY <1>20 DEF FlushFire, AtSelect
<1>21. CASE FlushStop
  BY <1>21 DEF FlushStop, AtSelect
<1>22. CASE Load
  BY <1>22 DEF Load
<1>23. CASE LoadFails
  BY <1>23 DEF LoadFails, Forget
<1>24. CASE Start
  BY <1>24 DEF Start
<1>25. CASE Signal
  BY <1>25 DEF Signal
<1>26. CASE StopWrites
  BY <1>26 DEF StopWrites, Connected
<1>27. CASE CloseAllSSH
  BY <1>27 DEF CloseAllSSH, Dialers
<1>28. CASE Exit
  BY <1>28 DEF Exit, Gone
<1>29. CASE Crash
  BY <1>29 DEF Crash, Gone
<1>30. ASSUME NEW i \in Ids, NEW ok \in BOOLEAN, RestoreSession(i, ok)
      PROVE  TypeOK'
  BY <1>30 DEF RestoreSession, Forget
<1>31. ASSUME NEW i \in Ids, NEW ok \in BOOLEAN, RestoreForward(i, ok)
      PROVE  TypeOK'
  BY <1>31 DEF RestoreForward
<1>32. ASSUME NEW d \in Hosts, NEW ok \in BOOLEAN, RestoreHost(d, ok)
      PROVE  TypeOK'
  BY <1>32 DEF RestoreHost
<1>33. CASE UNCHANGED vars
  BY <1>33 DEF vars, managers, flusher, calls, writes, history, reasons
<1> QED
  BY <1>1, <1>2, <1>3, <1>4, <1>5, <1>6, <1>7, <1>8, <1>9, <1>10, <1>11,
     <1>12, <1>13, <1>14, <1>15, <1>16, <1>17, <1>18, <1>19, <1>20, <1>21,
     <1>22, <1>23, <1>24, <1>25, <1>26, <1>27, <1>28, <1>29, <1>30, <1>31,
     <1>32, <1>33
  DEF Next, WriterStep, CallStep, MainStep

\* No step of a daemon whose snapshot tool is not used has two writers, and none
\* takes a kept session away before it is forgotten.
LEMMA WriteNext == TypeOK /\ WriteInv /\ [Next]_vars => WriteInv'
<1> SUFFICES ASSUME TypeOK, WriteInv, [Next]_vars
             PROVE  WriteInv'
  OBVIOUS
<1> USE DEF WriteInv, OneWriter, KeptInv, StoppedInv, Captured, TypeOK, Snapshots, Empty, Writers, managers, flusher, calls, writes, history, reasons
<1>1. ASSUME NEW w \in Writers, CaptureSSH(w)
      PROVE  WriteInv'
  BY <1>1 DEF CaptureSSH
<1>2. ASSUME NEW w \in Writers, CaptureForwards(w)
      PROVE  WriteInv'
  BY <1>2 DEF CaptureForwards
<1>3. ASSUME NEW w \in Writers, CaptureHosts(w)
      PROVE  WriteInv'
  BY <1>3 DEF CaptureHosts
<1>4. ASSUME NEW w \in Writers, Save(w)
      PROVE  WriteInv'
  BY <1>4 DEF Save, WriteEnds, Connected
<1>5. ASSUME NEW w \in Writers, SaveFails(w)
      PROVE  WriteInv'
  BY <1>5 DEF SaveFails, WriteEnds
<1>6. ASSUME NEW h \in Handlers, Arrive(h)
      PROVE  WriteInv'
  BY <1>6 DEF Arrive
<1>7. ASSUME NEW h \in Handlers, OtherCall(h)
      PROVE  WriteInv'
  BY <1>7 DEF OtherCall, Returns
<1>8. ASSUME NEW h \in Handlers, ConnectOk(h)
      PROVE  WriteInv'
  BY <1>8 DEF ConnectOk, Changed
<1>9. ASSUME NEW h \in Handlers, ConnectFails(h)
      PROVE  WriteInv'
  BY <1>9 DEF ConnectFails, Forget, Dialers
<1>10. ASSUME NEW h \in Handlers, ConnectRefused(h)
      PROVE  WriteInv'
  BY <1>10 DEF ConnectRefused, Returns
<1>11. ASSUME NEW h \in Handlers, SnapshotTool(h)
      PROVE  WriteInv'
  BY <1>11 DEF SnapshotTool, Returns
<1>12. ASSUME NEW h \in Handlers, Persist(h)
      PROVE  WriteInv'
  BY <1>12 DEF Persist, Returns
<1>13. ASSUME NEW h \in Handlers, NEW i \in Ids, ConnectBegin(h, i)
      PROVE  WriteInv'
  BY <1>13 DEF ConnectBegin
<1>14. ASSUME NEW h \in Handlers, NEW i \in Ids, Disconnect(h, i)
      PROVE  WriteInv'
  BY <1>14 DEF Disconnect, Forget, Dialers
<1>15. ASSUME NEW h \in Handlers, NEW i \in Ids, OpenForward(h, i)
      PROVE  WriteInv'
  BY <1>15 DEF OpenForward, Changed, Connected
<1>16. ASSUME NEW h \in Handlers, NEW i \in Ids, CloseForward(h, i)
      PROVE  WriteInv'
  BY <1>16 DEF CloseForward, Changed
<1>17. ASSUME NEW h \in Handlers, NEW d \in Hosts, DockerConnect(h, d)
      PROVE  WriteInv'
  BY <1>17 DEF DockerConnect, Changed
<1>18. ASSUME NEW h \in Handlers, NEW d \in Hosts, DockerDisconnect(h, d)
      PROVE  WriteInv'
  BY <1>18 DEF DockerDisconnect, Changed
<1>19. CASE FlushRequest
  BY <1>19 DEF FlushRequest, AtSelect
<1>20. CASE FlushFire
  BY <1>20, WritersAssumption DEF FlushFire, AtSelect
<1>21. CASE FlushStop
  BY <1>21 DEF FlushStop, AtSelect
<1>22. CASE Load
  BY <1>22 DEF Load
<1>23. CASE LoadFails
  BY <1>23 DEF LoadFails, Forget
<1>24. CASE Start
  BY <1>24 DEF Start
<1>25. CASE Signal
  BY <1>25 DEF Signal
<1>26. CASE StopWrites
  BY <1>26, WritersAssumption DEF StopWrites, Connected
<1>27. CASE CloseAllSSH
  BY <1>27 DEF CloseAllSSH, Dialers
<1>28. CASE Exit
  BY <1>28 DEF Exit, Gone
<1>29. CASE Crash
  BY <1>29 DEF Crash, Gone
<1>30. ASSUME NEW i \in Ids, NEW ok \in BOOLEAN, RestoreSession(i, ok)
      PROVE  WriteInv'
  BY <1>30 DEF RestoreSession, Forget
<1>31. ASSUME NEW i \in Ids, NEW ok \in BOOLEAN, RestoreForward(i, ok)
      PROVE  WriteInv'
  BY <1>31 DEF RestoreForward
<1>32. ASSUME NEW d \in Hosts, NEW ok \in BOOLEAN, RestoreHost(d, ok)
      PROVE  WriteInv'
  BY <1>32 DEF RestoreHost
<1>33. CASE UNCHANGED vars
  BY <1>33 DEF vars, managers, flusher, calls, writes, history, reasons
<1> QED
  BY <1>1, <1>2, <1>3, <1>4, <1>5, <1>6, <1>7, <1>8, <1>9, <1>10, <1>11,
     <1>12, <1>13, <1>14, <1>15, <1>16, <1>17, <1>18, <1>19, <1>20, <1>21,
     <1>22, <1>23, <1>24, <1>25, <1>26, <1>27, <1>28, <1>29, <1>30, <1>31,
     <1>32, <1>33
  DEF Next, WriterStep, CallStep, MainStep

\* The types of all variables, and that open forwards belong to sessions in
\* the map, whatever the calls, writers, crashes and restarts do.
THEOREM TypeCorrect == Spec => []TypeOK
<1>1. Init => TypeOK
  <2>1. Empty \in Snapshots
    BY DEF Empty, Snapshots
  <2> QED
    BY <2>1 DEF Init, TypeOK
<1> QED
  BY <1>1, TypeNext, PTL DEF Spec

\* WriteInv holds of every behaviour.
LEMMA WriteInvariant == Spec => []WriteInv
<1>1. Init => WriteInv
  BY WritersAssumption DEF Init, WriteInv, OneWriter, KeptInv, StoppedInv, Captured, Empty, Writers
<1> QED
  BY <1>1, TypeCorrect, WriteNext, PTL DEF Spec

\* As long as the snapshot tool is not used, no write of the flusher or of
\* Stop and no crash or restart takes the record of a session out of
\* state.json before somebody gives the session up.
THEOREM RecordsAreKept == Spec => []RecordsStay
<1>1. WriteInv => RecordsStay
  BY DEF WriteInv, KeptInv, RecordsStay, SnapshotIsFence
<1> QED
  BY <1>1, WriteInvariant, PTL

\* A clean shutdown leaves every session that was connected when Stop began
\* to write in state.json, whatever calls are still running.
THEOREM ShutdownSaves == Spec => []ShutdownKeeps
<1>1. WriteInv => ShutdownKeeps
  BY DEF WriteInv, StoppedInv, ShutdownKeeps
<1> QED
  BY <1>1, WriteInvariant, PTL
=============================================================================
