-------------------------- MODULE RendezvousProofs --------------------------
(***************************************************************************)
(* One daemon at a time, for any number of daemons, launchers and inodes   *)
(* and any number of crashes.                                              *)
(***************************************************************************)
EXTENDS Rendezvous, FiniteSetTheorems, TLAPS

\* The points at which a daemon has the flock, and those at which the lock
\* file has its pid.
WithPid == {"listen", "publish", "load", "serving", "stopping", "hung", "unlock"}
Locked == {"truncate", "pid"} \cup WithPid

LauncherPoints == {"off", "look", "remove", "readpid", "wait", "spawn", "await", "have"}

TypeOK ==
  /\ pc \in [Daemons -> {"gone", "open", "flock", "unlink"} \cup Locked]
  /\ at \in [Launchers -> LauncherPoints]
  /\ fd \in [Daemons -> Inodes \cup {None}]
  /\ path \in Inodes \cup {None}
  /\ pid \in [Inodes -> Daemons \cup {None}]
  /\ holder \in [Inodes -> Daemons \cup {None}]
  /\ handle \in Daemons \cup {None}
  /\ target \in [Launchers -> Daemons \cup {None}]
  /\ unlinked \in BOOLEAN

\* A daemon has the file open from OpenLock to its end; the flock of an inode
\* is held by a daemon that has that inode open, and every daemon past Flock
\* holds the flock of its own.
FlocksOK ==
  /\ \A d \in Daemons : fd[d] = None <=> pc[d] \in {"gone", "open"}
  /\ \A d \in Daemons : pc[d] \in Locked => holder[fd[d]] = d
  /\ \A i \in Inodes : holder[i] # None => fd[holder[i]] = i /\ pc[holder[i]] \in Locked

\* The pid in a lock file is the one of the daemon that holds its flock.
PidsOK == \A d \in Daemons : pc[d] \in WithPid => pid[fd[d]] = d

\* While no Release has removed the lock file of another daemon, all daemons
\* have the same inode open, the one at the path.
SameFile == unlinked \/ \A d \in Daemons : fd[d] # None => fd[d] = path

\* Under that premise a serving daemon is the one daemon.json names, unless a
\* launcher has just removed it.
HandleOK ==
  unlinked \/ \A d \in Daemons : pc[d] \in {"load", "serving"} =>
    handle = d \/ \E l \in Launchers : at[l] = "readpid"

\* The inductive invariant.
RendezvousInv == TypeOK /\ FlocksOK /\ PidsOK /\ SameFile /\ HandleOK

-----------------------------------------------------------------------------
(* What happens to a daemon, whoever does it                                *)

\* What the end, an interrupt or the start of a daemon leaves true.
Kept ==
  /\ pc' \in [Daemons -> {"gone", "open", "flock", "unlink"} \cup Locked]
  /\ fd' \in [Daemons -> Inodes \cup {None}]
  /\ holder' \in [Inodes -> Daemons \cup {None}]
  /\ FlocksOK' /\ PidsOK'
  /\ \A d \in Daemons : fd'[d] # None => fd'[d] = fd[d]
  /\ \A d \in Daemons : pc'[d] \in {"load", "serving"} => pc'[d] = pc[d]

\* A process that ends takes its flock with it and nobody else's.
LEMMA EndsKeeps ==
  ASSUME RendezvousInv, NEW d \in Daemons, Ends(d), pid' = pid
  PROVE  Kept /\ pc'[d] = "gone"
<1> USE RendezvousAssumption DEF RendezvousInv, TypeOK, Ends, Goto
<1>1. pc'[d] = "gone" /\ fd'[d] = None /\ \A e \in Daemons \ {d} : pc'[e] = pc[e] /\ fd'[e] = fd[e]
  OBVIOUS
<1>2. /\ pc' \in [Daemons -> {"gone", "open", "flock", "unlink"} \cup Locked]
      /\ fd' \in [Daemons -> Inodes \cup {None}]
      /\ holder' \in [Inodes -> Daemons \cup {None}]
  OBVIOUS
<1>3. FlocksOK'
  <2>1. \A e \in Daemons : fd'[e] = None <=> pc'[e] \in {"gone", "open"}
    BY <1>1 DEF FlocksOK
  <2>2. \A e \in Daemons : pc'[e] \in Locked => holder'[fd'[e]] = e
    BY <1>1, <1>2 DEF FlocksOK, Locked, WithPid
  <2>3. \A i \in Inodes : holder'[i] # None => fd'[holder'[i]] = i /\ pc'[holder'[i]] \in Locked
    BY <1>1, <1>2 DEF FlocksOK
  <2> QED
    BY <2>1, <2>2, <2>3 DEF FlocksOK
<1>4. PidsOK'
  BY <1>1 DEF PidsOK, WithPid
<1> QED
  BY <1>1, <1>2, <1>3, <1>4 DEF Kept

\* SIGINT stops a daemon that serves and ends one that starts.
LEMMA InterruptKeeps ==
  ASSUME RendezvousInv, NEW d \in Daemons, Interrupt(d), pid' = pid
  PROVE  Kept /\ pc'[d] \notin {"load", "serving"}
<1>0. TypeOK /\ FlocksOK /\ PidsOK
  BY DEF RendezvousInv
<1>1. CASE pc[d] \in Starting
  <2>1. Ends(d)
    BY <1>1 DEF Interrupt, Starting
  <2>2. Kept /\ pc'[d] = "gone"
    BY <2>1, EndsKeeps
  <2> QED
    BY <2>2
<1>2. CASE pc[d] = "serving"
  <2>1. /\ pc'[d] = "stopping" /\ \A e \in Daemons \ {d} : pc'[e] = pc[e]
        /\ fd' = fd /\ holder' = holder
    BY <1>0, <1>2 DEF Interrupt, Goto, Starting, TypeOK
  <2>2. pc' \in [Daemons -> {"gone", "open", "flock", "unlink"} \cup Locked]
    BY <1>0, <1>2 DEF Interrupt, Goto, Starting, Locked, WithPid, TypeOK
  <2>3. FlocksOK' /\ PidsOK'
    BY <1>0, <1>2, <2>1, <2>2, RendezvousAssumption DEF FlocksOK, PidsOK, Locked, WithPid, TypeOK
  <2> QED
    BY <1>0, <2>1, <2>2, <2>3 DEF Kept, TypeOK
<1>3. CASE pc[d] \notin Starting \cup {"serving"}
  <2>1. UNCHANGED <<pc, fd, holder>>
    BY <1>3 DEF Interrupt
  <2> QED
    BY <1>0, <1>3, <2>1 DEF Kept, FlocksOK, PidsOK, Starting, TypeOK
<1> QED
  BY <1>1, <1>2, <1>3

\* A process that starts is one that is not running.
LEMMA StartKeeps ==
  ASSUME RendezvousInv, StartDaemon, UNCHANGED <<fd, holder, pid>>
  PROVE  Kept
<1> USE RendezvousAssumption DEF RendezvousInv, TypeOK
<1>1. PICK d \in Daemons : FreshDaemon(d) /\ Goto(d, "open")
  BY DEF StartDaemon
<1>2. pc[d] = "gone" /\ pc'[d] = "open" /\ \A e \in Daemons \ {d} : pc'[e] = pc[e]
  BY <1>1 DEF FreshDaemon, Goto
<1>3. pc' \in [Daemons -> {"gone", "open", "flock", "unlink"} \cup Locked]
  BY <1>1 DEF Goto
<1>4. FlocksOK'
  BY <1>2, <1>3 DEF FlocksOK, Locked, WithPid
<1>5. PidsOK'
  BY <1>2 DEF PidsOK, WithPid
<1> QED
  BY <1>2, <1>3, <1>4, <1>5 DEF Kept

\* Two daemons that hold a flock have different inodes open, so as long as all
\* have the same one there is only one of them.
LEMMA OnlyOneLocked ==
  ASSUME RendezvousInv, ~unlinked, NEW d \in Daemons, NEW e \in Daemons,
         pc[d] \in Locked, pc[e] \in Locked
  PROVE  d = e /\ fd[d] = path /\ path # None
  BY DEF RendezvousInv, FlocksOK, SameFile, Locked, WithPid

\* The same file and the same handle, when neither is touched.
LEMMA KeptKeeps ==
  ASSUME RendezvousInv, Kept, UNCHANGED <<files, unlinked>>,
         at' \in [Launchers -> LauncherPoints],
         target' \in [Launchers -> Daemons \cup {None}],
         \A l \in Launchers : at[l] = "readpid" => at'[l] = "readpid"
  PROVE  RendezvousInv'
<1>1. TypeOK'
  BY DEF RendezvousInv, TypeOK, Kept, files
<1>2. SameFile'
  BY DEF RendezvousInv, SameFile, Kept, files
<1>3. HandleOK'
  BY DEF RendezvousInv, HandleOK, Kept, files
<1> QED
  BY <1>1, <1>2, <1>3 DEF RendezvousInv, Kept

-----------------------------------------------------------------------------
(* Every step keeps the invariant                                           *)

\* The steps of the daemon itself.
LEMMA DaemonNext ==
  ASSUME RendezvousInv, NEW d \in Daemons, DaemonStep(d)
  PROVE  RendezvousInv'
<1> USE RendezvousAssumption DEF files
<1>0. TypeOK /\ FlocksOK /\ PidsOK /\ SameFile /\ HandleOK
  BY DEF RendezvousInv
<1>1. CASE OpenLock(d)
  <2>1. /\ pc[d] = "open" /\ fd[d] = None /\ path' \in Inodes
        /\ path = None => \A e \in Daemons : fd[e] # path'
        /\ path # None => path' = path
        /\ pid' \in [Inodes -> Daemons \cup {None}]
        /\ \A i \in Inodes : i # path' \/ path # None => pid'[i] = pid[i]
    <3>1. CASE path # None
      BY <1>0, <1>1, <3>1 DEF OpenLock, FlocksOK, TypeOK
    <3>2. CASE path = None
      <4>1. PICK i \in Inodes : FreshInode(i) /\ path' = i /\ pid' = [pid EXCEPT ![i] = None]
        BY <1>1, <3>2 DEF OpenLock
      <4> QED
        BY <1>0, <1>1, <3>2, <4>1 DEF OpenLock, FreshInode, FlocksOK, TypeOK
    <3> QED
      BY <3>1, <3>2
  <2>2. /\ pc'[d] = "flock" /\ \A e \in Daemons \ {d} : pc'[e] = pc[e]
        /\ fd'[d] = path' /\ \A e \in Daemons \ {d} : fd'[e] = fd[e]
        /\ UNCHANGED <<at, holder, handle, target, unlinked>>
    BY <1>0, <1>1 DEF OpenLock, Goto, TypeOK
  <2>3. TypeOK'
    BY <1>0, <1>1, <2>1 DEF OpenLock, Goto, TypeOK
  <2>4. FlocksOK'
    BY <1>0, <2>1, <2>2 DEF FlocksOK, TypeOK, Locked, WithPid
  <2>5. PidsOK'
    BY <1>0, <2>1, <2>2 DEF FlocksOK, PidsOK, TypeOK, WithPid
  <2>6. SameFile'
    BY <1>0, <2>1, <2>2 DEF SameFile
  <2>7. HandleOK'
    BY <1>0, <2>1, <2>2 DEF HandleOK
  <2> QED
    BY <2>3, <2>4, <2>5, <2>6, <2>7 DEF RendezvousInv
<1>2. CASE Flock(d)
  <2>1. CASE ~MayLock(d)
    <3>1. Kept
      BY <1>2, <2>1, EndsKeeps DEF Flock
    <3> QED
      BY <1>0, <1>2, <3>1, KeptKeeps DEF Flock, TypeOK
  <2>2. CASE MayLock(d)
    <3>1. /\ pc[d] = "flock" /\ pc'[d] = "truncate" /\ \A e \in Daemons \ {d} : pc'[e] = pc[e]
          /\ fd[d] \in Inodes /\ holder[fd[d]] = None
          /\ holder'[fd[d]] = d /\ \A i \in Inodes : i # fd[d] => holder'[i] = holder[i]
          /\ UNCHANGED <<fd, at, files, target, unlinked>>
      BY <1>0, <1>2, <2>2 DEF Flock, MayLock, Goto, TypeOK, FlocksOK
    <3>2. /\ pc' \in [Daemons -> {"gone", "open", "flock", "unlink"} \cup Locked]
          /\ holder' \in [Inodes -> Daemons \cup {None}]
      BY <1>0, <1>2, <2>2 DEF Flock, Goto, TypeOK, Locked
    <3>3. FlocksOK'
      BY <1>0, <3>1, <3>2 DEF FlocksOK, TypeOK, Locked, WithPid
    <3>4. PidsOK'
      BY <1>0, <3>1 DEF PidsOK, WithPid
    <3>5. Kept
      BY <1>0, <3>1, <3>2, <3>3, <3>4 DEF Kept, TypeOK
    <3> QED
      BY <1>0, <3>1, <3>5, KeptKeeps DEF TypeOK
  <2> QED
    BY <2>1, <2>2
<1>3. CASE WritePid(d)
  <2>1. /\ pc[d] \in {"truncate", "pid"} /\ pc'[d] \in {"pid", "listen"}
        /\ \A e \in Daemons \ {d} : pc'[e] = pc[e]
        /\ fd[d] \in Inodes /\ \A i \in Inodes : i # fd[d] => pid'[i] = pid[i]
        /\ pc'[d] = "listen" => pid'[fd[d]] = d
        /\ UNCHANGED <<at, fd, path, holder, handle, target, unlinked>>
    BY <1>0, <1>3 DEF WritePid, Goto, TypeOK, FlocksOK
  <2>2. TypeOK'
    BY <1>0, <1>3 DEF WritePid, Goto, TypeOK, Locked, WithPid
  <2>3. FlocksOK'
    BY <1>0, <2>1 DEF FlocksOK, TypeOK, Locked, WithPid
  <2>4. PidsOK'
    BY <1>0, <2>1 DEF PidsOK, FlocksOK, TypeOK, Locked, WithPid
  <2>5. SameFile' /\ HandleOK'
    BY <1>0, <2>1 DEF SameFile, HandleOK
  <2> QED
    BY <2>2, <2>3, <2>4, <2>5 DEF RendezvousInv
<1>4. CASE Publish(d)
  <2>1. /\ pc[d] \in {"listen", "publish", "load"} /\ pc'[d] \in {"publish", "load", "serving"}
        /\ \A e \in Daemons \ {d} : pc'[e] = pc[e]
        /\ pc'[d] = "load" => handle' = d
        /\ pc'[d] # "load" => handle' = handle
        /\ pc'[d] = "serving" => pc[d] = "load"
        /\ UNCHANGED <<at, fd, path, pid, holder, target, unlinked>>
    BY <1>0, <1>4 DEF Publish, Goto, TypeOK
  <2>2. TypeOK'
    BY <1>0, <1>4 DEF Publish, Goto, TypeOK, Locked, WithPid
  <2>3. FlocksOK' /\ PidsOK'
    BY <1>0, <2>1 DEF FlocksOK, PidsOK, TypeOK, Locked, WithPid
  <2>4. SameFile'
    BY <1>0, <2>1 DEF SameFile
  <2>5. HandleOK'
    <3>1. ASSUME ~unlinked, NEW e \in Daemons, pc'[e] \in {"load", "serving"}
          PROVE  e = d
      BY <2>1, <3>1, OnlyOneLocked DEF Locked, WithPid
    <3> QED
      BY <1>0, <2>1, <3>1 DEF HandleOK
  <2> QED
    BY <2>2, <2>3, <2>4, <2>5 DEF RendezvousInv
<1>5. CASE Stop(d)
  <2>1. /\ pc[d] \in {"stopping", "unlock"} /\ pc'[d] \in {"unlock", "unlink"}
        /\ \A e \in Daemons \ {d} : pc'[e] = pc[e]
        /\ UNCHANGED <<at, fd, path, pid, target, unlinked>>
    BY <1>0, <1>5 DEF Stop, Goto, TypeOK
  <2>2. /\ pc'[d] = "unlock" => holder' = holder
        /\ pc'[d] = "unlink" => /\ holder'[fd[d]] = None
                                /\ \A i \in Inodes : i # fd[d] => holder'[i] = holder[i]
    BY <1>0, <1>5 DEF Stop, Goto, TypeOK, FlocksOK
  <2>3. TypeOK'
    BY <1>0, <1>5 DEF Stop, Goto, TypeOK, Locked, WithPid
  <2>4. FlocksOK'
    <3>1. \A e \in Daemons : fd'[e] = None <=> pc'[e] \in {"gone", "open"}
      BY <1>0, <2>1 DEF FlocksOK
    <3>2. \A e \in Daemons : pc'[e] \in Locked => holder'[fd'[e]] = e
      BY <1>0, <2>1, <2>2 DEF FlocksOK, TypeOK, Locked, WithPid
    <3>3. \A i \in Inodes : holder'[i] # None => fd'[holder'[i]] = i /\ pc'[holder'[i]] \in Locked
      BY <1>0, <2>1, <2>2 DEF FlocksOK, TypeOK, Locked, WithPid
    <3> QED
      BY <3>1, <3>2, <3>3 DEF FlocksOK
  <2>5. PidsOK' /\ SameFile'
    BY <1>0, <2>1 DEF PidsOK, SameFile, WithPid
  <2>6. HandleOK'
    <3>1. ASSUME ~unlinked, NEW e \in Daemons, pc'[e] \in {"load", "serving"}
          PROVE  FALSE
      BY <2>1, <3>1, OnlyOneLocked DEF Locked, WithPid
    <3> QED
      BY <2>1, <3>1 DEF HandleOK
  <2> QED
    BY <2>3, <2>4, <2>5, <2>6 DEF RendezvousInv
<1>6. CASE Unlink(d)
  <2>1. Kept
    BY <1>6, EndsKeeps DEF Unlink
  <2>2. TypeOK'
    BY <1>0, <1>6, <2>1 DEF Unlink, Kept, TypeOK
  <2>3. SameFile'
    <3>1. ASSUME ~unlinked', NEW e \in Daemons, fd'[e] # None
          PROVE  FALSE
      <4>1. e # d
        BY <1>0, <1>6, <3>1 DEF Unlink, Ends, TypeOK
      <4>2. ~unlinked /\ fd[e] # None /\ fd[e] # path
        BY <1>0, <1>6, <2>1, <3>1, <4>1 DEF Unlink, Kept, TypeOK
      <4> QED
        BY <1>0, <4>2 DEF SameFile
    <3> QED
      BY <3>1 DEF SameFile
  <2>4. HandleOK'
    BY <1>0, <1>6, <2>1 DEF Unlink, Kept, HandleOK
  <2> QED
    BY <2>1, <2>2, <2>3, <2>4 DEF RendezvousInv, Kept
<1> QED
  BY <1>1, <1>2, <1>3, <1>4, <1>5, <1>6 DEF DaemonStep

\* Two ways to leave the daemons alone: Look, WaitForHandle, BridgeFails,
\* Arrive and Leave touch no file either.
LEMMA QuietLauncher ==
  ASSUME RendezvousInv, NEW l \in Launchers,
         Look(l) \/ WaitForHandle(l) \/ BridgeFails(l) \/ Arrive(l) \/ Leave(l)
  PROVE  RendezvousInv'
<1> USE RendezvousAssumption
<1>0. TypeOK /\ FlocksOK /\ PidsOK
  BY DEF RendezvousInv
<1>1. UNCHANGED <<pc, fd, holder, files, unlinked>>
  BY DEF Look, WaitForHandle, BridgeFails, Arrive, Leave
<1>2. Kept
  BY <1>0, <1>1 DEF Kept, TypeOK, FlocksOK, PidsOK, files
<1>3. handle \in Listening => handle \in Daemons
  BY DEF Listening
<1>4. /\ at' \in [Launchers -> LauncherPoints]
      /\ \A m \in Launchers : at[m] = "readpid" => at'[m] = "readpid"
  BY <1>0 DEF Look, WaitForHandle, BridgeFails, Arrive, Leave, Use, GoOn, TypeOK, LauncherPoints
<1>5. target' \in [Launchers -> Daemons \cup {None}]
  BY <1>0 DEF Look, WaitForHandle, BridgeFails, Arrive, Leave, Use, TypeOK
<1> QED
  BY <1>1, <1>2, <1>4, <1>5, KeptKeeps

\* killStaleDaemon and spawnDaemon: a launcher that reads a pid stops the one
\* daemon there is.
LEMMA ReplacingLauncher ==
  ASSUME RendezvousInv, NEW l \in Launchers,
         RemoveHandle(l) \/ InterruptStale(l) \/ WaitForExit(l) \/ SpawnDaemon(l)
  PROVE  RendezvousInv'
<1> USE RendezvousAssumption
<1>0. TypeOK /\ FlocksOK /\ PidsOK /\ SameFile /\ HandleOK
  BY DEF RendezvousInv
<1>1. CASE RemoveHandle(l)
  <2>1. TypeOK'
    BY <1>0, <1>1 DEF RemoveHandle, GoOn, TypeOK, LauncherPoints
  <2>2. FlocksOK' /\ PidsOK' /\ SameFile'
    BY <1>0, <1>1 DEF RemoveHandle, FlocksOK, PidsOK, SameFile
  <2>3. HandleOK'
    BY <1>0, <1>1 DEF RemoveHandle, GoOn, HandleOK, TypeOK
  <2> QED
    BY <2>1, <2>2, <2>3 DEF RendezvousInv
<1>2. CASE InterruptStale(l)
  <2> DEFINE p == IF path = None THEN None ELSE pid[path]
  <2>1. /\ UNCHANGED <<files, unlinked>>
        /\ at' \in [Launchers -> LauncherPoints]
    BY <1>0, <1>2 DEF InterruptStale, GoOn, TypeOK, LauncherPoints
  <2>2. ~unlinked => \A d \in Daemons : pc[d] \in {"load", "serving"} => d = p
    <3>1. ASSUME ~unlinked, NEW d \in Daemons, pc[d] \in {"load", "serving"}
          PROVE  d = p
      <4>1. fd[d] = path /\ path # None
        BY <3>1, OnlyOneLocked DEF Locked, WithPid
      <4> QED
        BY <1>0, <3>1, <4>1 DEF PidsOK, WithPid
    <3> QED
      BY <3>1
  <2>3. CASE p = None
    <3>1. UNCHANGED <<pc, fd, holder, target>>
      BY <1>2, <2>3 DEF InterruptStale
    <3>2. TypeOK' /\ FlocksOK' /\ PidsOK' /\ SameFile'
      BY <1>0, <2>1, <3>1 DEF TypeOK, FlocksOK, PidsOK, SameFile, files
    <3>3. HandleOK'
      BY <2>1, <2>2, <2>3, <3>1 DEF HandleOK
    <3> QED
      BY <3>2, <3>3 DEF RendezvousInv
  <2>4. CASE p # None
    <3>1. p \in Daemons /\ Interrupt(p) /\ target' = [target EXCEPT ![l] = p]
      BY <1>0, <1>2, <2>4 DEF InterruptStale, TypeOK
    <3> HIDE DEF p
    <3>2. Kept /\ pc'[p] \notin {"load", "serving"}
      BY <2>1, <3>1, InterruptKeeps DEF files
    <3>3. TypeOK'
      BY <1>0, <2>1, <3>1, <3>2 DEF TypeOK, Kept, files
    <3>4. SameFile'
      BY <1>0, <2>1, <3>2 DEF SameFile, Kept, files
    <3>5. HandleOK'
      BY <2>1, <2>2, <3>2 DEF HandleOK, Kept
    <3> QED
      BY <3>2, <3>3, <3>4, <3>5 DEF RendezvousInv, Kept
  <2> QED
    BY <2>3, <2>4
<1>3. CASE WaitForExit(l)
  <2>1. /\ UNCHANGED <<files, unlinked>>
        /\ at' \in [Launchers -> LauncherPoints]
        /\ target' \in [Launchers -> Daemons \cup {None}]
        /\ \A m \in Launchers : at[m] = "readpid" => at'[m] = "readpid"
    BY <1>0, <1>3 DEF WaitForExit, GoOn, TypeOK, LauncherPoints
  <2>2. CASE UNCHANGED <<pc, fd, holder>>
    <3>1. Kept
      BY <1>0, <2>1, <2>2 DEF Kept, TypeOK, FlocksOK, PidsOK, files
    <3> QED
      BY <2>1, <3>1, KeptKeeps
  <2>3. CASE target[l] \in Daemons /\ Ends(target[l])
    <3>1. Kept
      BY <2>1, <2>3, EndsKeeps DEF files
    <3> QED
      BY <2>1, <3>1, KeptKeeps
  <2>4. CASE target[l] = None /\ Ends(target[l])
    <3>1. UNCHANGED <<pc, fd, holder>>
      BY <1>0, <2>4 DEF Ends, Goto, TypeOK
    <3> QED
      BY <2>2, <3>1
  <2>5. target[l] \in Daemons \cup {None}
    BY <1>0 DEF TypeOK
  <2> QED
    BY <1>3, <2>2, <2>3, <2>4, <2>5 DEF WaitForExit, KillStale
<1>4. CASE SpawnDaemon(l)
  <2>1. /\ UNCHANGED <<fd, holder, files, target, unlinked>> /\ StartDaemon
        /\ at' \in [Launchers -> LauncherPoints]
        /\ \A m \in Launchers : at[m] = "readpid" => at'[m] = "readpid"
    BY <1>0, <1>4 DEF SpawnDaemon, GoOn, TypeOK, LauncherPoints
  <2>2. Kept
    BY <2>1, StartKeeps DEF files
  <2> QED
    BY <1>0, <2>1, <2>2, KeptKeeps DEF TypeOK
<1> QED
  BY <1>1, <1>2, <1>3, <1>4

\* Crashes, hangs, stops by the user and daemons started by hand.
LEMMA FaultNext ==
  ASSUME RendezvousInv, StartedByHand \/ \E d \in Daemons : Fault(d)
  PROVE  RendezvousInv'
<1> USE RendezvousAssumption
<1>0. TypeOK /\ FlocksOK /\ PidsOK /\ SameFile /\ HandleOK
  BY DEF RendezvousInv
<1>1. UNCHANGED <<at, files, target, unlinked>>
  BY DEF StartedByHand, Fault
<1>2. CASE StartedByHand
  <2>1. Kept
    BY <1>2, StartKeeps DEF StartedByHand, files
  <2> QED
    BY <1>0, <1>1, <2>1, KeptKeeps DEF TypeOK
<1>3. ASSUME NEW d \in Daemons, Fault(d)
      PROVE  Kept
  <2>1. CASE Ends(d)
    BY <1>1, <2>1, EndsKeeps DEF files
  <2>2. CASE Interrupt(d)
    BY <1>1, <2>2, InterruptKeeps DEF files
  <2>3. CASE pc[d] = "serving" /\ Goto(d, "hung") /\ UNCHANGED <<fd, holder>>
    <3>1. pc'[d] = "hung" /\ \A e \in Daemons \ {d} : pc'[e] = pc[e]
      BY <1>0, <2>3 DEF Goto, TypeOK
    <3>2. pc' \in [Daemons -> {"gone", "open", "flock", "unlink"} \cup Locked]
      BY <1>0, <2>3 DEF Goto, TypeOK, Locked, WithPid
    <3>3. FlocksOK' /\ PidsOK'
      BY <1>0, <1>1, <2>3, <3>1, <3>2 DEF FlocksOK, PidsOK, Locked, WithPid, TypeOK, files
    <3> QED
      BY <1>0, <2>3, <3>1, <3>2, <3>3 DEF Kept, TypeOK
  <2> QED
    BY <1>3, <2>1, <2>2, <2>3 DEF Fault
<1> QED
  BY <1>0, <1>1, <1>2, <1>3, KeptKeeps DEF TypeOK

-----------------------------------------------------------------------------
(* The theorems                                                             *)

\* The strengthening holds in every state.
LEMMA RendezvousInvariant == Spec => []RendezvousInv
<1>1. Init => RendezvousInv
  <2> SUFFICES ASSUME Init
               PROVE  RendezvousInv
    OBVIOUS
  <2>1. TypeOK
    BY DEF Init, TypeOK, LauncherPoints
  <2>2. FlocksOK /\ PidsOK
    BY DEF Init, FlocksOK, PidsOK, Locked, WithPid
  <2>3. SameFile /\ HandleOK
    BY DEF Init, SameFile, HandleOK
  <2> QED
    BY <2>1, <2>2, <2>3 DEF RendezvousInv
<1>2. ASSUME RendezvousInv, [Next]_vars
      PROVE  RendezvousInv'
  <2>1. CASE UNCHANGED vars
    BY <1>2, <2>1
       DEF vars, files, RendezvousInv, TypeOK, FlocksOK, PidsOK, SameFile, HandleOK
  <2> QED
    BY <1>2, <2>1, DaemonNext, QuietLauncher, ReplacingLauncher, FaultNext DEF Next, LauncherStep
<1> QED
  BY <1>1, <1>2, PTL DEF Spec

\* However many launchers and users start, stop and kill daemons, and wherever
\* daemons crash, two never serve at the same time unless the window between
\* the unlock and the removal of the lock file was hit.
THEOREM OneDaemonAtATime == Spec => []OneDaemon
<1>1. RendezvousInv => OneDaemon
  <2> SUFFICES ASSUME RendezvousInv, ~unlinked
               PROVE  Cardinality({d \in Daemons : pc[d] \in {"load", "serving"}}) <= 1
    BY DEF OneDaemon
  <2> DEFINE S == {d \in Daemons : pc[d] \in {"load", "serving"}}
  <2>1. \A d, e \in S : d = e
    BY OnlyOneLocked DEF Locked, WithPid
  <2>2. CASE S = {}
    BY <2>2, FS_EmptySet
  <2>3. CASE S # {}
    <3>1. PICK d \in S : S = {d}
      BY <2>1, <2>3
    <3> QED
      BY <3>1, FS_Singleton
  <2> QED
    BY <2>2, <2>3
<1> QED
  BY <1>1, RendezvousInvariant, PTL

\* Under the same premise a serving daemon can always be found and replaced:
\* its pid is in the lock file at the path, and its handle is in place or a
\* launcher is about to stop it.
THEOREM NoOrphanDaemonEver == Spec => []NoOrphanDaemon
<1>1. RendezvousInv => NoOrphanDaemon
  <2> SUFFICES ASSUME RendezvousInv, ~unlinked, NEW d \in Daemons, pc[d] \in {"load", "serving"}
               PROVE  /\ path # None /\ pid[path] = d
                      /\ handle = d \/ \E l \in Launchers : at[l] = "readpid"
    BY DEF NoOrphanDaemon
  <2>1. fd[d] = path /\ path # None
    BY OnlyOneLocked DEF Locked, WithPid
  <2> QED
    BY <2>1 DEF RendezvousInv, PidsOK, HandleOK, WithPid
<1> QED
  BY <1>1, RendezvousInvariant, PTL
=============================================================================
