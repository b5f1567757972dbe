------------------------- MODULE ShellRegistryProofs -------------------------
(***************************************************************************)
(* The shell table of a session, for any number of shells, ids and calls.  *)
(***************************************************************************)
EXTENDS ShellRegistry, TLAPS

\* The points of Shell.Close.
Closing == {"cas", "hangup", "select", "closing"}

\* A shell anything refers to has an id, and an entry is found under the id
\* of its shell.
IdsOK ==
  /\ \A sh \in Shells : wpc[sh] # "off" => sid[sh] \in ShellIds
  /\ \A id \in ShellIds : table[id] # None => sid[table[id]] = id
  /\ \A h \in Closers : hsh[h] # None => sid[hsh[h]] \in ShellIds

\* How far a shell's end has got: Wait is in progress while its process runs,
\* and only a call that is about to hang up leaves a closed shell running.
EndsOK ==
  /\ \A sh \in Shells : alive[sh] => wpc[sh] = "wait"
  /\ \A sh \in Shells : wpc[sh] \in {"select", "closing", "remove"} => closed[sh]
  /\ \A sh \in Shells :
       alive[sh] /\ closed[sh] => \E h \in Closers : hsh[h] = sh /\ hpc[h] = "hangup"
  /\ \A h \in Closers : hpc[h] \in {"hangup", "select", "closing"} => closed[hsh[h]]
  /\ \A h \in Closers : hpc[h] \in {"select", "closing"} => ~alive[hsh[h]]

\* The drain holds shellsMu from its first entry to its last, so the entry it
\* takes out is still the shell it has closed; nothing starts it but close.
DrainOK ==
  /\ hpc[Drainer] \notin {"open", "register"}
  /\ hpc[Drainer] # "idle" => sclosed
  /\ hpc[Drainer] \in Closing \cup {"drain"} => shellsMu = Drainer
  /\ hpc[Drainer] \in Closing => table[sid[hsh[Drainer]]] = hsh[Drainer]
  /\ \A h \in Handlers : hpc[h] \notin {"lock", "drain", "drained", "over"}

\* The inductive invariant.
RegistryInv ==
  TypeOK /\ IdsOK /\ EndsOK /\ DrainOK /\ NoStrayProcess /\ ClosedSessionIsEmpty

\* The types, and the shell a call in Register or Shell.Close has, for any
\* number of steps.
LEMMA TypeNext == RegistryInv /\ [Next]_vars => TypeOK'
<1> SUFFICES ASSUME RegistryInv, [Next]_vars
             PROVE  TypeOK'
  OBVIOUS
<1> USE RegistryAssumption DEF RegistryInv, TypeOK, Closers, At, Goto
<1>1. ASSUME NEW h \in Handlers, OpenBegin(h)
      PROVE  TypeOK'
  BY <1>1 DEF OpenBegin
<1>2. ASSUME NEW h \in Handlers, OpenFails(h)
      PROVE  TypeOK'
  BY <1>2 DEF OpenFails
<1>3. ASSUME NEW h \in Handlers, NEW id \in ShellIds, OpenShell(h, id)
      PROVE  TypeOK'
  BY <1>3 DEF OpenShell, Fresh
<1>4. ASSUME NEW h \in Handlers, Register(h)
      PROVE  TypeOK'
  BY <1>4 DEF Register
<1>5. ASSUME NEW h \in Handlers, RegisterRefused(h)
      PROVE  TypeOK'
  BY <1>5 DEF RegisterRefused
<1>6. ASSUME NEW h \in Handlers, NEW id \in ShellIds, CloseShell(h, id)
      PROVE  TypeOK'
  BY <1>6 DEF CloseShell
<1>7. ASSUME NEW h \in Closers, CloseCas(h)
      PROVE  TypeOK'
  BY <1>7 DEF CloseCas
<1>8. ASSUME NEW h \in Closers, CloseSelectDefault(h)
      PROVE  TypeOK'
  BY <1>8 DEF CloseSelectDefault
<1>9. ASSUME NEW h \in Closers, CloseHangup(h)
      PROVE  TypeOK'
  BY <1>9 DEF CloseHangup
<1>10. ASSUME NEW h \in Closers, CloseLost(h)
      PROVE  TypeOK'
  BY <1>10 DEF CloseLost, CloseReturn
<1>11. ASSUME NEW h \in Closers, CloseSelectDone(h)
      PROVE  TypeOK'
  BY <1>11 DEF CloseSelectDone, CloseReturn
<1>12. ASSUME NEW h \in Closers, CloseDone(h)
      PROVE  TypeOK'
  BY <1>12 DEF CloseDone, CloseReturn
<1>13. ASSUME NEW sh \in Shells, Exit(sh)
      PROVE  TypeOK'
  BY <1>13 DEF Exit
<1>14. ASSUME NEW sh \in Shells, WaitReturns(sh)
      PROVE  TypeOK'
  BY <1>14 DEF WaitReturns
<1>15. ASSUME NEW sh \in Shells, WaitSelect(sh)
      PROVE  TypeOK'
  BY <1>15 DEF WaitSelect
<1>16. ASSUME NEW sh \in Shells, WaitDone(sh)
      PROVE  TypeOK'
  BY <1>16 DEF WaitDone
<1>17. ASSUME NEW sh \in Shells, Remove(sh)
      PROVE  TypeOK'
  BY <1>17 DEF Remove
<1>18. CASE SessionClose
  BY <1>18 DEF SessionClose
<1>19. CASE DrainLock
  BY <1>19 DEF DrainLock
<1>20. CASE DrainEnd
  BY <1>20 DEF DrainEnd
<1>21. CASE ClearClient
  BY <1>21 DEF ClearClient
<1>22. ASSUME NEW id \in ShellIds, DrainNext(id)
      PROVE  TypeOK'
  BY <1>22 DEF DrainNext
<1>23. CASE UNCHANGED vars
  BY <1>23 DEF vars
<1> QED
  BY <1>1, <1>2, <1>3, <1>4, <1>5, <1>6, <1>7, <1>8, <1>9, <1>10, <1>11, <1>12,
     <1>13, <1>14, <1>15, <1>16, <1>17, <1>18, <1>19, <1>20, <1>21, <1>22, <1>23
     DEF Next, Ended, CloseStep, WaitStep

\* A shell's id is set before anything refers to the shell, and a registered
\* shell keeps it: only an object nothing refers to is taken for a new shell.
LEMMA IdsNext == RegistryInv /\ [Next]_vars => IdsOK'
<1> SUFFICES ASSUME RegistryInv, [Next]_vars
             PROVE  IdsOK'
  OBVIOUS
<1> USE RegistryAssumption DEF RegistryInv, TypeOK, IdsOK, DrainOK, Closers, Closing, At, Goto
<1>1. ASSUME NEW h \in Handlers, OpenBegin(h) \/ OpenFails(h)
      PROVE  IdsOK'
  BY <1>1 DEF OpenBegin, OpenFails
<1>2. ASSUME NEW h \in Handlers, NEW id \in ShellIds, OpenShell(h, id)
      PROVE  IdsOK'
  BY <1>2 DEF OpenShell, Fresh
<1>3. ASSUME NEW h \in Handlers, Register(h)
      PROVE  IdsOK'
  BY <1>3 DEF Register
<1>4. ASSUME NEW h \in Handlers, RegisterRefused(h)
      PROVE  IdsOK'
  BY <1>4 DEF RegisterRefused
<1>5. ASSUME NEW h \in Handlers, NEW id \in ShellIds, CloseShell(h, id)
      PROVE  IdsOK'
  BY <1>5 DEF CloseShell
<1>6. ASSUME NEW h \in Closers, CloseCas(h) \/ CloseSelectDefault(h)
      PROVE  IdsOK'
  BY <1>6 DEF CloseCas, CloseSelectDefault
<1>7. ASSUME NEW h \in Closers, CloseHangup(h)
      PROVE  IdsOK'
  BY <1>7 DEF CloseHangup
<1>8. ASSUME NEW h \in Closers, CloseLost(h) \/ CloseSelectDone(h) \/ CloseDone(h)
      PROVE  IdsOK'
  BY <1>8 DEF CloseLost, CloseSelectDone, CloseDone, CloseReturn
<1>9. ASSUME NEW sh \in Shells, Exit(sh) \/ WaitReturns(sh)
      PROVE  IdsOK'
  BY <1>9 DEF Exit, WaitReturns
<1>10. ASSUME NEW sh \in Shells, WaitSelect(sh) \/ WaitDone(sh)
      PROVE  IdsOK'
  BY <1>10 DEF WaitSelect, WaitDone
<1>11. ASSUME NEW sh \in Shells, Remove(sh)
      PROVE  IdsOK'
  BY <1>11 DEF Remove
<1>12. CASE SessionClose \/ DrainLock \/ DrainEnd \/ ClearClient
  BY <1>12 DEF SessionClose, DrainLock, DrainEnd, ClearClient
<1>13. ASSUME NEW id \in ShellIds, DrainNext(id)
      PROVE  IdsOK'
  BY <1>13 DEF DrainNext
<1>14. CASE UNCHANGED vars
  BY <1>14 DEF vars
<1> QED
  BY <1>1, <1>2, <1>3, <1>4, <1>5, <1>6, <1>7, <1>8, <1>9, <1>10, <1>11, <1>12,
     <1>13, <1>14 DEF Next, Ended, CloseStep, WaitStep

\* The CAS on Shell.closed is won by the call that hangs up, or by Wait once
\* the process is gone.
LEMMA EndsNext == RegistryInv /\ [Next]_vars => EndsOK'
<1> SUFFICES ASSUME RegistryInv, [Next]_vars
             PROVE  EndsOK'
  OBVIOUS
<1> USE RegistryAssumption DEF RegistryInv, TypeOK, EndsOK, Closers, Closing, At, Goto
<1>1. ASSUME NEW h \in Handlers, OpenBegin(h) \/ OpenFails(h)
      PROVE  EndsOK'
  BY <1>1 DEF OpenBegin, OpenFails
<1>2. ASSUME NEW h \in Handlers, NEW id \in ShellIds, OpenShell(h, id)
      PROVE  EndsOK'
  BY <1>2 DEF OpenShell, Fresh
<1>3. ASSUME NEW h \in Handlers, Register(h)
      PROVE  EndsOK'
  BY <1>3 DEF Register
<1>4. ASSUME NEW h \in Handlers, RegisterRefused(h)
      PROVE  EndsOK'
  BY <1>4 DEF RegisterRefused
<1>5. ASSUME NEW h \in Handlers, NEW id \in ShellIds, CloseShell(h, id)
      PROVE  EndsOK'
  BY <1>5 DEF CloseShell
<1>6. ASSUME NEW h \in Closers, CloseCas(h) \/ CloseSelectDefault(h)
      PROVE  EndsOK'
  BY <1>6 DEF CloseCas, CloseSelectDefault
<1>7. ASSUME NEW h \in Closers, CloseHangup(h)
      PROVE  EndsOK'
  BY <1>7 DEF CloseHangup
<1>8. ASSUME NEW h \in Closers, CloseLost(h) \/ CloseSelectDone(h) \/ CloseDone(h)
      PROVE  EndsOK'
  BY <1>8 DEF CloseLost, CloseSelectDone, CloseDone, CloseReturn
<1>9. ASSUME NEW sh \in Shells, Exit(sh) \/ WaitReturns(sh)
      PROVE  EndsOK'
  BY <1>9 DEF Exit, WaitReturns
<1>10. ASSUME NEW sh \in Shells, WaitSelect(sh) \/ WaitDone(sh)
      PROVE  EndsOK'
  BY <1>10 DEF WaitSelect, WaitDone
<1>11. ASSUME NEW sh \in Shells, Remove(sh)
      PROVE  EndsOK'
  BY <1>11 DEF Remove
<1>12. CASE SessionClose \/ DrainLock \/ DrainEnd \/ ClearClient
  BY <1>12 DEF SessionClose, DrainLock, DrainEnd, ClearClient
<1>13. ASSUME NEW id \in ShellIds, DrainNext(id)
      PROVE  EndsOK'
  BY <1>13 DEF DrainNext
<1>14. CASE UNCHANGED vars
  BY <1>14 DEF vars
<1> QED
  BY <1>1, <1>2, <1>3, <1>4, <1>5, <1>6, <1>7, <1>8, <1>9, <1>10, <1>11, <1>12,
     <1>13, <1>14 DEF Next, Ended, CloseStep, WaitStep

\* While the drain holds shellsMu nobody registers, takes out or auto-removes
\* an entry.
LEMMA DrainNextKeeps == RegistryInv /\ [Next]_vars => DrainOK'
<1> SUFFICES ASSUME RegistryInv, [Next]_vars
             PROVE  DrainOK'
  OBVIOUS
<1> USE RegistryAssumption DEF RegistryInv, TypeOK, DrainOK, IdsOK, Closers, Closing, At, Goto
<1>1. ASSUME NEW h \in Handlers, OpenBegin(h) \/ OpenFails(h)
      PROVE  DrainOK'
  BY <1>1 DEF OpenBegin, OpenFails
<1>2. ASSUME NEW h \in Handlers, NEW id \in ShellIds, OpenShell(h, id)
      PROVE  DrainOK'
  BY <1>2 DEF OpenShell, Fresh
<1>3. ASSUME NEW h \in Handlers, Register(h)
      PROVE  DrainOK'
  BY <1>3 DEF Register
<1>4. ASSUME NEW h \in Handlers, RegisterRefused(h)
      PROVE  DrainOK'
  BY <1>4 DEF RegisterRefused
<1>5. ASSUME NEW h \in Handlers, NEW id \in ShellIds, CloseShell(h, id)
      PROVE  DrainOK'
  BY <1>5 DEF CloseShell
<1>6. ASSUME NEW h \in Closers, CloseCas(h) \/ CloseSelectDefault(h)
      PROVE  DrainOK'
  BY <1>6 DEF CloseCas, CloseSelectDefault
<1>7. ASSUME NEW h \in Closers, CloseHangup(h)
      PROVE  DrainOK'
  BY <1>7 DEF CloseHangup
<1>8. ASSUME NEW h \in Closers, CloseLost(h) \/ CloseSelectDone(h) \/ CloseDone(h)
      PROVE  DrainOK'
  BY <1>8 DEF CloseLost, CloseSelectDone, CloseDone, CloseReturn
<1>9. ASSUME NEW sh \in Shells, Exit(sh) \/ WaitReturns(sh)
      PROVE  DrainOK'
  BY <1>9 DEF Exit, WaitReturns
<1>10. ASSUME NEW sh \in Shells, WaitSelect(sh) \/ WaitDone(sh)
      PROVE  DrainOK'
  BY <1>10 DEF WaitSelect, WaitDone
<1>11. ASSUME NEW sh \in Shells, Remove(sh)
      PROVE  DrainOK'
  BY <1>11 DEF Remove
<1>12. CASE SessionClose \/ DrainLock \/ DrainEnd \/ ClearClient
  BY <1>12 DEF SessionClose, DrainLock, DrainEnd, ClearClient
<1>13. ASSUME NEW id \in ShellIds, DrainNext(id)
      PROVE  DrainOK'
  BY <1>13 DEF DrainNext
<1>14. CASE UNCHANGED vars
  BY <1>14 DEF vars
<1> QED
  BY <1>1, <1>2, <1>3, <1>4, <1>5, <1>6, <1>7, <1>8, <1>9, <1>10, <1>11, <1>12,
     <1>13, <1>14 DEF Next, Ended, CloseStep, WaitStep

\* A running process passes from the call that opened its shell to the table
\* and from there to the call that hangs it up.
LEMMA NoStrayNext == RegistryInv /\ [Next]_vars => NoStrayProcess'
<1> SUFFICES ASSUME RegistryInv, [Next]_vars
             PROVE  NoStrayProcess'
  OBVIOUS
<1> USE RegistryAssumption DEF RegistryInv, TypeOK, NoStrayProcess, IdsOK, EndsOK, DrainOK, Closers, Closing, At, Goto
<1>1. ASSUME NEW h \in Handlers, OpenBegin(h) \/ OpenFails(h)
      PROVE  NoStrayProcess'
  BY <1>1 DEF OpenBegin, OpenFails
<1>2. ASSUME NEW h \in Handlers, NEW id \in ShellIds, OpenShell(h, id)
      PROVE  NoStrayProcess'
  BY <1>2 DEF OpenShell, Fresh
<1>3. ASSUME NEW h \in Handlers, Register(h)
      PROVE  NoStrayProcess'
  BY <1>3 DEF Register
<1>4. ASSUME NEW h \in Handlers, RegisterRefused(h)
      PROVE  NoStrayProcess'
  BY <1>4 DEF RegisterRefused
<1>5. ASSUME NEW h \in Handlers, NEW id \in ShellIds, CloseShell(h, id)
      PROVE  NoStrayProcess'
  BY <1>5 DEF CloseShell
<1>6. ASSUME NEW h \in Closers, CloseCas(h) \/ CloseSelectDefault(h)
      PROVE  NoStrayProcess'
  BY <1>6 DEF CloseCas, CloseSelectDefault
<1>7. ASSUME NEW h \in Closers, CloseHangup(h)
      PROVE  NoStrayProcess'
  BY <1>7 DEF CloseHangup
<1>8. ASSUME NEW h \in Closers, CloseLost(h) \/ CloseSelectDone(h) \/ CloseDone(h)
      PROVE  NoStrayProcess'
  BY <1>8 DEF CloseLost, CloseSelectDone, CloseDone, CloseReturn
<1>9. ASSUME NEW sh \in Shells, Exit(sh) \/ WaitReturns(sh)
      PROVE  NoStrayProcess'
  BY <1>9 DEF Exit, WaitReturns
<1>10. ASSUME NEW sh \in Shells, WaitSelect(sh) \/ WaitDone(sh)
      PROVE  NoStrayProcess'
  BY <1>10 DEF WaitSelect, WaitDone
<1>11. ASSUME NEW sh \in Shells, Remove(sh)
      PROVE  NoStrayProcess'
  BY <1>11 DEF Remove
<1>12. CASE SessionClose \/ DrainLock \/ DrainEnd \/ ClearClient
  BY <1>12 DEF SessionClose, DrainLock, DrainEnd, ClearClient
<1>13. ASSUME NEW id \in ShellIds, DrainNext(id)
      PROVE  NoStrayProcess'
  BY <1>13 DEF DrainNext
<1>14. CASE UNCHANGED vars
  BY <1>14 DEF vars
<1> QED
  BY <1>1, <1>2, <1>3, <1>4, <1>5, <1>6, <1>7, <1>8, <1>9, <1>10, <1>11, <1>12,
     <1>13, <1>14 DEF Next, Ended, CloseStep, WaitStep

\* The drain leaves an empty table, and the closed check of OpenShell keeps it
\* empty.
LEMMA EmptyNext == RegistryInv /\ [Next]_vars => ClosedSessionIsEmpty'
<1> SUFFICES ASSUME RegistryInv, [Next]_vars
             PROVE  ClosedSessionIsEmpty'
  OBVIOUS
<1> USE RegistryAssumption DEF RegistryInv, TypeOK, ClosedSessionIsEmpty, DrainOK, Closers, Closing, At, Goto
<1>1. ASSUME NEW h \in Handlers, OpenBegin(h) \/ OpenFails(h)
      PROVE  ClosedSessionIsEmpty'
  BY <1>1 DEF OpenBegin, OpenFails
<1>2. ASSUME NEW h \in Handlers, NEW id \in ShellIds, OpenShell(h, id)
      PROVE  ClosedSessionIsEmpty'
  BY <1>2 DEF OpenShell, Fresh
<1>3. ASSUME NEW h \in Handlers, Register(h)
      PROVE  ClosedSessionIsEmpty'
  BY <1>3 DEF Register
<1>4. ASSUME NEW h \in Handlers, RegisterRefused(h)
      PROVE  ClosedSessionIsEmpty'
  BY <1>4 DEF RegisterRefused
<1>5. ASSUME NEW h \in Handlers, NEW id \in ShellIds, CloseShell(h, id)
      PROVE  ClosedSessionIsEmpty'
  BY <1>5 DEF CloseShell
<1>6. ASSUME NEW h \in Closers, CloseCas(h) \/ CloseSelectDefault(h)
      PROVE  ClosedSessionIsEmpty'
  BY <1>6 DEF CloseCas, CloseSelectDefault
<1>7. ASSUME NEW h \in Closers, CloseHangup(h)
      PROVE  ClosedSessionIsEmpty'
  BY <1>7 DEF CloseHangup
<1>8. ASSUME NEW h \in Closers, CloseLost(h) \/ CloseSelectDone(h) \/ CloseDone(h)
      PROVE  ClosedSessionIsEmpty'
  BY <1>8 DEF CloseLost, CloseSelectDone, CloseDone, CloseReturn
<1>9. ASSUME NEW sh \in Shells, Exit(sh) \/ WaitReturns(sh)
      PROVE  ClosedSessionIsEmpty'
  BY <1>9 DEF Exit, WaitReturns
<1>10. ASSUME NEW sh \in Shells, WaitSelect(sh) \/ WaitDone(sh)
      PROVE  ClosedSessionIsEmpty'
  BY <1>10 DEF WaitSelect, WaitDone
<1>11. ASSUME NEW sh \in Shells, Remove(sh)
      PROVE  ClosedSessionIsEmpty'
  BY <1>11 DEF Remove
<1>12. CASE SessionClose \/ DrainLock \/ DrainEnd \/ ClearClient
  BY <1>12 DEF SessionClose, DrainLock, DrainEnd, ClearClient
<1>13. ASSUME NEW id \in ShellIds, DrainNext(id)
      PROVE  ClosedSessionIsEmpty'
  BY <1>13 DEF DrainNext
<1>14. CASE UNCHANGED vars
  BY <1>14 DEF vars
<1> QED
  BY <1>1, <1>2, <1>3, <1>4, <1>5, <1>6, <1>7, <1>8, <1>9, <1>10, <1>11, <1>12,
     <1>13, <1>14 DEF Next, Ended, CloseStep, WaitStep

\* The strengthening holds in every state.
LEMMA RegistryInvariant == Spec => []RegistryInv
<1>1. Init => RegistryInv
  <2> SUFFICES ASSUME Init
               PROVE  RegistryInv
    OBVIOUS
  <2> USE RegistryAssumption DEF Init, Closers
  <2>1. TypeOK
    BY DEF TypeOK
  <2>2. IdsOK /\ EndsOK /\ NoStrayProcess
    BY DEF IdsOK, EndsOK, NoStrayProcess
  <2>3. DrainOK /\ ClosedSessionIsEmpty
    BY DEF DrainOK, ClosedSessionIsEmpty, Closing
  <2> QED
    BY <2>1, <2>2, <2>3 DEF RegistryInv
<1>2. RegistryInv /\ [Next]_vars => RegistryInv'
  BY TypeNext, IdsNext, EndsNext, DrainNextKeeps, NoStrayNext, EmptyNext DEF RegistryInv
<1> QED
  BY <1>1, <1>2, PTL DEF Spec

\* Type correctness: in particular Shell.Close is never called on a nil
\* shell, whichever calls and exits race.
THEOREM RegistryTypeCorrect == Spec => []TypeOK
<1>1. RegistryInv => TypeOK
  BY DEF RegistryInv
<1> QED
  BY <1>1, RegistryInvariant, PTL

\* However OpenShell, CloseShell, Session.close and the ends of processes
\* interleave, a connection to a process is never left without somebody who
\* can close it.
THEOREM NoStrayProcessEver == Spec => []NoStrayProcess
<1>1. RegistryInv => NoStrayProcess
  BY DEF RegistryInv
<1> QED
  BY <1>1, RegistryInvariant, PTL

\* The drain of Session.close is final for any number of racing OpenShell
\* calls.
THEOREM ClosedSessionStaysEmpty == Spec => []ClosedSessionIsEmpty
<1>1. RegistryInv => ClosedSessionIsEmpty
  BY DEF RegistryInv
<1> QED
  BY <1>1, RegistryInvariant, PTL

\* Auto-remove, the drain and CloseShell take out an entry only with a shell
\* that has ended or that the call is about to close: the shell that has taken
\* over an id is never dropped in the name of its predecessor.
THEOREM OnlyEndedRemoved == Spec => RemovesOnlyEnded
<1> DEFINE Kept ==
      \A id \in ShellIds :
        table[id] # None /\ table'[id] # table[id] =>
          \/ closed'[table[id]]
          \/ \E h \in Handlers : hsh'[h] = table[id]
<1>1. ASSUME RegistryInv, [Next]_vars
      PROVE  Kept \/ UNCHANGED vars
  <2> USE RegistryAssumption DEF RegistryInv, TypeOK, IdsOK, EndsOK, DrainOK, Closers, Closing,
                                 At, Goto
  <2>1. ASSUME NEW h \in Handlers, NEW id \in ShellIds, CloseShell(h, id)
        PROVE  Kept
    <3>1. hsh'[h] = table[id] /\ \A i \in ShellIds : i # id => table'[i] = table[i]
      BY <1>1, <2>1 DEF CloseShell
    <3> QED
      BY <3>1
  <2>2. ASSUME NEW h \in Handlers, Register(h)
        PROVE  Kept
    BY <1>1, <2>2 DEF Register
  <2>3. ASSUME NEW h \in Closers, CloseLost(h) \/ CloseSelectDone(h) \/ CloseDone(h)
        PROVE  Kept
    <3>1. \/ table' = table
          \/ h = Drainer /\ \A i \in ShellIds : i # sid[hsh[h]] => table'[i] = table[i]
      BY <1>1, <2>3 DEF CloseLost, CloseSelectDone, CloseDone, CloseReturn
    <3>2. closed'[hsh[h]]
      BY <1>1, <2>3 DEF CloseLost, CloseSelectDone, CloseDone
    <3>3. h = Drainer => table[sid[hsh[h]]] = hsh[h]
      BY <1>1, <2>3 DEF CloseLost, CloseSelectDone, CloseDone
    <3> QED
      BY <3>1, <3>2, <3>3
  <2>4. ASSUME NEW sh \in Shells, Remove(sh)
        PROVE  Kept
    <3>1. \A i \in ShellIds : table'[i] # table[i] => table[i] = sh
      BY <1>1, <2>4 DEF Remove
    <3>2. closed'[sh]
      BY <1>1, <2>4 DEF Remove
    <3> QED
      BY <3>1, <3>2
  <2>5. CASE table' = table
    BY <2>5
  <2> QED
    BY <1>1, <2>1, <2>2, <2>3, <2>4, <2>5
       DEF Next, OpenBegin, OpenFails, OpenShell, RegisterRefused, CloseStep, CloseCas, CloseHangup,
           CloseSelectDefault, Exit, WaitStep, WaitReturns, WaitSelect, WaitDone, SessionClose,
           DrainLock, DrainNext, DrainEnd, ClearClient, Ended, vars
<1> QED
  BY <1>1, RegistryInvariant, PTL DEF Spec, RemovesOnlyEnded
=============================================================================
