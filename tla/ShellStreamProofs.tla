-------------------------- MODULE ShellStreamProofs --------------------------
(***************************************************************************)
(* The wake-up argument of ShellStream, the order of its output, and what  *)
(* of it is lost, for any number of pumps and reads.                       *)
(***************************************************************************)
EXTENDS ShellStream, SequenceTheorems, TLAPS

\* What the argument needs of the types.
PointsOK ==
  /\ ppc \in [Pumps -> {"read", "signal", "off"}]
  /\ rpc \in [Readers -> {"idle", "check", "look", "wait"}]

\* Somebody will look at the buffer, or make a sleeping read look.
HintPending ==
  \/ wake
  \/ \E p \in Pumps : ppc[p] = "signal"
  \/ \E r \in Readers : rpc[r] = "check"

\* The strengthening: the hint is already owed to a read that has found the
\* buffer empty and is on its way to select.
WakeInv == buffer # <<>> /\ (\E r \in Readers : rpc[r] \in {"look", "wait"}) => HintPending

\* The points of pumps and reads stay what they are declared to be.
LEMMA PointsNext == PointsOK /\ [Next]_vars => PointsOK'
  BY
     DEF PointsOK, Next, vars, PumpAppend, PumpSignal, PumpEnd, Exit, WaitReturns,
         CloseBegin,
         CloseHangup, Finish, ReadBegin, ReadStep, ReadTakes, ReadFindsNothing, ReadSeesClosed,
         ReadWaits, ReadTimesOut, ReadWakes, ReadDone

\* Every step of a pump, of an ender or of a read keeps the hint.
LEMMA WakeNext == PointsOK /\ WakeInv /\ [Next]_vars => WakeInv'
<1> SUFFICES ASSUME PointsOK, WakeInv, [Next]_vars
             PROVE  WakeInv'
  OBVIOUS
<1> USE DEF PointsOK, WakeInv, HintPending
<1>1. ASSUME NEW p \in Pumps, PumpAppend(p)
      PROVE  WakeInv'
  BY <1>1 DEF PumpAppend
<1>2. ASSUME NEW p \in Pumps, PumpSignal(p)
      PROVE  WakeInv'
  BY <1>2 DEF PumpSignal
<1>3. ASSUME NEW p \in Pumps, PumpEnd(p)
      PROVE  WakeInv'
  <2>1. \A q \in Pumps : ppc[q] = "signal" => ppc'[q] = "signal"
    BY <1>3 DEF PumpEnd
  <2> QED
    BY <1>3, <2>1 DEF PumpEnd
<1>4. CASE Exit \/ WaitReturns \/ CloseBegin \/ CloseHangup \/ \E e \in Enders : Finish(e)
  BY <1>4 DEF Exit, WaitReturns, CloseBegin, CloseHangup, Finish
<1>5. ASSUME NEW r \in Readers, ReadBegin(r) \/ ReadWakes(r)
      PROVE  WakeInv'
  BY <1>5 DEF ReadBegin, ReadWakes
<1>6. ASSUME NEW r \in Readers, ReadTakes(r) \/ ReadFindsNothing(r) \/ ReadDone(r)
      PROVE  WakeInv'
  BY <1>6 DEF ReadTakes, ReadFindsNothing, ReadDone
<1>7. ASSUME NEW r \in Readers, ReadSeesClosed(r) \/ ReadWaits(r) \/ ReadTimesOut(r)
      PROVE  WakeInv'
  <2>1. \A q \in Readers : rpc'[q] \in {"look", "wait"} => rpc[q] \in {"look", "wait"}
    BY <1>7 DEF ReadSeesClosed, ReadWaits, ReadTimesOut
  <2>2. \A q \in Readers : rpc[q] = "check" => rpc'[q] = "check"
    BY <1>7 DEF ReadSeesClosed, ReadWaits, ReadTimesOut
  <2> QED
    BY <1>7, <2>1, <2>2 DEF ReadSeesClosed, ReadWaits, ReadTimesOut
<1>8. CASE UNCHANGED vars
  BY <1>8 DEF vars
<1> QED
  BY <1>1, <1>2, <1>3, <1>4, <1>5, <1>6, <1>7, <1>8 DEF Next, ReadStep

\* However many streams and concurrent ssh_shell_read calls share the one
\* token of wakeCh, no read sleeps in select beside a buffer with data that
\* nobody is about to look at.
THEOREM WakeupsNeverLost == Spec => []NoLostWakeup
<1>1. Init => PointsOK /\ WakeInv
  BY DEF Init, PointsOK, WakeInv
<1>2. WakeInv => NoLostWakeup
  BY DEF WakeInv, HintPending, NoLostWakeup
<1> QED
  BY <1>1, <1>2, PointsNext, WakeNext, PTL DEF Spec

-----------------------------------------------------------------------------
(* The order of the output                                                 *)

\* The chunks of each stream come in the order they were read in.
Sorted(s) ==
  \A i, j \in 1 .. Len(s) : i < j /\ s[i][1] = s[j][1] => s[i][2] < s[j][2]

\* No chunk is newer than the last of its stream.
Seen(s, last) == \A i \in 1 .. Len(s) : s[i][2] <= last[s[i][1]]

\* The inductive invariant of the data.
OrderInv == TypeOK /\ Sorted(given \o buffer) /\ Seen(given \o buffer, sent) /\ NewestKept

\* A pump's next chunk goes behind the others of its stream.
LEMMA AppendKeepsOrder ==
  ASSUME NEW s \in Seq(Chunks), NEW c \in Chunks, Sorted(s),
         \A i \in 1 .. Len(s) : s[i][1] = c[1] => s[i][2] < c[2]
  PROVE  Sorted(Append(s, c))
<1> DEFINE t == Append(s, c)
<1>1. /\ Len(s) \in Nat /\ Len(t) = Len(s) + 1 /\ t[Len(s) + 1] = c
      /\ \A i \in 1 .. Len(s) : t[i] = s[i]
  OBVIOUS
<1> HIDE DEF t
<1> SUFFICES ASSUME NEW i \in 1 .. Len(t), NEW j \in 1 .. Len(t), i < j, t[i][1] = t[j][1]
             PROVE  t[i][2] < t[j][2]
  BY DEF Sorted, t
<1>2. i \in 1 .. Len(s) /\ t[i] = s[i]
  BY <1>1
<1>3. CASE j \in 1 .. Len(s)
  BY <1>1, <1>2, <1>3 DEF Sorted
<1>4. CASE j = Len(s) + 1
  BY <1>1, <1>2, <1>4
<1> QED
  BY <1>1, <1>3, <1>4

\* Chunks that are dropped between g and the rest of t leave the others in order.
LEMMA DropKeepsOrder ==
  ASSUME NEW g \in Seq(Chunks), NEW t \in Seq(Chunks), NEW k \in 1 .. Len(t), NEW n
  PROVE  /\ SubSeq(t, k, Len(t)) \in Seq(Chunks) /\ Len(SubSeq(t, k, Len(t))) = Len(t) - k + 1
         /\ Sorted(g \o t) => Sorted(g \o SubSeq(t, k, Len(t)))
         /\ Seen(g \o t, n) => Seen(g \o SubSeq(t, k, Len(t)), n)
         /\ SubSeq(t, k, Len(t))[Len(SubSeq(t, k, Len(t)))] = t[Len(t)]
<1> DEFINE u == SubSeq(t, k, Len(t))
           a == g \o t
           b == g \o u
<1>1. Len(g) \in Nat /\ Len(t) \in Nat /\ k \in Nat /\ k >= 1 /\ k <= Len(t)
  OBVIOUS
<1>2. /\ u \in Seq(Chunks) /\ Len(u) = Len(t) - k + 1
      /\ \A i \in 1 .. Len(u) : u[i] = t[i + k - 1]
  <2>1. \A i \in k .. Len(t) : t[i] \in Chunks
    BY <1>1, ElementOfSeq
  <2> QED
    BY <1>1, <2>1
<1> HIDE DEF u
<1>3. /\ Len(a) = Len(g) + Len(t) /\ Len(b) = Len(g) + Len(u)
      /\ \A i \in 1 .. Len(g) : a[i] = g[i] /\ b[i] = g[i]
      /\ \A i \in 1 .. Len(t) : a[Len(g) + i] = t[i]
      /\ \A i \in 1 .. Len(u) : b[Len(g) + i] = u[i]
  <2>1. /\ Len(a) = Len(g) + Len(t) /\ Len(b) = Len(g) + Len(u)
        /\ \A i \in 1 .. Len(g) + Len(t) : a[i] = IF i <= Len(g) THEN g[i] ELSE t[i - Len(g)]
        /\ \A i \in 1 .. Len(g) + Len(u) : b[i] = IF i <= Len(g) THEN g[i] ELSE u[i - Len(g)]
    <3>1. /\ Len(g \o t) = Len(g) + Len(t)
          /\ \A i \in 1 .. Len(g) + Len(t) :
               (g \o t)[i] = IF i <= Len(g) THEN g[i] ELSE t[i - Len(g)]
      BY ConcatProperties
    <3>2. /\ Len(g \o u) = Len(g) + Len(u)
          /\ \A i \in 1 .. Len(g) + Len(u) :
               (g \o u)[i] = IF i <= Len(g) THEN g[i] ELSE u[i - Len(g)]
      BY <1>2, ConcatProperties
    <3> QED
      BY <3>1, <3>2
  <2> HIDE DEF a, b
  <2>2. /\ \A i \in 1 .. Len(g) : i \in 1 .. Len(g) + Len(t) /\ i \in 1 .. Len(g) + Len(u) /\ i <= Len(g)
        /\ \A i \in 1 .. Len(t) : /\ Len(g) + i \in 1 .. Len(g) + Len(t) /\ ~(Len(g) + i <= Len(g))
                                   /\ (Len(g) + i) - Len(g) = i
        /\ \A i \in 1 .. Len(u) : /\ Len(g) + i \in 1 .. Len(g) + Len(u) /\ ~(Len(g) + i <= Len(g))
                                   /\ (Len(g) + i) - Len(g) = i
    BY <1>1, <1>2
  <2> QED
    BY <2>1, <2>2
<1> HIDE DEF a, b
<1> DEFINE f(i) == IF i <= Len(g) THEN i ELSE i + k - 1
<1>4. \A i \in 1 .. Len(b) : f(i) \in 1 .. Len(a) /\ b[i] = a[f(i)]
  <2> SUFFICES ASSUME NEW i \in 1 .. Len(b)
               PROVE  f(i) \in 1 .. Len(a) /\ b[i] = a[f(i)]
    OBVIOUS
  <2>1. CASE i <= Len(g)
    BY <1>1, <1>2, <1>3, <2>1
  <2>2. CASE i > Len(g)
    <3>1. PICK m \in 1 .. Len(u) : i = Len(g) + m
      <4>1. i - Len(g) \in 1 .. Len(u) /\ i = Len(g) + (i - Len(g))
        BY <1>1, <1>2, <1>3, <2>2
      <4> QED
        BY <4>1
    <3>2. b[i] = u[m] /\ u[m] = t[m + k - 1] /\ m + k - 1 \in 1 .. Len(t)
      BY <1>1, <1>2, <1>3, <3>1
    <3>3. a[Len(g) + (m + k - 1)] = t[m + k - 1]
      BY <1>3, <3>2
    <3>4. f(i) = Len(g) + (m + k - 1) /\ f(i) \in 1 .. Len(a)
      BY <1>1, <1>3, <2>2, <3>1, <3>2
    <3> QED
      BY <3>2, <3>3, <3>4
  <2> QED
    BY <1>1, <1>3, <2>1, <2>2
<1>5. \A i, j \in 1 .. Len(b) : i < j => f(i) < f(j)
  BY <1>1, <1>2, <1>3
<1> HIDE DEF f
<1>6. Sorted(a) => Sorted(b)
  BY <1>4, <1>5 DEF Sorted
<1>7. Seen(a, n) => Seen(b, n)
  BY <1>4 DEF Seen
<1>8. u[Len(u)] = t[Len(t)]
  BY <1>1, <1>2
<1> QED
  BY <1>2, <1>6, <1>7, <1>8 DEF a, b, u

\* appendBuffer: the chunk is stored last, and what makes room for it is old.
LEMMA AppendNext ==
  ASSUME OrderInv, NEW p \in Pumps, PumpAppend(p)
  PROVE  OrderInv'
<1>1. /\ TypeOK /\ sent[p] \in Nat /\ sent[p] + 1 \in 1 .. MaxOut /\ Len(buffer) \in Nat
      /\ MaxBuf \in Nat \ {0} /\ buffer \in Seq(Chunks) /\ given \in Seq(Chunks)
      /\ Len(buffer) <= MaxBuf
  BY StreamAssumption DEF OrderInv, TypeOK, PumpAppend
<1>2. PICK c \in Chunks : c = <<p, sent[p] + 1>> /\ c[1] = p /\ c[2] = sent[p] + 1
  <2>1. <<p, sent[p] + 1>> \in Chunks
    BY <1>1 DEF Chunks
  <2> QED
    BY <2>1
<1>3. PICK t : t = Append(buffer, c)
  OBVIOUS
<1>4. /\ sent' = [sent EXCEPT ![p] = @ + 1] /\ buffer' = Keep(t) /\ given' = given
      /\ ppc' = [ppc EXCEPT ![p] = "signal"]
      /\ dropped' = dropped \cup (Range(t) \ Range(buffer'))
      /\ UNCHANGED <<kind, over, wake, closed, done, epc, rpc>>
  BY <1>2, <1>3 DEF PumpAppend
<1>5. PICK a : a = given \o buffer
  OBVIOUS
<1>6. /\ t \in Seq(Chunks) /\ Len(t) = Len(buffer) + 1 /\ t[Len(t)] = c
      /\ a \in Seq(Chunks) /\ Len(a) \in Nat
      /\ given \o t = Append(a, c)
  <2>1. /\ t \in Seq(Chunks) /\ Len(t) = Len(buffer) + 1 /\ t[Len(t)] = c /\ a \in Seq(Chunks)
    BY <1>1, <1>2, <1>3, <1>5
  <2>2. given \o t = Append(a, c)
    BY <1>1, <1>2, <1>3, <1>5, <2>1
  <2> QED
    BY <2>1, <2>2
<1>7. /\ \A q \in Pumps : sent'[q] \in Nat /\ sent[q] \in Nat /\ sent[q] <= sent'[q]
      /\ sent'[p] = sent[p] + 1 /\ sent' \in [Pumps -> 0 .. MaxOut]
  BY <1>1, <1>4, StreamAssumption DEF TypeOK
<1>8. \A i \in 1 .. Len(a) : a[i][1] \in Pumps /\ a[i][2] \in Nat /\ a[i][2] <= sent[a[i][1]]
  <2>1. \A i \in 1 .. Len(a) : a[i] \in Chunks
    BY <1>6, ElementOfSeq
  <2> QED
    BY <1>5, <2>1, StreamAssumption DEF Chunks, OrderInv, Seen
<1>9. Sorted(given \o t)
  <2>1. \A i \in 1 .. Len(a) : a[i][1] = c[1] => a[i][2] < c[2]
    BY <1>1, <1>2, <1>8
  <2>2. Sorted(a)
    BY <1>5 DEF OrderInv
  <2> QED
    BY <1>6, <2>1, <2>2, AppendKeepsOrder
<1>10. Seen(given \o t, sent')
  <2>1. PICK b : b = Append(a, c)
    OBVIOUS
  <2>2. /\ Len(b) = Len(a) + 1 /\ b[Len(a) + 1] = c
        /\ \A i \in 1 .. Len(a) : b[i] = a[i]
    BY <1>6, <2>1
  <2>3. \A i \in 1 .. Len(b) : b[i][2] <= sent'[b[i][1]]
    <3>1. \A i \in 1 .. Len(a) : b[i][2] <= sent'[b[i][1]]
      BY <1>7, <1>8, <2>2
    <3>2. c[2] <= sent'[c[1]]
      BY <1>1, <1>2, <1>7
    <3> QED
      BY <1>6, <2>2, <3>1, <3>2
  <2>4. given \o t = b
    BY <1>6, <2>1
  <2> QED
    BY <2>3, <2>4 DEF Seen
<1>11. /\ buffer' \in Seq(Chunks) /\ Len(buffer') <= MaxBuf /\ Len(buffer') <= Len(t)
       /\ Len(buffer') \in Nat /\ Len(buffer') > 0
       /\ buffer'[Len(buffer')] = c
       /\ Sorted(given \o buffer') /\ Seen(given \o buffer', sent')
  <2>1. CASE Len(t) > MaxBuf
    <3>1. PICK k \in 1 .. Len(t) : k = Len(t) - MaxBuf + 1 /\ buffer' = SubSeq(t, k, Len(t))
      <4>1. Len(t) - MaxBuf + 1 \in 1 .. Len(t)
        BY <1>1, <1>6, <2>1
      <4> QED
        BY <1>4, <2>1, <4>1 DEF Keep
    <3>2. Len(buffer') = MaxBuf
      BY <1>1, <1>6, <3>1, DropKeepsOrder
    <3>3. Sorted(given \o buffer') /\ buffer' \in Seq(Chunks) /\ buffer'[Len(buffer')] = c
      BY <1>1, <1>6, <1>9, <3>1, DropKeepsOrder
    <3>4. Seen(given \o buffer', sent')
      BY <1>1, <1>6, <1>10, <3>1, DropKeepsOrder
    <3> QED
      BY <1>1, <1>6, <2>1, <3>2, <3>3, <3>4
  <2>2. CASE ~(Len(t) > MaxBuf)
    <3>1. buffer' = t
      BY <1>4, <2>2 DEF Keep
    <3>2. Len(t) <= MaxBuf /\ Len(t) > 0 /\ Len(t) \in Nat /\ Len(t) <= Len(t)
      BY <1>1, <1>6, <2>2
    <3> QED
      BY <1>6, <1>9, <1>10, <3>1, <3>2
  <2> QED
    BY <2>1, <2>2
<1>12. NewestKept'
  <2>1. buffer'[Len(buffer')] = <<p, sent'[p]>>
    BY <1>2, <1>7, <1>11
  <2> QED
    BY <2>1 DEF NewestKept
<1>13. dropped' \subseteq Chunks
  BY <1>1, <1>4, <1>6, RangeOfSeq DEF TypeOK
<1>14. ppc' \in [Pumps -> {"read", "signal", "off"}]
  BY <1>1, <1>4 DEF TypeOK
<1>15. TypeOK'
  BY <1>1, <1>4, <1>7, <1>11, <1>13, <1>14 DEF TypeOK
<1> QED
  BY <1>4, <1>11, <1>12, <1>15 DEF OrderInv

\* A read takes the whole buffer: what it gave and what is buffered stays the
\* same sequence.
LEMMA TakeNext ==
  ASSUME OrderInv, NEW r \in Readers, ReadTakes(r) \/ ReadDone(r)
  PROVE  OrderInv'
<1>1. TypeOK /\ buffer \in Seq(Chunks) /\ given \in Seq(Chunks) /\ MaxBuf \in Nat
  BY StreamAssumption DEF OrderInv, TypeOK
<1>2. /\ given' = given \o buffer /\ buffer' = <<>> /\ rpc' = [rpc EXCEPT ![r] = "idle"]
      /\ UNCHANGED <<kind, over, sent, wake, closed, done, ppc, epc, dropped>>
  BY DEF ReadTakes, ReadDone
<1>3. given' \in Seq(Chunks) /\ buffer' \in Seq(Chunks) /\ Len(buffer') = 0
  BY <1>1, <1>2
<1>4. given' \o buffer' = given \o buffer
  BY <1>1, <1>2, <1>3, ConcatEmptySeq
<1>5. TypeOK'
  BY <1>1, <1>2, <1>3 DEF TypeOK
<1>6. NewestKept'
  BY <1>2 DEF NewestKept
<1>7. Sorted(given' \o buffer') /\ Seen(given' \o buffer', sent')
  BY <1>2, <1>4 DEF OrderInv
<1> QED
  BY <1>5, <1>6, <1>7 DEF OrderInv

\* Every other step leaves the output alone.
LEMMA OrderNext ==
  ASSUME OrderInv, [Next]_vars
  PROVE  OrderInv'
<1>0. TypeOK
  BY DEF OrderInv
<1>1. ASSUME NEW p \in Pumps, PumpAppend(p)
      PROVE  OrderInv'
  BY <1>1, AppendNext
<1>2. ASSUME NEW r \in Readers, ReadTakes(r) \/ ReadDone(r)
      PROVE  OrderInv'
  BY <1>2, TakeNext
<1>3. ASSUME UNCHANGED <<sent, buffer, given, dropped>>, TypeOK'
      PROVE  OrderInv'
  BY <1>3 DEF OrderInv, NewestKept
<1>4. ASSUME NEW p \in Pumps, PumpSignal(p) \/ PumpEnd(p)
      PROVE  OrderInv'
  <2>1. UNCHANGED <<sent, buffer, given, dropped>>
    BY <1>4 DEF PumpSignal, PumpEnd
  <2>2. TypeOK'
    BY <1>0, <1>4 DEF TypeOK, PumpSignal, PumpEnd
  <2> QED
    BY <1>3, <2>1, <2>2
<1>5. CASE Exit \/ WaitReturns \/ CloseBegin \/ CloseHangup \/ \E e \in Enders : Finish(e)
  <2>1. UNCHANGED <<sent, buffer, given, dropped>>
    BY <1>5 DEF Exit, WaitReturns, CloseBegin, CloseHangup, Finish
  <2>2. TypeOK'
    <3>1. UNCHANGED <<kind, wake, ppc, rpc>>
      BY <1>5 DEF Exit, WaitReturns, CloseBegin, CloseHangup, Finish
    <3>2. over' \in BOOLEAN /\ closed' \in BOOLEAN /\ done' \in BOOLEAN
      BY <1>0, <1>5, Zenon DEF TypeOK, Exit, WaitReturns, CloseBegin, CloseHangup, Finish
    <3>3. epc' \in [Enders -> {"idle", "hangup", "finish", "off"}]
      BY <1>0, <1>5 DEF TypeOK, Exit, WaitReturns, CloseBegin, CloseHangup, Finish
    <3> QED
      BY <1>0, <2>1, <3>1, <3>2, <3>3 DEF TypeOK
  <2> QED
    BY <1>3, <2>1, <2>2
<1>6. ASSUME NEW r \in Readers,
             \/ ReadBegin(r) \/ ReadFindsNothing(r) \/ ReadSeesClosed(r) \/ ReadWaits(r)
             \/ ReadWakes(r) \/ ReadTimesOut(r)
      PROVE  OrderInv'
  <2>1. UNCHANGED <<sent, buffer, given, dropped>>
    BY <1>6
       DEF ReadBegin, ReadFindsNothing, ReadSeesClosed, ReadWaits, ReadWakes, ReadTimesOut
  <2>2. TypeOK'
    BY <1>0, <1>6
       DEF TypeOK, ReadBegin, ReadFindsNothing, ReadSeesClosed, ReadWaits, ReadWakes,
       ReadTimesOut
  <2> QED
    BY <1>3, <2>1, <2>2
<1>7. CASE UNCHANGED vars
  BY <1>0, <1>3, <1>7 DEF vars, TypeOK
<1> QED
  BY <1>1, <1>2, <1>4, <1>5, <1>6, <1>7 DEF Next, ReadStep

\* OrderInv holds of every behaviour.
LEMMA OrderInvariant == Spec => []OrderInv
<1>1. Init => OrderInv
  <2> SUFFICES ASSUME Init
               PROVE  OrderInv
    OBVIOUS
  <2>1. <<>> \in Seq(Chunks) /\ Len(<<>>) = 0 /\ <<>> \o <<>> = <<>>
    OBVIOUS
  <2>2. TypeOK
    <3>1. ppc \in [Pumps -> {"read", "signal", "off"}]
      BY DEF Init
    <3>2. /\ sent \in [Pumps -> 0 .. MaxOut] /\ buffer \in Seq(Chunks) /\ given \in Seq(Chunks)
          /\ Len(buffer) <= MaxBuf /\ dropped \subseteq Chunks
      BY <2>1, StreamAssumption DEF Init
    <3>3. /\ kind \in {"ssh", "docker"}
          /\ over \in BOOLEAN /\ wake \in BOOLEAN /\ closed \in BOOLEAN /\ done \in BOOLEAN
          /\ epc \in [Enders -> {"idle", "hangup", "finish", "off"}]
          /\ rpc \in [Readers -> {"idle", "check", "look", "wait"}]
      BY DEF Init
    <3> QED
      BY <3>1, <3>2, <3>3 DEF TypeOK
  <2>3. Sorted(given \o buffer) /\ Seen(given \o buffer, sent) /\ NewestKept
    BY <2>1 DEF Init, Sorted, Seen, NewestKept
  <2> QED
    BY <2>2, <2>3 DEF OrderInv
<1>2. OrderInv /\ [Next]_vars => OrderInv'
  BY OrderNext
<1> QED
  BY <1>1, <1>2, PTL DEF Spec

\* Type correctness: in particular the buffer never grows beyond maxBuf.
THEOREM StreamTypeCorrect == Spec => []TypeOK
<1>1. OrderInv => TypeOK
  BY DEF OrderInv
<1> QED
  BY <1>1, OrderInvariant, PTL

\* However many ssh_shell_read calls drain the buffer while pumps append to it
\* and appendBuffer drops what does not fit, each stream's output is returned
\* in order and never twice.
THEOREM OutputStaysInOrder == Spec => []InOrder
<1>1. OrderInv => InOrder
  BY DEF OrderInv, InOrder, Sorted
<1> QED
  BY <1>1, OrderInvariant, PTL

-----------------------------------------------------------------------------
(* What is lost                                                            *)

\* With OrderInv, the inductive invariant of what is lost.
LossInv == NothingMissing /\ OldestDropped

\* Returned and buffered chunks are different chunks, and the buffer is in order.
LEMMA SortedApart ==
  ASSUME NEW g \in Seq(Chunks), NEW b \in Seq(Chunks), Sorted(g \o b)
  PROVE  Sorted(b) /\ Range(g) \cap Range(b) = {}
<1> DEFINE a == g \o b
<1>1. /\ Len(g) \in Nat /\ Len(b) \in Nat /\ Len(a) = Len(g) + Len(b)
      /\ \A i \in 1 .. Len(g) + Len(b) : a[i] = IF i <= Len(g) THEN g[i] ELSE b[i - Len(g)]
  BY ConcatProperties
<1>2. Sorted(a)
  OBVIOUS
<1> HIDE DEF a
<1>3. \A i \in 1 .. Len(g) : i \in 1 .. Len(a) /\ a[i] = g[i]
  BY <1>1
<1>4. \A i \in 1 .. Len(b) : Len(g) + i \in 1 .. Len(a) /\ a[Len(g) + i] = b[i]
  <2> SUFFICES ASSUME NEW i \in 1 .. Len(b)
               PROVE  Len(g) + i \in 1 .. Len(a) /\ a[Len(g) + i] = b[i]
    OBVIOUS
  <2>1. Len(g) + i \in 1 .. Len(g) + Len(b) /\ ~(Len(g) + i <= Len(g)) /\ (Len(g) + i) - Len(g) = i
    BY <1>1
  <2> QED
    BY <1>1, <2>1
<1>5. Sorted(b)
  <2> SUFFICES ASSUME NEW i \in 1 .. Len(b), NEW j \in 1 .. Len(b), i < j, b[i][1] = b[j][1]
               PROVE  b[i][2] < b[j][2]
    BY DEF Sorted
  <2>1. Len(g) + i < Len(g) + j
    BY <1>1
  <2> QED
    BY <1>2, <1>4, <2>1 DEF Sorted
<1>6. ASSUME NEW x \in Range(g), x \in Range(b)
      PROVE  FALSE
  <2>1. PICK i \in 1 .. Len(g) : g[i] = x
    BY <1>6, RangeEquality
  <2>2. PICK j \in 1 .. Len(b) : b[j] = x
    BY <1>6, RangeEquality
  <2>3. PICK n : n = Len(g) + j
    OBVIOUS
  <2>4. x[2] < x[2]
    <3>1. i \in 1 .. Len(a) /\ n \in 1 .. Len(a) /\ a[i] = x /\ a[n] = x
      BY <1>3, <1>4, <2>1, <2>2, <2>3
    <3>2. i < n
      BY <1>1, <2>3
    <3> QED
      BY <1>2, <3>1, <3>2 DEF Sorted
  <2>5. x[2] \in Int
    BY <2>1, ElementOfSeq, StreamAssumption DEF Chunks
  <2> QED
    BY <2>4, <2>5
<1> QED
  BY <1>5, <1>6

\* appendBuffer cuts a prefix off, and what is in it is older than the rest.
LEMMA AppendLoses ==
  ASSUME OrderInv, OrderInv', LossInv, NEW p \in Pumps, PumpAppend(p)
  PROVE  LossInv'
<1>1. /\ TypeOK /\ sent[p] \in Nat /\ sent[p] + 1 \in 1 .. MaxOut /\ Len(buffer) \in Nat
      /\ MaxBuf \in Nat \ {0} /\ buffer \in Seq(Chunks) /\ given \in Seq(Chunks)
      /\ dropped \subseteq Chunks /\ buffer' \in Seq(Chunks)
  BY StreamAssumption DEF OrderInv, TypeOK, PumpAppend
<1>2. /\ \A d \in Chunks : d = <<d[1], d[2]>> /\ d[1] \in Pumps /\ d[2] \in Nat
      /\ \A q \in Pumps : sent[q] \in Nat
  BY StreamAssumption DEF OrderInv, TypeOK, Chunks
<1>3. PICK c \in Chunks : c = <<p, sent[p] + 1>> /\ c[1] = p /\ c[2] = sent[p] + 1
  <2>1. <<p, sent[p] + 1>> \in Chunks
    BY <1>1 DEF Chunks
  <2> QED
    BY <2>1
<1>4. PICK t : t = Append(buffer, c)
  OBVIOUS
<1>5. /\ sent' = [sent EXCEPT ![p] = @ + 1] /\ buffer' = Keep(t) /\ given' = given
      /\ dropped' = dropped \cup (Range(t) \ Range(buffer'))
  BY <1>3, <1>4 DEF PumpAppend
<1>6. /\ t \in Seq(Chunks) /\ Len(t) = Len(buffer) + 1 /\ t[Len(t)] = c
      /\ \A i \in 1 .. Len(buffer) : t[i] = buffer[i]
  BY <1>1, <1>3, <1>4
<1>7. PICK k \in 1 .. Len(t) : /\ Len(buffer') = Len(t) - k + 1
                              /\ \A i \in 1 .. Len(buffer') : buffer'[i] = t[i + k - 1]
  <2>1. CASE Len(t) > MaxBuf
    <3>1. PICK k \in 1 .. Len(t) : k = Len(t) - MaxBuf + 1 /\ buffer' = SubSeq(t, k, Len(t))
      <4>1. Len(t) - MaxBuf + 1 \in 1 .. Len(t)
        <5>1. Len(t) \in Nat /\ MaxBuf \in Nat /\ MaxBuf >= 1
          BY <1>1, <1>6
        <5> QED
          BY <2>1, <5>1
      <4> QED
        BY <1>5, <2>1, <4>1 DEF Keep
    <3>2. \A i \in k .. Len(t) : t[i] \in Chunks
      BY <1>6, ElementOfSeq
    <3>3. Len(buffer') = Len(t) - k + 1
      BY <1>1, <1>6, <3>1, DropKeepsOrder
    <3>4. \A i \in 1 .. Len(buffer') : buffer'[i] = t[i + k - 1]
      <4>1. Len(t) \in Int /\ k \in Int
        BY <1>1, <1>6
      <4>2. \A i \in 1 .. Len(t) - k + 1 : SubSeq(t, k, Len(t))[i] = t[k + i - 1]
        BY <3>2, <4>1, SubSeqProperties
      <4>3. \A i \in 1 .. Len(t) - k + 1 : k + i - 1 = i + k - 1
        BY <4>1
      <4> QED
        BY <3>1, <3>3, <4>2, <4>3
    <3> QED
      BY <3>3, <3>4
  <2>2. CASE ~(Len(t) > MaxBuf)
    <3>1. buffer' = t /\ 1 \in 1 .. Len(t) /\ Len(buffer') = Len(t) - 1 + 1
      BY <1>1, <1>5, <1>6, <2>2 DEF Keep
    <3>2. \A i \in 1 .. Len(buffer') : buffer'[i] = t[i + 1 - 1]
      BY <3>1
    <3> QED
      BY <3>1, <3>2
  <2> QED
    BY <2>1, <2>2
<1>8. Len(t) \in Nat /\ k \in Nat /\ 1 <= k /\ k <= Len(t) /\ Len(buffer') = Len(t) - k + 1
  BY <1>1, <1>6, <1>7
<1>9. /\ \A x : x \in Range(t) <=> \E i \in 1 .. Len(t) : t[i] = x
      /\ \A x : x \in Range(buffer) <=> \E i \in 1 .. Len(buffer) : buffer[i] = x
      /\ \A x : x \in Range(buffer') <=> \E i \in 1 .. Len(buffer') : buffer'[i] = x
  <2>1. /\ Range(t) = {t[i] : i \in 1 .. Len(t)}
        /\ Range(buffer) = {buffer[i] : i \in 1 .. Len(buffer)}
        /\ Range(buffer') = {buffer'[i] : i \in 1 .. Len(buffer')}
    <3>1. \A u \in Seq(Chunks) : Range(u) = {u[i] : i \in 1 .. Len(u)}
      BY RangeEquality
    <3> QED
      BY <1>1, <1>6, <3>1
  <2> QED
    BY <2>1
<1>10. Range(t) = Range(buffer) \cup {c}
  <2>1. \A i \in 1 .. Len(t) : i \in 1 .. Len(buffer) \/ i = Len(t)
    BY <1>1, <1>6
  <2>2. Len(t) \in 1 .. Len(t) /\ \A i \in 1 .. Len(buffer) : i \in 1 .. Len(t)
    BY <1>1, <1>6
  <2> QED
    BY <1>6, <1>9, <2>1, <2>2
<1>11. /\ \A i \in k .. Len(t) : t[i] \in Range(buffer')
      /\ \A x \in Range(buffer') : \E i \in k .. Len(t) : t[i] = x
  <2>1. ASSUME NEW i \in k .. Len(t)
        PROVE  t[i] \in Range(buffer')
    <3>1. i - k + 1 \in 1 .. Len(buffer') /\ (i - k + 1) + k - 1 = i
      BY <1>8
    <3> QED
      BY <1>7, <1>9, <3>1
  <2>2. ASSUME NEW x \in Range(buffer')
        PROVE  \E i \in k .. Len(t) : t[i] = x
    <3>1. PICK i \in 1 .. Len(buffer') : buffer'[i] = x
      BY <1>9
    <3>2. i + k - 1 \in k .. Len(t)
      BY <1>8
    <3> QED
      BY <1>7, <3>1, <3>2
  <2> QED
    BY <2>1, <2>2
<1>12. Range(buffer') \subseteq Range(t) /\ c \in Range(buffer')
  <2>1. Len(t) \in k .. Len(t) /\ \A i \in k .. Len(t) : i \in 1 .. Len(t)
    BY <1>1, <1>6, <1>7
  <2> QED
    BY <1>6, <1>9, <1>11, <2>1
<1>13. NothingMissing'
  <2> SUFFICES ASSUME NEW d \in Chunks
               PROVE  d[2] <= sent'[d[1]] <=> d \in Range(given) \cup Range(buffer') \cup dropped'
    BY <1>5 DEF NothingMissing
  <2>1. d[2] <= sent'[d[1]] <=> d[2] <= sent[d[1]] \/ d = c
    <3>1. CASE d[1] = p
      <4>1. sent'[p] = sent[p] + 1
        BY <1>1, <1>5 DEF TypeOK
      <4>2. d = c <=> d[2] = sent[p] + 1
        BY <1>2, <1>1, <1>3, <3>1
      <4> QED
        BY <1>2, <1>1, <3>1, <4>1, <4>2
    <3>2. CASE d[1] # p
      BY <1>2, <1>1, <1>3, <1>5, <3>2 DEF TypeOK
    <3> QED
      BY <3>1, <3>2
  <2>2. d[2] <= sent[d[1]] <=> d \in Range(given) \cup Range(buffer) \cup dropped
    BY DEF LossInv, NothingMissing
  <2> QED
    BY <1>5, <1>10, <1>12, <2>1, <2>2
<1>14. Sorted(t) /\ Range(given) \cap Range(buffer) = {}
  <2>1. Sorted(buffer) /\ Range(given) \cap Range(buffer) = {}
    BY <1>1, SortedApart DEF OrderInv
  <2>2. \A d \in Range(buffer) : d \in Chunks /\ d[2] <= sent[d[1]]
    BY <1>1, RangeOfSeq DEF LossInv, NothingMissing
  <2>3. \A i \in 1 .. Len(buffer) : buffer[i][1] = c[1] => buffer[i][2] < c[2]
    <3> SUFFICES ASSUME NEW i \in 1 .. Len(buffer), buffer[i][1] = c[1]
                 PROVE  buffer[i][2] < c[2]
      OBVIOUS
    <3>1. buffer[i] \in Chunks /\ buffer[i][2] <= sent[c[1]]
      BY <1>9, <2>2
    <3> QED
      BY <1>2, <1>1, <1>3, <3>1
  <2> QED
    BY <1>1, <1>3, <1>4, <2>1, <2>3, AppendKeepsOrder
<1>15. dropped' \cap Range(given') = {}
  BY <1>5, <1>10, <1>12, <1>14 DEF LossInv, OldestDropped
<1>16. ASSUME NEW x \in dropped', NEW y \in Range(buffer'), x[1] = y[1]
       PROVE  x[2] < y[2]
  <2>1. CASE x \in dropped
    <3>1. CASE y \in Range(buffer)
      BY <1>16, <2>1, <3>1 DEF LossInv, OldestDropped
    <3>2. CASE y = c
      <4>1. x \in Chunks /\ x[2] <= sent[x[1]]
        BY <1>1, <2>1 DEF LossInv, NothingMissing
      <4> QED
        BY <1>2, <1>1, <1>3, <1>16, <3>2, <4>1
    <3> QED
      BY <1>10, <1>12, <3>1, <3>2
  <2>2. CASE x \in Range(t) /\ x \notin Range(buffer')
    <3>1. PICK i \in 1 .. Len(t) : t[i] = x
      BY <1>9, <2>2
    <3>2. i < k
      <4>1. ~(i \in k .. Len(t))
        BY <1>11, <2>2, <3>1
      <4> QED
        BY <1>8, <4>1
    <3>3. PICK j \in k .. Len(t) : t[j] = y
      BY <1>11
    <3>4. j \in 1 .. Len(t) /\ i < j
      BY <1>8, <3>2
    <3> QED
      BY <1>14, <1>16, <3>1, <3>3, <3>4 DEF Sorted
  <2> QED
    BY <1>5, <2>1, <2>2
<1> QED
  BY <1>13, <1>15, <1>16 DEF LossInv, OldestDropped

\* A read loses nothing: the whole buffer is returned.
LEMMA TakeLoses ==
  ASSUME OrderInv, LossInv, NEW r \in Readers, ReadTakes(r) \/ ReadDone(r)
  PROVE  LossInv'
<1>1. /\ buffer \in Seq(Chunks) /\ given \in Seq(Chunks) /\ dropped \subseteq Chunks
      /\ \A d \in Chunks : d[2] \in Int
  BY StreamAssumption DEF OrderInv, TypeOK, Chunks
<1>2. given' = given \o buffer /\ buffer' = <<>> /\ UNCHANGED <<sent, dropped>>
  BY DEF ReadTakes, ReadDone
<1>3. Range(given') = Range(given) \cup Range(buffer)
  BY <1>1, <1>2, RangeConcatenation
<1>4. Range(buffer') = {}
  BY <1>2 DEF Range
<1>5. dropped \cap Range(buffer) = {}
  BY <1>1 DEF LossInv, OldestDropped
<1>6. NothingMissing'
  BY <1>2, <1>3, <1>4 DEF LossInv, NothingMissing
<1> QED
  BY <1>2, <1>3, <1>4, <1>5, <1>6 DEF LossInv, OldestDropped

\* The other steps leave the output alone.
LEMMA LossNext ==
  ASSUME OrderInv, OrderInv', LossInv, [Next]_vars
  PROVE  LossInv'
<1>1. CASE \E p \in Pumps : PumpAppend(p)
  BY <1>1, AppendLoses
<1>2. CASE \E r \in Readers : ReadTakes(r) \/ ReadDone(r)
  BY <1>2, TakeLoses
<1>3. CASE UNCHANGED <<sent, buffer, given, dropped>>
  BY <1>3 DEF LossInv, NothingMissing, OldestDropped
<1> QED
  BY <1>1, <1>2, <1>3
     DEF Next, ReadStep, vars, PumpSignal, PumpEnd, Exit, WaitReturns, CloseBegin, CloseHangup,
         Finish, ReadBegin, ReadFindsNothing, ReadSeesClosed, ReadWaits, ReadWakes, ReadTimesOut

\* For any number of pumps and concurrent reads and any size of the buffer, what
\* ssh_shell_read never returns is what appendBuffer cut off: the oldest unread
\* output, and never the chunk it was called with.
THEOREM OnlyOldestIsLost == Spec => []OnlyOldestLost
<1>1. Init => LossInv
  <2> SUFFICES ASSUME Init
               PROVE  LossInv
    OBVIOUS
  <2>1. Range(<<>>) = {}
    BY DEF Range
  <2>2. \A c \in Chunks : ~(c[2] <= sent[c[1]])
    BY StreamAssumption DEF Init, Chunks
  <2> QED
    BY <2>1, <2>2 DEF Init, LossInv, NothingMissing, OldestDropped
<1>2. OrderInv /\ OrderInv' /\ LossInv /\ [Next]_vars => LossInv'
  BY LossNext
<1>3. OrderInv /\ LossInv => OnlyOldestLost
  BY DEF OrderInv, LossInv, OnlyOldestLost
<1> QED
  BY <1>1, <1>2, <1>3, OrderInvariant, PTL DEF Spec
=============================================================================
