----------------------------- MODULE ProxyProofs -----------------------------
(***************************************************************************)
(* The bridge implements RequestBridge, for any number of requests, Runs   *)
(* and faults and for any capacity of the channels.                        *)
(***************************************************************************)
EXTENDS Proxy, SequenceTheorems, TLAPS

RunRecords ==
  [pc : {"get", "endpoint", "serve", "returned"}, sse : {"none", "up", "hung", "eof", "off"},
   inc : Nat, stdin : {"off", "loop", "hold", "wait"}, hand : Nat, src : {"off", "pull", "push"},
   srcHand : Nat, out : Seq(Nat), post : SUBSET Nat, done : {"no", "nil", "canceled"},
   fatal : BOOLEAN, why : {"no", "nil", "canceled"},
   errCh : Seq({"no", "err", "nil", "canceled"})]

TypeOK ==
  /\ read \in Nat /\ linesCh \in Seq(Nat) /\ delivered \in Seq(Nat)
  /\ daemon \in Nat /\ broken \in BOOLEAN
  /\ run \in [Runs -> RunRecords]

\* Who has a line in its hands, when a Run's goroutines start and end, and that
\* a goroutine of a Run that may drop lines has seen a failure or an end.
RunOK(r) ==
  /\ run[r].src = "push" <=> run[r].srcHand # 0
  /\ run[r].stdin = "hold" <=> run[r].hand # 0
  /\ run[r].stdin = "off" => run[r].post = {}
  /\ run[r].pc \in {"get", "endpoint"} =>
       run[r].stdin = "off" /\ run[r].src = "off" /\ run[r].out = <<>>
  /\ run[r].fatal \/ run[r].done # "no" \/ run[r].stdin = "wait" => broken
  /\ run[r].stdin = "off" /\ run[r].src # "off" => broken
EndOK == eof \/ ctx => broken

\* Every line is in one place.
Inj(s) == \A i, j \in 1..Len(s) : s[i] = s[j] => i = j
Queued == ToSet(linesCh)
Here(r) == ({run[r].srcHand, run[r].hand} \ {0}) \cup run[r].post \cup ToSet(run[r].out)
Delivered == ToSet(delivered)
OnePlace(r) ==
  /\ Inj(run[r].out)
  /\ run[r].srcHand # 0 =>
       run[r].srcHand \notin {run[r].hand} \cup run[r].post \cup ToSet(run[r].out)
  /\ run[r].hand # 0 => run[r].hand \notin run[r].post \cup ToSet(run[r].out)
  /\ run[r].post \cap ToSet(run[r].out) = {}
Apart ==
  /\ Inj(linesCh)
  /\ \A r \in Runs : \A q \in Here(r) :
       /\ q \notin Queued /\ q \notin Delivered
       /\ \A s \in Runs : q \in Here(s) => s = r
  /\ \A q \in Queued : q \notin Delivered
  /\ \A q \in Queued \cup Delivered \cup UNION {Here(r) : r \in Runs} : q \in 1..read

\* The inductive invariant.
BridgeInv ==
  /\ TypeOK /\ EndOK /\ Apart
  /\ \A r \in Runs : RunOK(r) /\ OnePlace(r)

-----------------------------------------------------------------------------
(* Sequences as queues of lines                                            *)

\* The empty queue.
LEMMA EmptyFacts == ToSet(<<>>) = {} /\ Inj(<<>>)
BY DEF ToSet, Inj

\* The lines of a queue.
LEMMA SetFacts ==
  ASSUME NEW s \in Seq(Nat), NEW x
  PROVE  x \in ToSet(s) <=> \E i \in 1..Len(s) : s[i] = x
BY DEF ToSet

\* A line that is put at the end.
LEMMA AppendFacts ==
  ASSUME NEW s \in Seq(Nat), NEW x \in Nat
  PROVE  /\ Append(s, x) \in Seq(Nat)
         /\ ToSet(Append(s, x)) = ToSet(s) \cup {x}
         /\ Inj(s) /\ x \notin ToSet(s) => Inj(Append(s, x))
<1> DEFINE t == Append(s, x)
<1>1. /\ t \in Seq(Nat) /\ Len(t) = Len(s) + 1 /\ Len(s) \in Nat
      /\ DOMAIN s = 1..Len(s) /\ DOMAIN t = 1..(Len(s) + 1)
      /\ \A i \in 1..Len(s) : t[i] = s[i]
      /\ t[Len(s) + 1] = x
  OBVIOUS
<1> HIDE DEF t
<1>2. ToSet(t) = ToSet(s) \cup {x}
  <2>1. \A i \in 1..(Len(s) + 1) : i \in 1..Len(s) \/ i = Len(s) + 1
    BY <1>1
  <2>2. \A i \in 1..Len(s) : i \in 1..(Len(s) + 1)
    BY <1>1
  <2>3. Len(s) + 1 \in 1..(Len(s) + 1)
    BY <1>1
  <2> QED
    BY <1>1, <2>1, <2>2, <2>3 DEF ToSet
<1>3. ASSUME Inj(s), x \notin ToSet(s)
      PROVE  Inj(t)
  <2>1. \A i \in 1..Len(s) : s[i] # x
    BY <1>1, <1>3 DEF ToSet
  <2> QED
    BY <1>1, <1>3, <2>1 DEF Inj
<1> QED
  BY <1>1, <1>2, <1>3 DEF t

\* A line that is taken from the front.
LEMMA TakeFacts ==
  ASSUME NEW s \in Seq(Nat), s # <<>>
  PROVE  /\ Head(s) \in Nat /\ Tail(s) \in Seq(Nat)
         /\ ToSet(s) = {Head(s)} \cup ToSet(Tail(s))
         /\ Inj(s) => Inj(Tail(s)) /\ Head(s) \notin ToSet(Tail(s))
<1> DEFINE t == Tail(s)
<1>1. /\ Head(s) \in Nat /\ t \in Seq(Nat) /\ Len(s) \in Nat \ {0} /\ Len(t) = Len(s) - 1
      /\ Head(s) = s[1] /\ DOMAIN s = 1..Len(s) /\ DOMAIN t = 1..(Len(s) - 1)
      /\ \A i \in 1..(Len(s) - 1) : t[i] = s[i + 1]
  BY EmptySeq, HeadTailProperties, LenProperties
<1> HIDE DEF t
<1>2. /\ \A i \in 1..(Len(s) - 1) : i + 1 \in 1..Len(s)
      /\ \A i \in 1..Len(s) : i = 1 \/ (i - 1 \in 1..(Len(s) - 1) /\ (i - 1) + 1 = i)
      /\ 1 \in 1..Len(s)
  BY <1>1
<1>3. ToSet(s) = {s[1]} \cup ToSet(t)
  <2>1. ASSUME NEW i \in 1..Len(s), i # 1
        PROVE  \E j \in 1..(Len(s) - 1) : t[j] = s[i]
    <3>1. i - 1 \in 1..(Len(s) - 1) /\ t[i - 1] = s[(i - 1) + 1] /\ (i - 1) + 1 = i
      BY <1>1, <1>2, <2>1
    <3> QED
      BY <3>1
  <2>2. ASSUME NEW x \in ToSet(s)
        PROVE  x \in {s[1]} \cup ToSet(t)
    <3>1. PICK i \in 1..Len(s) : s[i] = x
      BY <1>1, SetFacts
    <3>2. i # 1 => x \in ToSet(t)
      BY <1>1, <2>1, <3>1, SetFacts
    <3> QED
      BY <3>1, <3>2
  <2>3. s[1] \in ToSet(s)
    BY <1>2, SetFacts
  <2>4. ASSUME NEW x \in ToSet(t)
        PROVE  x \in ToSet(s)
    <3>0. PICK i \in 1..Len(t) : t[i] = x
      BY <1>1, SetFacts
    <3>1. i \in 1..(Len(s) - 1)
      BY <1>1
    <3>2. i + 1 \in 1..Len(s) /\ s[i + 1] = x
      BY <1>1, <1>2, <3>0, <3>1
    <3> QED
      BY <3>2, SetFacts
  <2> QED
    BY <2>2, <2>3, <2>4
<1>4. ASSUME Inj(s)
      PROVE  Inj(t) /\ s[1] \notin ToSet(t)
  <2>1. ASSUME NEW i \in 1..(Len(s) - 1), NEW j \in 1..(Len(s) - 1), t[i] = t[j]
        PROVE  i = j
    <3>1. s[i + 1] = s[j + 1] /\ i + 1 \in 1..Len(s) /\ j + 1 \in 1..Len(s)
      BY <1>1, <1>2, <2>1
    <3>2. i + 1 = j + 1
      BY <1>4, <3>1 DEF Inj
    <3> QED
      BY <3>2
  <2>2. \A i \in 1..(Len(s) - 1) : t[i] # s[1]
    BY <1>1, <1>2, <1>4 DEF Inj
  <2> QED
    BY <1>1, <2>1, <2>2 DEF Inj, ToSet
<1> QED
  BY <1>1, <1>3, <1>4 DEF t

-----------------------------------------------------------------------------
(* What the updates of the model do                                        *)

\* The fields of a Run that lines depend on.
LEMMA RunTypes ==
  ASSUME TypeOK, NEW r \in Runs
  PROVE  /\ run[r] \in RunRecords
         /\ run[r].hand \in Nat /\ run[r].srcHand \in Nat /\ run[r].post \subseteq Nat
         /\ run[r].out \in Seq(Nat)
         /\ run[r].stdin \in {"off", "loop", "hold", "wait"}
         /\ run[r].src \in {"off", "pull", "push"}
<1>1. run[r] \in RunRecords
  BY DEF TypeOK
<1> QED
  BY <1>1 DEF RunRecords

\* One Run's record changes.
LEMMA RunUpdate ==
  ASSUME TypeOK, NEW r \in Runs, NEW q \in RunRecords, run' = [run EXCEPT ![r] = q]
  PROVE  /\ run' \in [Runs -> RunRecords]
         /\ run'[r] = q /\ \A s \in Runs : s # r => run'[s] = run[s]
BY DEF TypeOK

\* The record of a Run whose goroutines are gone.
LEMMA DeadFacts ==
  ASSUME TypeOK
  PROVE  /\ Dead \in RunRecords /\ NewRun \in RunRecords
         /\ Dead.pc = "returned" /\ Dead.stdin = "off" /\ Dead.src = "off" /\ Dead.hand = 0
         /\ Dead.srcHand = 0 /\ Dead.out = <<>> /\ Dead.post = {} /\ ~Dead.fatal
         /\ Dead.done = "no"
         /\ NewRun.pc = "get" /\ NewRun.stdin = "off" /\ NewRun.src = "off" /\ NewRun.hand = 0
         /\ NewRun.srcHand = 0 /\ NewRun.out = <<>> /\ NewRun.post = {} /\ ~NewRun.fatal
         /\ NewRun.done = "no"
<1>1. daemon \in Nat
  BY DEF TypeOK
<1>2. <<>> \in Seq(Nat) /\ <<>> \in Seq({"no", "err", "nil", "canceled"})
  OBVIOUS
<1>3. NewRun \in RunRecords
  BY <1>1, <1>2 DEF NewRun, RunRecords
<1>4. Dead \in RunRecords
  BY <1>1, <1>2 DEF Dead, NewRun, RunRecords
<1> QED
  BY <1>3, <1>4 DEF Dead, NewRun

-----------------------------------------------------------------------------
(* Steps of one Run                                                        *)

\* A line that a Run has was read, and is nowhere else.
LEMMA HereFacts ==
  ASSUME BridgeInv, NEW r \in Runs, NEW x \in Here(r)
  PROVE  x \in 1..read /\ x # 0 /\ x \notin Queued /\ x \notin Delivered
<1>1. x \in UNION {Here(s) : s \in Runs}
  OBVIOUS
<1>2. x \in 1..read /\ x \notin Queued /\ x \notin Delivered
  BY <1>1 DEF BridgeInv, Apart
<1> QED
  BY <1>2

\* A line that is on its way is here or in the channel, and has been read.
LEMMA WayFacts ==
  ASSUME BridgeInv, NEW q \in OnTheWay, q # 0
  PROVE  q \in 1..read /\ q \notin Delivered
<1>1. \A r \in Runs : q \in Carried(r) => q \in Here(r)
  BY DEF Carried, Here
<1>2. q \in Queued \/ \E r \in Runs : q \in Here(r)
  BY <1>1 DEF OnTheWay, Queued
<1>3. CASE q \in Queued
  BY <1>3 DEF BridgeInv, Apart
<1>4. CASE \E r \in Runs : q \in Here(r)
  BY <1>4 DEF BridgeInv, Apart
<1> QED
  BY <1>2, <1>3, <1>4

\* Lines that are no longer on their way are lost, which takes a failure.
LEMMA LosesOrStutters ==
  ASSUME BridgeInv, read' = read, delivered' = delivered, broken' \in BOOLEAN, broken => broken',
         \A q \in 1..NLines : q \in OnTheWay' => q \in OnTheWay,
         ~broken' => \A q \in 1..NLines : q \in OnTheWay => q \in OnTheWay'
  PROVE  [Bridge!Next]_(Bridge!vars)
<1> DEFINE Q == {q \in 1..NLines : q \in OnTheWay /\ q \notin OnTheWay'}
           S == [q \in 1..NLines |-> StatusOf(q)]
<1>1. \A q \in Q : StatusOf(q) = "pending"
  <2> SUFFICES ASSUME NEW q \in Q
               PROVE  StatusOf(q) = "pending"
    OBVIOUS
  <2>1. q \in 1..NLines /\ q \in OnTheWay /\ q # 0
    BY ProxyAssumption
  <2>2. q \in 1..read /\ q \notin Delivered /\ read \in Nat
    BY <2>1, WayFacts DEF BridgeInv, TypeOK
  <2> QED
    BY <2>1, <2>2 DEF StatusOf, Delivered
<1>2. \A q \in 1..NLines : StatusOf(q)' = IF q \in Q THEN "lost" ELSE StatusOf(q)
  <2> SUFFICES ASSUME NEW q \in 1..NLines
               PROVE  StatusOf(q)' = IF q \in Q THEN "lost" ELSE StatusOf(q)
    OBVIOUS
  <2>1. CASE q \in Q
    BY <2>1, <1>1 DEF StatusOf
  <2>2. CASE q \notin Q
    BY <2>2 DEF StatusOf
  <2> QED
    BY <2>1, <2>2
<1>3. Q \in SUBSET (1..NLines)
  OBVIOUS
<1> HIDE DEF Q
<1>4. S' = [q \in 1..NLines |-> IF q \in Q THEN "lost" ELSE S[q]]
  BY <1>2
<1>5. \A q \in Q : S[q] = "pending"
  BY <1>1, <1>3
<1>6. CASE broken'
  <2>1. Bridge!Lose(Q)
    BY <1>4, <1>5, <1>6 DEF Bridge!Lose, Bridge!Move
  <2> QED
    BY <1>3, <2>1 DEF Bridge!Next
<1>7. CASE ~broken'
  <2>1. Q = {}
    BY <1>7 DEF Q
  <2>2. S' = S
    BY <1>4, <2>1
  <2>3. broken' = broken
    BY <1>7 DEF BridgeInv, TypeOK
  <2> QED
    BY <2>2, <2>3 DEF Bridge!vars
<1> QED
  BY <1>6, <1>7

\* A step that moves no line.
LEMMA QuietSteps ==
  ASSUME BridgeInv, TypeOK', EndOK', broken => broken', UNCHANGED <<read, linesCh, delivered>>,
         \A r \in Runs :
           /\ run'[r].stdin = run[r].stdin /\ run'[r].src = run[r].src
           /\ run'[r].hand = run[r].hand /\ run'[r].srcHand = run[r].srcHand
           /\ run'[r].out = run[r].out /\ run'[r].post = run[r].post
           /\ run'[r].fatal = run[r].fatal /\ run'[r].done = run[r].done
           /\ run'[r].pc \in {"get", "endpoint"} => run[r].pc \in {"get", "endpoint"}
  PROVE  BridgeInv' /\ [Bridge!Next]_(Bridge!vars)
<1>1. \A r \in Runs : Here(r)' = Here(r) /\ Carried(r)' = Carried(r)
  BY DEF Here, Carried
<1>2. Queued' = Queued /\ Delivered' = Delivered
  BY DEF Queued, Delivered
<1>3. Apart'
  <2>1. \A r \in Runs : \A q \in Here(r)' :
          /\ q \notin Queued' /\ q \notin Delivered'
          /\ \A s \in Runs : q \in Here(s)' => s = r
    BY <1>1, <1>2 DEF BridgeInv, Apart
  <2>2. \A r \in Runs : \A q \in Here(r)' : q \in 1..read'
    BY <1>1 DEF BridgeInv, Apart
  <2>3. \A q \in Queued' \cup Delivered' : q \in 1..read'
    BY <1>2 DEF BridgeInv, Apart
  <2>4. Inj(linesCh)' /\ \A q \in Queued' : q \notin Delivered'
    BY <1>2 DEF BridgeInv, Apart
  <2> QED
    BY <2>1, <2>2, <2>3, <2>4 DEF Apart
<1>4. \A r \in Runs : RunOK(r)' /\ OnePlace(r)'
  BY DEF BridgeInv, RunOK, OnePlace
<1>5. OnTheWay' = OnTheWay
  BY <1>1 DEF OnTheWay
<1>6. [Bridge!Next]_(Bridge!vars)
  BY <1>5, LosesOrStutters DEF TypeOK
<1> QED
  BY <1>3, <1>4, <1>6 DEF BridgeInv

\* A step of one Run keeps every line in one place, when a line that is new
\* there comes from the channel, and one that is delivered leaves it.
LEMMA OneRunKeeps ==
  ASSUME BridgeInv, TypeOK', EndOK', NEW r \in Runs,
         \A s \in Runs : s # r => run'[s] = run[s],
         read' = read, broken => broken',
         Inj(linesCh)', Queued' \subseteq Queued,
         \A q \in Here(r)' : q \in Here(r) \/ (q \in Queued /\ q \notin Queued'),
         \A q \in Delivered' : q \in Delivered \/ (q \in Here(r) /\ q \notin Here(r)'),
         RunOK(r)', OnePlace(r)'
  PROVE  BridgeInv'
<1>1. \A s \in Runs : s # r => Here(s)' = Here(s)
  BY DEF Here
<1>2. \A s \in Runs : RunOK(s)' /\ OnePlace(s)'
  BY DEF BridgeInv, RunOK, OnePlace
<1>3. /\ \A s \in Runs : \A q \in Here(s) :
           /\ q \notin Queued /\ q \notin Delivered /\ q \in 1..read
           /\ \A u \in Runs : q \in Here(u) => u = s
      /\ \A q \in Queued : q \notin Delivered /\ q \in 1..read
      /\ \A q \in Delivered : q \in 1..read
  BY DEF BridgeInv, Apart
<1>4. ASSUME NEW s \in Runs, NEW q \in Here(s)'
      PROVE  /\ q \notin Queued' /\ q \notin Delivered' /\ q \in 1..read'
             /\ \A u \in Runs : q \in Here(u)' => u = s
  <2>1. CASE s = r
    BY <1>1, <1>3, <1>4, <2>1
  <2>2. CASE s # r
    BY <1>1, <1>3, <1>4, <2>2
  <2> QED
    BY <2>1, <2>2
<1>5. \A q \in Queued' : q \notin Delivered' /\ q \in 1..read'
  BY <1>3
<1>6. \A q \in Delivered' : q \in 1..read'
  BY <1>3
<1>7. Apart'
  BY <1>4, <1>5, <1>6 DEF Apart
<1> QED
  BY <1>2, <1>7 DEF BridgeInv

\* What one Run carries and the channel holds after its step was there before.
LEMMA OneRunSteps ==
  ASSUME BridgeInv, TypeOK', NEW r \in Runs,
         \A s \in Runs : s # r => run'[s] = run[s],
         read' = read, delivered' = delivered, broken => broken',
         \A q \in 1..NLines : q \in Queued' \cup Carried(r)' => q \in Queued \cup Carried(r),
         ~broken' => \A q \in 1..NLines : q \in Queued \cup Carried(r) => q \in Queued' \cup Carried(r)'
  PROVE  [Bridge!Next]_(Bridge!vars)
<1>1. \A s \in Runs : s # r => Carried(s)' = Carried(s)
  BY DEF Carried
<1>2. /\ \A q : q \in OnTheWay <=> q \in Queued \/ \E s \in Runs : q \in Carried(s)
      /\ \A q : q \in OnTheWay' <=> q \in Queued' \/ \E s \in Runs : q \in Carried(s)'
  BY DEF OnTheWay, Queued
<1>3. \A q \in 1..NLines : q \in OnTheWay' => q \in OnTheWay
  BY <1>1, <1>2
<1>4. ~broken' => \A q \in 1..NLines : q \in OnTheWay => q \in OnTheWay'
  BY <1>1, <1>2
<1> QED
  BY <1>3, <1>4, LosesOrStutters DEF TypeOK

\* lineSource puts its line into out; it is lost if nobody reads out any more.
LEMMA SrcPushSteps ==
  ASSUME BridgeInv, NEW r \in Runs, SrcPush(r)
  PROVE  BridgeInv' /\ [Bridge!Next]_(Bridge!vars)
<1> DEFINE q == [run[r] EXCEPT !.src = "pull", !.srcHand = 0, !.out = Append(@, run[r].srcHand)]
<1>0. TypeOK /\ EndOK /\ RunOK(r) /\ OnePlace(r)
  BY DEF BridgeInv
<1>1. run[r].src = "push" /\ UNCHANGED <<linesCh, read, eof, ctx, daemon, delivered, broken>>
  BY <1>0 DEF SrcPush, otherVars
<1>a. LET s == Append(run[r].out, run[r].srcHand) IN
        /\ s \in Seq(Nat) /\ ToSet(s) = ToSet(run[r].out) \cup {run[r].srcHand}
        /\ Inj(s)
  BY <1>0, <1>1, RunTypes, AppendFacts DEF RunOK, OnePlace
<1>2. /\ q \in RunRecords
      /\ q.pc = run[r].pc /\ q.stdin = run[r].stdin /\ q.src = "pull"
      /\ q.hand = run[r].hand /\ q.srcHand = 0
      /\ q.out = Append(run[r].out, run[r].srcHand) /\ q.post = run[r].post
      /\ q.fatal = run[r].fatal /\ q.done = run[r].done
  <2>1. run[r] \in RunRecords
    BY <1>0, RunTypes
  <2> QED
    BY <2>1, <1>1, <1>a DEF RunRecords
<1>3. run' = [run EXCEPT ![r] = q]
  BY <1>0 DEF SrcPush, TypeOK
<1> HIDE DEF q
<1>4. /\ run' \in [Runs -> RunRecords] /\ run'[r] = q
      /\ \A s \in Runs : s # r => run'[s] = run[s]
  BY <1>0, <1>2, <1>3, RunUpdate
<1>5. TypeOK' /\ EndOK' /\ (broken => broken')
  BY <1>0, <1>1, <1>4 DEF TypeOK, EndOK
<1>6. RunOK(r)'
  BY <1>0, <1>1, <1>2, <1>4, <1>a, RunTypes DEF RunOK, EndOK
<1>7. OnePlace(r)'
  BY <1>0, <1>1, <1>2, <1>4, <1>a DEF OnePlace, RunOK
<1>8. Here(r)' \subseteq Here(r)
  BY <1>0, <1>1, <1>2, <1>4, <1>a DEF Here, RunOK
<1>9. /\ \A x \in 1..NLines : x \in Carried(r)' => x \in Carried(r)
      /\ ~broken' => \A x \in 1..NLines : x \in Carried(r) => x \in Carried(r)'
  <2>1. CASE run[r].stdin \in {"loop", "hold"}
    <3>1. Carried(r) = {run[r].srcHand, run[r].hand} \cup run[r].post \cup ToSet(run[r].out)
      BY <2>1 DEF Carried
    <3>2. Carried(r)' = {0, run[r].hand} \cup run[r].post \cup (ToSet(run[r].out) \cup {run[r].srcHand})
      BY <1>2, <1>4, <1>a, <2>1 DEF Carried
    <3>3. \A x \in 1..NLines : x # 0
      BY ProxyAssumption
    <3> QED
      BY <3>1, <3>2, <3>3
  <2>2. CASE run[r].stdin \notin {"loop", "hold"}
    <3>1. broken /\ broken' = broken
      BY <1>0, <1>1, <2>2, RunTypes DEF RunOK
    <3> QED
      BY <1>2, <1>4, <2>2, <3>1 DEF Carried
  <2> QED
    BY <2>1, <2>2
<1>10. Queued' = Queued /\ Delivered' = Delivered /\ Inj(linesCh)'
  BY <1>1 DEF Queued, Delivered, BridgeInv, Apart
<1>11. BridgeInv'
  BY <1>1, <1>4, <1>5, <1>6, <1>7, <1>8, <1>10, OneRunKeeps
<1>12. [Bridge!Next]_(Bridge!vars)
  BY <1>1, <1>4, <1>5, <1>9, <1>10, OneRunSteps
<1> QED
  BY <1>11, <1>12

\* The loop takes a line from out.
LEMMA StdinTakeSteps ==
  ASSUME BridgeInv, NEW r \in Runs, StdinTake(r)
  PROVE  BridgeInv' /\ [Bridge!Next]_(Bridge!vars)
<1> DEFINE q == [run[r] EXCEPT !.stdin = "hold", !.hand = Head(run[r].out), !.out = Tail(@)]
<1>0. TypeOK /\ EndOK /\ RunOK(r) /\ OnePlace(r)
  BY DEF BridgeInv
<1>1. run[r].stdin = "loop" /\ run[r].out # <<>> /\ UNCHANGED <<linesCh, read, eof, ctx, daemon, delivered, broken>>
  BY <1>0 DEF StdinTake, otherVars
<1>a. LET x == Head(run[r].out) IN
        /\ x \in Nat \ {0} /\ Tail(run[r].out) \in Seq(Nat)
        /\ ToSet(run[r].out) = {x} \cup ToSet(Tail(run[r].out))
        /\ Inj(Tail(run[r].out)) /\ x \notin ToSet(Tail(run[r].out))
  <2>1. run[r].out \in Seq(Nat) /\ Inj(run[r].out)
    BY <1>0, RunTypes DEF OnePlace
  <2>2. \A x \in ToSet(run[r].out) : x # 0
    BY HereFacts DEF Here
  <2> QED
    BY <1>1, <2>1, <2>2, TakeFacts
<1>2. /\ q \in RunRecords
      /\ q.pc = run[r].pc /\ q.stdin = "hold" /\ q.src = run[r].src
      /\ q.hand = Head(run[r].out) /\ q.srcHand = run[r].srcHand
      /\ q.out = Tail(run[r].out) /\ q.post = run[r].post /\ q.fatal = run[r].fatal
      /\ q.done = run[r].done
  <2>1. run[r] \in RunRecords
    BY <1>0, RunTypes
  <2> QED
    BY <2>1, <1>1, <1>a DEF RunRecords
<1>3. run' = [run EXCEPT ![r] = q]
  BY <1>0 DEF StdinTake, TypeOK
<1> HIDE DEF q
<1>4. /\ run' \in [Runs -> RunRecords] /\ run'[r] = q
      /\ \A s \in Runs : s # r => run'[s] = run[s]
  BY <1>0, <1>2, <1>3, RunUpdate
<1>5. TypeOK' /\ EndOK' /\ (broken => broken')
  BY <1>0, <1>1, <1>4 DEF TypeOK, EndOK
<1>6. RunOK(r)'
  BY <1>0, <1>1, <1>2, <1>4, <1>a, RunTypes DEF RunOK, EndOK
<1>7. OnePlace(r)'
  BY <1>0, <1>1, <1>2, <1>4, <1>a DEF OnePlace, RunOK
<1>8. Here(r)' \subseteq Here(r)
  BY <1>0, <1>1, <1>2, <1>4, <1>a DEF Here, RunOK
<1>9. /\ \A x \in 1..NLines : x \in Carried(r)' => x \in Carried(r)
      /\ ~broken' => \A x \in 1..NLines : x \in Carried(r) => x \in Carried(r)'
  BY <1>0, <1>1, <1>2, <1>4, <1>a, RunTypes DEF Carried, RunOK, EndOK
<1>10. Queued' = Queued /\ Delivered' = Delivered /\ Inj(linesCh)'
  BY <1>1 DEF Queued, Delivered, BridgeInv, Apart
<1>11. BridgeInv'
  BY <1>1, <1>4, <1>5, <1>6, <1>7, <1>8, <1>10, OneRunKeeps
<1>12. [Bridge!Next]_(Bridge!vars)
  BY <1>1, <1>4, <1>5, <1>9, <1>10, OneRunSteps
<1> QED
  BY <1>11, <1>12

\* The loop hands its line to a POST goroutine.
LEMMA DispatchSteps ==
  ASSUME BridgeInv, NEW r \in Runs, Dispatch(r)
  PROVE  BridgeInv' /\ [Bridge!Next]_(Bridge!vars)
<1> DEFINE q == [run[r] EXCEPT !.stdin = "loop", !.hand = 0, !.post = @ \cup {run[r].hand}]
<1>0. TypeOK /\ EndOK /\ RunOK(r) /\ OnePlace(r)
  BY DEF BridgeInv
<1>1. run[r].stdin = "hold" /\ UNCHANGED <<linesCh, read, eof, ctx, daemon, delivered, broken>>
  BY <1>0 DEF Dispatch, otherVars
<1>2. /\ q \in RunRecords
      /\ q.pc = run[r].pc /\ q.stdin = "loop" /\ q.src = run[r].src /\ q.hand = 0
      /\ q.srcHand = run[r].srcHand /\ q.out = run[r].out
      /\ q.post = run[r].post \cup {run[r].hand} /\ q.fatal = run[r].fatal
      /\ q.done = run[r].done
  <2>1. run[r] \in RunRecords
    BY <1>0, RunTypes
  <2> QED
    BY <2>1, <1>1, <1>0, RunTypes DEF RunRecords
<1>3. run' = [run EXCEPT ![r] = q]
  BY <1>0 DEF Dispatch, TypeOK
<1> HIDE DEF q
<1>4. /\ run' \in [Runs -> RunRecords] /\ run'[r] = q
      /\ \A s \in Runs : s # r => run'[s] = run[s]
  BY <1>0, <1>2, <1>3, RunUpdate
<1>5. TypeOK' /\ EndOK' /\ (broken => broken')
  BY <1>0, <1>1, <1>4 DEF TypeOK, EndOK
<1>6. RunOK(r)'
  BY <1>0, <1>1, <1>2, <1>4, RunTypes DEF RunOK, EndOK
<1>7. OnePlace(r)'
  BY <1>0, <1>1, <1>2, <1>4 DEF OnePlace, RunOK
<1>8. Here(r)' \subseteq Here(r)
  BY <1>0, <1>1, <1>2, <1>4 DEF Here, RunOK
<1>9. /\ \A x \in 1..NLines : x \in Carried(r)' => x \in Carried(r)
      /\ ~broken' => \A x \in 1..NLines : x \in Carried(r) => x \in Carried(r)'
  BY <1>0, <1>1, <1>2, <1>4 DEF Carried, RunOK, EndOK
<1>10. Queued' = Queued /\ Delivered' = Delivered /\ Inj(linesCh)'
  BY <1>1 DEF Queued, Delivered, BridgeInv, Apart
<1>11. BridgeInv'
  BY <1>1, <1>4, <1>5, <1>6, <1>7, <1>8, <1>10, OneRunKeeps
<1>12. [Bridge!Next]_(Bridge!vars)
  BY <1>1, <1>4, <1>5, <1>9, <1>10, OneRunSteps
<1> QED
  BY <1>11, <1>12

\* Or drops it, when a POST has failed or ctx is done.
LEMMA DispatchDropsSteps ==
  ASSUME BridgeInv, NEW r \in Runs, DispatchDrops(r)
  PROVE  BridgeInv' /\ [Bridge!Next]_(Bridge!vars)
<1> DEFINE q == [run[r] EXCEPT !.stdin = "loop", !.hand = 0]
<1>0. TypeOK /\ EndOK /\ RunOK(r) /\ OnePlace(r)
  BY DEF BridgeInv
<1>1. run[r].stdin = "hold" /\ (run[r].fatal \/ ctx) /\ UNCHANGED <<linesCh, read, eof, ctx, daemon, delivered, broken>>
  BY <1>0 DEF DispatchDrops, otherVars
<1>2. /\ q \in RunRecords
      /\ q.pc = run[r].pc /\ q.stdin = "loop" /\ q.src = run[r].src /\ q.hand = 0
      /\ q.srcHand = run[r].srcHand /\ q.out = run[r].out /\ q.post = run[r].post
      /\ q.fatal = run[r].fatal /\ q.done = run[r].done
  <2>1. run[r] \in RunRecords
    BY <1>0, RunTypes
  <2> QED
    BY <2>1, <1>1 DEF RunRecords
<1>3. run' = [run EXCEPT ![r] = q]
  BY <1>0 DEF DispatchDrops, TypeOK
<1> HIDE DEF q
<1>4. /\ run' \in [Runs -> RunRecords] /\ run'[r] = q
      /\ \A s \in Runs : s # r => run'[s] = run[s]
  BY <1>0, <1>2, <1>3, RunUpdate
<1>5. TypeOK' /\ EndOK' /\ (broken => broken')
  BY <1>0, <1>1, <1>4 DEF TypeOK, EndOK
<1>6. RunOK(r)'
  BY <1>0, <1>1, <1>2, <1>4, RunTypes DEF RunOK, EndOK
<1>7. OnePlace(r)'
  BY <1>0, <1>1, <1>2, <1>4 DEF OnePlace, RunOK
<1>8. Here(r)' \subseteq Here(r)
  BY <1>0, <1>1, <1>2, <1>4 DEF Here, RunOK
<1>9. /\ \A x \in 1..NLines : x \in Carried(r)' => x \in Carried(r)
      /\ ~broken' => \A x \in 1..NLines : x \in Carried(r) => x \in Carried(r)'
  BY <1>0, <1>1, <1>2, <1>4 DEF Carried, RunOK, EndOK
<1>10. Queued' = Queued /\ Delivered' = Delivered /\ Inj(linesCh)'
  BY <1>1 DEF Queued, Delivered, BridgeInv, Apart
<1>11. BridgeInv'
  BY <1>1, <1>4, <1>5, <1>6, <1>7, <1>8, <1>10, OneRunKeeps
<1>12. [Bridge!Next]_(Bridge!vars)
  BY <1>1, <1>4, <1>5, <1>9, <1>10, OneRunSteps
<1> QED
  BY <1>11, <1>12

\* Set: the Run's new record, or the one of a Run that is over.
LEMMA SetRunFacts ==
  ASSUME TypeOK, NEW r \in Runs, NEW q \in RunRecords, Set(r, q),
         q.stdin = "off" /\ q.src = "off" => q.hand = 0 /\ q.srcHand = 0 /\ q.post = {}
  PROVE  /\ run' \in [Runs -> RunRecords]
         /\ \A s \in Runs : s # r => run'[s] = run[s]
         /\ run'[r].pc = q.pc /\ run'[r].stdin = q.stdin /\ run'[r].src = q.src
         /\ run'[r].hand = q.hand /\ run'[r].srcHand = q.srcHand /\ run'[r].post = q.post
         /\ run'[r].out = q.out \/ (q.stdin = "off" /\ run'[r].out = <<>>)
         /\ run'[r].fatal => q.fatal
         /\ run'[r].done # "no" => q.done # "no"
<1> DEFINE over == q.pc = "returned" /\ q.stdin = "off" /\ q.src = "off"
<1>1. CASE over
  <2>1. run' = [run EXCEPT ![r] = Dead]
    BY <1>1 DEF Set
  <2>2. run' \in [Runs -> RunRecords] /\ run'[r] = Dead /\ \A s \in Runs : s # r => run'[s] = run[s]
    BY <2>1, DeadFacts, RunUpdate
  <2> QED
    BY <1>1, <2>2, DeadFacts
<1>2. CASE ~over
  <2>1. run' = [run EXCEPT ![r] = q]
    BY <1>2 DEF Set
  <2> QED
    BY <2>1, RunUpdate
<1> QED
  BY <1>1, <1>2

\* readStdin leaves its loop: the lines that are still in out are lost.
LEMMA StdinLeavesSteps ==
  ASSUME BridgeInv, NEW r \in Runs, StdinLeaves(r)
  PROVE  BridgeInv' /\ [Bridge!Next]_(Bridge!vars)
<1>0. TypeOK /\ EndOK /\ RunOK(r) /\ OnePlace(r)
  BY DEF BridgeInv
<1>1. PICK w \in {"nil", "canceled"} :
        /\ \/ w = "canceled" /\ ctx
           \/ w = "nil" /\ run[r].fatal
           \/ w = run[r].done
        /\ run' = [run EXCEPT ![r].stdin = "wait", ![r].why = w]
  BY DEF StdinLeaves
<1>a. /\ run[r].stdin = "loop" /\ broken
      /\ UNCHANGED <<linesCh, read, eof, ctx, daemon, delivered, broken>>
  BY <1>0, <1>1 DEF StdinLeaves, otherVars, EndOK, RunOK
<1> DEFINE q == [run[r] EXCEPT !.stdin = "wait", !.why = w]
<1>2. /\ q \in RunRecords /\ q.stdin = "wait"
      /\ q.pc = run[r].pc /\ q.src = run[r].src /\ q.hand = run[r].hand
      /\ q.srcHand = run[r].srcHand /\ q.out = run[r].out /\ q.post = run[r].post
  <2>1. run[r] \in RunRecords
    BY <1>0, RunTypes
  <2> QED
    BY <2>1 DEF RunRecords
<1>3. run' = [run EXCEPT ![r] = q]
  BY <1>0, <1>1 DEF TypeOK
<1> HIDE DEF q
<1>4. /\ run' \in [Runs -> RunRecords] /\ run'[r] = q
      /\ \A s \in Runs : s # r => run'[s] = run[s]
  BY <1>0, <1>2, <1>3, RunUpdate
<1>5. TypeOK' /\ EndOK' /\ broken'
  BY <1>0, <1>a, <1>4 DEF TypeOK, EndOK
<1>6. RunOK(r)'
  BY <1>0, <1>a, <1>2, <1>4, <1>5 DEF RunOK
<1>7. OnePlace(r)' /\ Here(r)' = Here(r)
  BY <1>0, <1>2, <1>4 DEF OnePlace, Here
<1>8. \A x \in 1..NLines : x \in Carried(r)' => x \in Carried(r)
  BY <1>2, <1>4 DEF Carried
<1>9. Queued' = Queued /\ Delivered' = Delivered /\ Inj(linesCh)'
  BY <1>a DEF Queued, Delivered, BridgeInv, Apart
<1>10. BridgeInv'
  BY <1>a, <1>4, <1>5, <1>6, <1>7, <1>9, OneRunKeeps
<1>11. [Bridge!Next]_(Bridge!vars)
  BY <1>a, <1>4, <1>5, <1>8, <1>9, OneRunSteps
<1> QED
  BY <1>10, <1>11

\* readStdin and lineSource start with nothing in their hands.
LEMMA EndpointSteps ==
  ASSUME BridgeInv, NEW r \in Runs, Endpoint(r)
  PROVE  BridgeInv' /\ [Bridge!Next]_(Bridge!vars)
<1> DEFINE q == [run[r] EXCEPT !.pc = "serve", !.stdin = "loop", !.src = "pull"]
<1>0. TypeOK /\ EndOK /\ RunOK(r) /\ OnePlace(r)
  BY DEF BridgeInv
<1>1. /\ run[r].pc = "endpoint" /\ run[r].stdin = "off" /\ run[r].src = "off"
      /\ run[r].out = <<>> /\ run[r].hand = 0 /\ run[r].srcHand = 0
      /\ UNCHANGED <<linesCh, read, eof, ctx, daemon, delivered, broken>>
  BY <1>0 DEF Endpoint, RunOK, otherVars
<1>2. /\ q \in RunRecords
      /\ q.pc = "serve" /\ q.stdin = "loop" /\ q.src = "pull" /\ q.hand = run[r].hand
      /\ q.srcHand = run[r].srcHand /\ q.out = run[r].out /\ q.post = run[r].post
      /\ q.fatal = run[r].fatal /\ q.done = run[r].done
  <2>1. run[r] \in RunRecords
    BY <1>0, RunTypes
  <2> QED
    BY <2>1, <1>1 DEF RunRecords
<1>3. run' = [run EXCEPT ![r] = q]
  BY <1>0 DEF Endpoint, TypeOK
<1> HIDE DEF q
<1>4. /\ run' \in [Runs -> RunRecords] /\ run'[r] = q
      /\ \A s \in Runs : s # r => run'[s] = run[s]
  BY <1>0, <1>2, <1>3, RunUpdate
<1>5. TypeOK' /\ EndOK' /\ (broken => broken')
  BY <1>0, <1>1, <1>4 DEF TypeOK, EndOK
<1>6. RunOK(r)'
  BY <1>0, <1>1, <1>2, <1>4, RunTypes DEF RunOK, EndOK
<1>7. OnePlace(r)'
  BY <1>0, <1>1, <1>2, <1>4 DEF OnePlace, RunOK
<1>8. Here(r)' \subseteq Here(r)
  BY <1>0, <1>1, <1>2, <1>4 DEF Here, RunOK
<1>9. /\ \A x \in 1..NLines : x \in Carried(r)' => x \in Carried(r)
      /\ ~broken' => \A x \in 1..NLines : x \in Carried(r) => x \in Carried(r)'
  BY <1>1, <1>2, <1>4, EmptyFacts DEF Carried
<1>10. Queued' = Queued /\ Delivered' = Delivered /\ Inj(linesCh)'
  BY <1>1 DEF Queued, Delivered, BridgeInv, Apart
<1>11. BridgeInv'
  BY <1>1, <1>4, <1>5, <1>6, <1>7, <1>8, <1>10, OneRunKeeps
<1>12. [Bridge!Next]_(Bridge!vars)
  BY <1>1, <1>4, <1>5, <1>9, <1>10, OneRunSteps
<1> QED
  BY <1>11, <1>12

\* lineSource ends and drops the line in its hands.
LEMMA SrcEndsSteps ==
  ASSUME BridgeInv, NEW r \in Runs, SrcEnds(r)
  PROVE  BridgeInv' /\ [Bridge!Next]_(Bridge!vars)
<1>0. TypeOK /\ EndOK /\ RunOK(r) /\ OnePlace(r)
  BY DEF BridgeInv
<1>1. PICK d \in {"nil", "canceled"} :
        /\ Set(r, [run[r] EXCEPT !.src = "off", !.srcHand = 0, !.done = d])
        /\ broken /\ UNCHANGED <<linesCh, read, eof, ctx, daemon, delivered, broken>>
  <2>1. PICK d \in {"nil", "canceled"} :
          SrcDone(r, d) /\ Set(r, [run[r] EXCEPT !.src = "off", !.srcHand = 0, !.done = d])
    BY DEF SrcEnds
  <2>2. broken /\ UNCHANGED <<linesCh, read, eof, ctx, daemon, delivered, broken>>
    BY <1>0, <2>1 DEF SrcEnds, SrcDone, otherVars, EndOK, RunOK
  <2> QED
    BY <2>1, <2>2
<1> DEFINE q == [run[r] EXCEPT !.src = "off", !.srcHand = 0, !.done = d]
<1>2. /\ q \in RunRecords
      /\ q.src = "off" /\ q.srcHand = 0 /\ q.pc = run[r].pc /\ q.stdin = run[r].stdin
      /\ q.hand = run[r].hand /\ q.out = run[r].out /\ q.post = run[r].post
      /\ q.fatal = run[r].fatal
  <2>1. run[r] \in RunRecords
    BY <1>0, RunTypes
  <2> QED
    BY <2>1 DEF RunRecords
<1>3. Set(r, q)
  BY <1>1
<1>4. q.stdin = "off" /\ q.src = "off" => q.hand = 0 /\ q.srcHand = 0 /\ q.post = {}
  BY <1>0, <1>1, <1>2 DEF RunOK
<1> HIDE DEF q
<1>5. /\ run' \in [Runs -> RunRecords]
      /\ \A s \in Runs : s # r => run'[s] = run[s]
      /\ run'[r].pc = q.pc /\ run'[r].stdin = q.stdin /\ run'[r].src = q.src
      /\ run'[r].hand = q.hand /\ run'[r].srcHand = q.srcHand /\ run'[r].post = q.post
      /\ run'[r].out = q.out \/ (q.stdin = "off" /\ run'[r].out = <<>>)
      /\ run'[r].fatal => q.fatal
      /\ run'[r].done # "no" => q.done # "no"
  BY <1>0, <1>2, <1>3, <1>4, SetRunFacts
<1>6. TypeOK' /\ EndOK' /\ broken'
  BY <1>0, <1>1, <1>5 DEF TypeOK, EndOK
<1>7. RunOK(r)'
  BY <1>0, <1>1, <1>2, <1>5, <1>6 DEF RunOK
<1>8. OnePlace(r)' /\ Here(r)' \subseteq Here(r)
  <2>1. CASE run'[r].out = run[r].out
    BY <1>0, <1>2, <1>5, <2>1 DEF OnePlace, Here
  <2>2. CASE run'[r].out = <<>>
    BY <1>0, <1>2, <1>5, <2>2, EmptyFacts DEF OnePlace, Here
  <2> QED
    BY <1>2, <1>5, <2>1, <2>2
<1>9. \A x \in 1..NLines : x \in Carried(r)' => x \in Carried(r)
  <2>1. \A x \in 1..NLines : x # 0
    BY ProxyAssumption
  <2> QED
    BY <1>1, <1>2, <1>5, <2>1 DEF Carried
<1>10. Queued' = Queued /\ Delivered' = Delivered /\ Inj(linesCh)'
  BY <1>1 DEF Queued, Delivered, BridgeInv, Apart
<1>11. BridgeInv'
  BY <1>1, <1>5, <1>6, <1>7, <1>8, <1>10, OneRunKeeps
<1>12. [Bridge!Next]_(Bridge!vars)
  BY <1>1, <1>5, <1>6, <1>9, <1>10, OneRunSteps
<1> QED
  BY <1>11, <1>12

\* readStdin returns: its channel goes with it.
LEMMA StdinReturnsSteps ==
  ASSUME BridgeInv, NEW r \in Runs, StdinReturns(r)
  PROVE  BridgeInv' /\ [Bridge!Next]_(Bridge!vars)
<1>0. TypeOK /\ EndOK /\ RunOK(r) /\ OnePlace(r)
  BY DEF BridgeInv
<1>a. run[r].stdin = "wait" /\ run[r].post = {} /\ run[r].hand = 0 /\ broken
  BY <1>0 DEF StdinReturns, RunOK
<1> DEFINE e == IF run[r].pc = "returned" THEN run[r].errCh
                ELSE Append(run[r].errCh, IF run[r].fatal THEN "err" ELSE run[r].why)
<1>1. /\ run[r].stdin = "wait" /\ run[r].post = {} /\ run[r].hand = 0 /\ broken
      /\ Set(r, [run[r] EXCEPT !.stdin = "off", !.out = <<>>, !.errCh = e])
      /\ UNCHANGED <<linesCh, read, eof, ctx, daemon, delivered, broken>>
  BY <1>a DEF StdinReturns, otherVars
<1>b. e \in Seq({"no", "err", "nil", "canceled"})
  <2>1. run[r] \in RunRecords
    BY <1>0, RunTypes
  <2>2. /\ run[r].errCh \in Seq({"no", "err", "nil", "canceled"})
        /\ run[r].why \in {"no", "err", "nil", "canceled"}
    BY <2>1 DEF RunRecords
  <2> QED
    BY <2>2
<1> HIDE DEF e
<1> DEFINE q == [run[r] EXCEPT !.stdin = "off", !.out = <<>>, !.errCh = e]
<1>2. /\ q \in RunRecords
      /\ q.stdin = "off" /\ q.out = <<>> /\ q.pc = run[r].pc /\ q.src = run[r].src
      /\ q.hand = run[r].hand /\ q.srcHand = run[r].srcHand /\ q.post = run[r].post
      /\ q.fatal = run[r].fatal /\ q.done = run[r].done
  <2>1. run[r] \in RunRecords
    BY <1>0, RunTypes
  <2>2. <<>> \in Seq(Nat)
    OBVIOUS
  <2> QED
    BY <2>1, <2>2, <1>b DEF RunRecords
<1>3. Set(r, q)
  BY <1>1
<1>4. q.stdin = "off" /\ q.src = "off" => q.hand = 0 /\ q.srcHand = 0 /\ q.post = {}
  BY <1>0, <1>1, <1>2 DEF RunOK
<1> HIDE DEF q
<1>5. /\ run' \in [Runs -> RunRecords]
      /\ \A s \in Runs : s # r => run'[s] = run[s]
      /\ run'[r].pc = q.pc /\ run'[r].stdin = q.stdin /\ run'[r].src = q.src
      /\ run'[r].hand = q.hand /\ run'[r].srcHand = q.srcHand /\ run'[r].post = q.post
      /\ run'[r].out = q.out \/ (q.stdin = "off" /\ run'[r].out = <<>>)
      /\ run'[r].fatal => q.fatal
      /\ run'[r].done # "no" => q.done # "no"
  BY <1>0, <1>2, <1>3, <1>4, SetRunFacts
<1>6. TypeOK' /\ EndOK' /\ broken'
  BY <1>0, <1>1, <1>5 DEF TypeOK, EndOK
<1>7. RunOK(r)'
  BY <1>0, <1>1, <1>2, <1>5, <1>6 DEF RunOK
<1>8. OnePlace(r)' /\ Here(r)' \subseteq Here(r)
  <2>1. CASE run'[r].out = run[r].out
    BY <1>0, <1>2, <1>5, <2>1 DEF OnePlace, Here
  <2>2. CASE run'[r].out = <<>>
    BY <1>0, <1>2, <1>5, <2>2, EmptyFacts DEF OnePlace, Here
  <2> QED
    BY <1>2, <1>5, <2>1, <2>2
<1>9. \A x \in 1..NLines : x \in Carried(r)' => x \in Carried(r)
  <2>1. \A x \in 1..NLines : x # 0
    BY ProxyAssumption
  <2> QED
    BY <1>1, <1>2, <1>5, <2>1 DEF Carried
<1>10. Queued' = Queued /\ Delivered' = Delivered /\ Inj(linesCh)'
  BY <1>1 DEF Queued, Delivered, BridgeInv, Apart
<1>11. BridgeInv'
  BY <1>1, <1>5, <1>6, <1>7, <1>8, <1>10, OneRunKeeps
<1>12. [Bridge!Next]_(Bridge!vars)
  BY <1>1, <1>5, <1>6, <1>9, <1>10, OneRunSteps
<1> QED
  BY <1>11, <1>12

\* Run returns; its readStdin and lineSource may go on.
LEMMA RunReturnsSteps ==
  ASSUME BridgeInv, NEW r \in Runs, NEW err, RunReturns(r, err)
  PROVE  BridgeInv' /\ [Bridge!Next]_(Bridge!vars)
<1>0. TypeOK /\ EndOK /\ RunOK(r) /\ OnePlace(r)
  BY DEF BridgeInv
<1>1. /\ Set(r, [run[r] EXCEPT !.pc = "returned", !.sse = "off", !.errCh = <<>>])
      /\ broken' = TRUE /\ UNCHANGED <<linesCh, read, eof, ctx, daemon, delivered>>
  BY DEF RunReturns
<1> DEFINE q == [run[r] EXCEPT !.pc = "returned", !.sse = "off", !.errCh = <<>>]
<1>2. /\ q \in RunRecords
      /\ q.pc = "returned" /\ q.stdin = run[r].stdin /\ q.src = run[r].src
      /\ q.hand = run[r].hand /\ q.srcHand = run[r].srcHand /\ q.post = run[r].post
      /\ q.out = run[r].out /\ q.fatal = run[r].fatal /\ q.done = run[r].done
  <2>1. run[r] \in RunRecords
    BY <1>0, RunTypes
  <2>2. <<>> \in Seq({"no", "err", "nil", "canceled"})
    OBVIOUS
  <2> QED
    BY <2>1, <2>2 DEF RunRecords
<1>3. Set(r, q)
  BY <1>1
<1>4. q.stdin = "off" /\ q.src = "off" => q.hand = 0 /\ q.srcHand = 0 /\ q.post = {}
  BY <1>0, <1>1, <1>2 DEF RunOK
<1> HIDE DEF q
<1>5. /\ run' \in [Runs -> RunRecords]
      /\ \A s \in Runs : s # r => run'[s] = run[s]
      /\ run'[r].pc = q.pc /\ run'[r].stdin = q.stdin /\ run'[r].src = q.src
      /\ run'[r].hand = q.hand /\ run'[r].srcHand = q.srcHand /\ run'[r].post = q.post
      /\ run'[r].out = q.out \/ (q.stdin = "off" /\ run'[r].out = <<>>)
      /\ run'[r].fatal => q.fatal
      /\ run'[r].done # "no" => q.done # "no"
  BY <1>0, <1>2, <1>3, <1>4, SetRunFacts
<1>6. TypeOK' /\ EndOK' /\ broken'
  BY <1>0, <1>1, <1>5 DEF TypeOK, EndOK
<1>7. RunOK(r)'
  BY <1>0, <1>1, <1>2, <1>5, <1>6 DEF RunOK
<1>8. OnePlace(r)' /\ Here(r)' \subseteq Here(r)
  <2>1. CASE run'[r].out = run[r].out
    BY <1>0, <1>2, <1>5, <2>1 DEF OnePlace, Here
  <2>2. CASE run'[r].out = <<>>
    BY <1>0, <1>2, <1>5, <2>2, EmptyFacts DEF OnePlace, Here
  <2> QED
    BY <1>2, <1>5, <2>1, <2>2
<1>9. \A x \in 1..NLines : x \in Carried(r)' => x \in Carried(r)
  <2>1. \A x \in 1..NLines : x # 0
    BY ProxyAssumption
  <2> QED
    BY <1>1, <1>2, <1>5, <2>1 DEF Carried
<1>10. Queued' = Queued /\ Delivered' = Delivered /\ Inj(linesCh)'
  BY <1>1 DEF Queued, Delivered, BridgeInv, Apart
<1>11. BridgeInv'
  BY <1>1, <1>5, <1>6, <1>7, <1>8, <1>10, OneRunKeeps
<1>12. [Bridge!Next]_(Bridge!vars)
  BY <1>1, <1>5, <1>6, <1>9, <1>10, OneRunSteps
<1> QED
  BY <1>11, <1>12

\* A new Run takes the place of one that is over.
LEMMA ResolveSteps ==
  ASSUME BridgeInv, Resolve
  PROVE  BridgeInv' /\ [Bridge!Next]_(Bridge!vars)
<1>1. PICK r \in Runs : Over(r) /\ run' = [run EXCEPT ![r] = NewRun]
  <2>1. (CHOOSE r \in Runs : Over(r)) \in Runs /\ Over(CHOOSE r \in Runs : Over(r))
    BY DEF Resolve
  <2>2. run' = [run EXCEPT ![CHOOSE r \in Runs : Over(r)] = NewRun]
    BY DEF Resolve
  <2> QED
    BY <2>1, <2>2
<1>0. TypeOK /\ EndOK /\ RunOK(r) /\ OnePlace(r)
  BY DEF BridgeInv
<1>2. UNCHANGED <<linesCh, read, eof, ctx, daemon, delivered, broken>>
  BY DEF Resolve
<1>3. /\ run[r].stdin = "off" /\ run[r].src = "off"
      /\ run[r].hand = 0 /\ run[r].srcHand = 0 /\ run[r].post = {}
  BY <1>0, <1>1 DEF RunOK, Over
<1>4. /\ run' \in [Runs -> RunRecords] /\ run'[r] = NewRun
      /\ \A s \in Runs : s # r => run'[s] = run[s]
  BY <1>0, <1>1, DeadFacts, RunUpdate
<1>5. TypeOK' /\ EndOK'
  BY <1>0, <1>2, <1>4 DEF TypeOK, EndOK
<1>6. RunOK(r)'
  BY <1>0, <1>4, DeadFacts DEF RunOK
<1>7. OnePlace(r)' /\ Here(r)' = {}
  BY <1>0, <1>4, DeadFacts, EmptyFacts DEF OnePlace, Here
<1>8. Carried(r) = {0} /\ Carried(r)' = {0}
  BY <1>0, <1>3, <1>4, DeadFacts DEF Carried
<1>9. Queued' = Queued /\ Delivered' = Delivered /\ Inj(linesCh)'
  BY <1>2 DEF Queued, Delivered, BridgeInv, Apart
<1>10. BridgeInv'
  BY <1>2, <1>4, <1>5, <1>6, <1>7, <1>9, OneRunKeeps
<1>11. [Bridge!Next]_(Bridge!vars)
  BY <1>2, <1>4, <1>5, <1>8, <1>9, OneRunSteps
<1> QED
  BY <1>10, <1>11

\* lineSource takes a line from the channel.
LEMMA SrcTakeSteps ==
  ASSUME BridgeInv, NEW r \in Runs, SrcTake(r)
  PROVE  BridgeInv' /\ [Bridge!Next]_(Bridge!vars)
<1> DEFINE x == Head(linesCh)
           q == [run[r] EXCEPT !.src = "push", !.srcHand = x]
<1>0. TypeOK /\ EndOK /\ Apart /\ RunOK(r) /\ OnePlace(r)
  BY DEF BridgeInv
<1>1. /\ run[r].src = "pull" /\ run[r].srcHand = 0 /\ linesCh # <<>> /\ linesCh' = Tail(linesCh)
      /\ UNCHANGED <<read, eof, ctx, daemon, delivered, broken>>
  BY <1>0 DEF SrcTake, otherVars, RunOK
<1>2. /\ x \in Nat /\ linesCh' \in Seq(Nat) /\ Queued = {x} \cup Queued'
      /\ Inj(linesCh)' /\ x \notin Queued'
  <2>1. linesCh \in Seq(Nat) /\ Inj(linesCh)
    BY <1>0 DEF TypeOK, Apart
  <2> QED
    BY <1>1, <2>1, TakeFacts DEF Queued
<1>3. x # 0 /\ x \notin Here(r)
  BY <1>0, <1>2 DEF Apart, TypeOK
<1> HIDE DEF x
<1>4. /\ q \in RunRecords
      /\ q.pc = run[r].pc /\ q.stdin = run[r].stdin /\ q.src = "push"
      /\ q.hand = run[r].hand /\ q.srcHand = x /\ q.out = run[r].out
      /\ q.post = run[r].post /\ q.fatal = run[r].fatal /\ q.done = run[r].done
  <2>1. run[r] \in RunRecords
    BY <1>0, RunTypes
  <2> QED
    BY <2>1, <1>2 DEF RunRecords
<1>5. run' = [run EXCEPT ![r] = q]
  BY <1>0 DEF SrcTake, TypeOK, x
<1> HIDE DEF q
<1>6. /\ run' \in [Runs -> RunRecords] /\ run'[r] = q
      /\ \A s \in Runs : s # r => run'[s] = run[s]
  BY <1>0, <1>4, <1>5, RunUpdate
<1>7. TypeOK' /\ EndOK'
  BY <1>0, <1>1, <1>2, <1>6 DEF TypeOK, EndOK
<1>8. RunOK(r)'
  BY <1>0, <1>1, <1>3, <1>4, <1>6 DEF RunOK
<1>9. OnePlace(r)'
  BY <1>0, <1>1, <1>3, <1>4, <1>6 DEF OnePlace, Here
<1>10. \A y \in Here(r)' : y \in Here(r) \/ y = x
  BY <1>4, <1>6 DEF Here
<1>11. \A y \in 1..NLines : y \in Queued' \cup Carried(r)' <=> y \in Queued \cup Carried(r)
  <2>1. \A y \in 1..NLines : y # 0
    BY ProxyAssumption
  <2> QED
    BY <1>1, <1>2, <1>4, <1>6, <2>1 DEF Carried
<1>12. Delivered' = Delivered
  BY <1>1 DEF Delivered
<1>13. BridgeInv'
  BY <1>1, <1>2, <1>6, <1>7, <1>8, <1>9, <1>10, <1>12, OneRunKeeps
<1>14. [Bridge!Next]_(Bridge!vars)
  BY <1>1, <1>6, <1>7, <1>11, OneRunSteps
<1> QED
  BY <1>13, <1>14

\* The daemon is handed a line: the record of the Run without it, with or
\* without a failure.
LEMMA DeliverSteps ==
  ASSUME BridgeInv, NEW r \in Runs, NEW line \in 1..NLines, line \in run[r].post,
         NEW q \in RunRecords, run' = [run EXCEPT ![r] = q], q.post = run[r].post \ {line},
         q.pc = run[r].pc, q.stdin = run[r].stdin, q.src = run[r].src, q.hand = run[r].hand,
         q.srcHand = run[r].srcHand, q.out = run[r].out, q.done = run[r].done,
         q.fatal => run[r].fatal \/ broken', broken' \in {broken, TRUE},
         delivered' = Append(delivered, line), UNCHANGED <<linesCh, read, eof, ctx, daemon>>
  PROVE  BridgeInv' /\ [Bridge!Next]_(Bridge!vars)
<1>0. TypeOK /\ EndOK /\ RunOK(r) /\ OnePlace(r)
  BY DEF BridgeInv
<1>1. /\ run' \in [Runs -> RunRecords] /\ run'[r] = q
      /\ \A s \in Runs : s # r => run'[s] = run[s]
  BY <1>0, RunUpdate
<1>2. delivered' \in Seq(Nat) /\ Delivered' = Delivered \cup {line}
  BY <1>0, ProxyAssumption, AppendFacts DEF TypeOK, Delivered
<1>3. TypeOK' /\ EndOK' /\ (broken => broken')
  BY <1>0, <1>1, <1>2 DEF TypeOK, EndOK
<1>4. RunOK(r)'
  BY <1>0, <1>1, <1>3 DEF RunOK
<1>5. OnePlace(r)' /\ line \in Here(r) /\ Here(r)' \subseteq Here(r) /\ line \notin Here(r)'
  BY <1>0, <1>1 DEF OnePlace, Here
<1>6. Queued' = Queued /\ Inj(linesCh)'
  BY DEF Queued, BridgeInv, Apart
<1>7. BridgeInv'
  BY <1>1, <1>2, <1>3, <1>4, <1>5, <1>6, OneRunKeeps
<1>8. line \in OnTheWay /\ line # 0
  BY ProxyAssumption DEF OnTheWay, Carried
<1>9. \A x \in 1..NLines : x # line => (x \in OnTheWay' <=> x \in OnTheWay)
  <2>1. \A s \in Runs : \A x \in 1..NLines : x # line => (x \in Carried(s)' <=> x \in Carried(s))
    BY <1>1 DEF Carried
  <2> QED
    BY <2>1 DEF OnTheWay
<1>10. StatusOf(line) = "pending" /\ StatusOf(line)' = "delivered"
  <2>1. line \in 1..read /\ line \notin Delivered /\ read \in Nat
    BY <1>0, <1>8, WayFacts DEF TypeOK
  <2>2. ~(line > read) /\ ~(line > read')
    BY <2>1
  <2> QED
    BY <1>2, <1>8, <2>1, <2>2 DEF StatusOf, Delivered
<1>11. \A x \in 1..NLines : x # line => StatusOf(x)' = StatusOf(x)
  BY <1>2, <1>9 DEF StatusOf, Delivered
<1>12. Bridge!Deliver(line)
  BY <1>10, <1>11 DEF Bridge!Deliver, Bridge!Move
<1> QED
  BY <1>7, <1>12 DEF Bridge!Next

\* A POST that the daemon accepts.
LEMMA PostOkSteps ==
  ASSUME BridgeInv, NEW r \in Runs, NEW line \in 1..NLines, PostOk(r, line)
  PROVE  BridgeInv' /\ [Bridge!Next]_(Bridge!vars)
<1> DEFINE q == [run[r] EXCEPT !.post = @ \ {line}]
<1>0. TypeOK /\ run[r] \in RunRecords
  BY RunTypes DEF BridgeInv
<1>1. /\ q \in RunRecords /\ q.post = run[r].post \ {line}
      /\ q.pc = run[r].pc /\ q.stdin = run[r].stdin /\ q.src = run[r].src
      /\ q.hand = run[r].hand /\ q.srcHand = run[r].srcHand /\ q.out = run[r].out
      /\ q.done = run[r].done /\ q.fatal = run[r].fatal
  BY <1>0 DEF RunRecords
<1>2. run' = [run EXCEPT ![r] = q]
  BY <1>0 DEF PostOk, TypeOK
<1>3. /\ line \in run[r].post /\ delivered' = Append(delivered, line)
      /\ UNCHANGED <<linesCh, read, eof, ctx, daemon, broken>>
  BY DEF PostOk
<1> HIDE DEF q
<1> QED
  BY <1>1, <1>2, <1>3, DeliverSteps

\* A POST that fails, with the line lost or delivered.
LEMMA PostFailsSteps ==
  ASSUME BridgeInv, NEW r \in Runs, NEW line \in 1..NLines, PostFails(r, line)
  PROVE  BridgeInv' /\ [Bridge!Next]_(Bridge!vars)
<1> DEFINE q == [run[r] EXCEPT !.post = @ \ {line}, !.fatal = TRUE]
<1>0. TypeOK /\ EndOK /\ RunOK(r) /\ OnePlace(r) /\ run[r] \in RunRecords
  BY RunTypes DEF BridgeInv
<1>1. /\ q \in RunRecords /\ q.post = run[r].post \ {line}
      /\ q.pc = run[r].pc /\ q.stdin = run[r].stdin /\ q.src = run[r].src
      /\ q.hand = run[r].hand /\ q.srcHand = run[r].srcHand /\ q.out = run[r].out
      /\ q.done = run[r].done
  BY <1>0 DEF RunRecords
<1>2. run' = [run EXCEPT ![r] = q]
  BY <1>0 DEF PostFails, TypeOK
<1>3. line \in run[r].post /\ broken' = TRUE /\ UNCHANGED <<linesCh, read, eof, ctx, daemon>>
  BY DEF PostFails
<1> HIDE DEF q
<1>4. CASE delivered' = Append(delivered, line)
  BY <1>1, <1>2, <1>3, <1>4, DeliverSteps
<1>5. CASE UNCHANGED delivered
  <2>1. /\ run' \in [Runs -> RunRecords] /\ run'[r] = q
        /\ \A s \in Runs : s # r => run'[s] = run[s]
    BY <1>0, <1>1, <1>2, RunUpdate
  <2>2. TypeOK' /\ EndOK'
    BY <1>0, <1>3, <1>5, <2>1 DEF TypeOK, EndOK
  <2>3. RunOK(r)'
    BY <1>0, <1>1, <1>3, <2>1 DEF RunOK
  <2>4. OnePlace(r)' /\ Here(r)' \subseteq Here(r)
    BY <1>0, <1>1, <2>1 DEF OnePlace, Here
  <2>5. \A x \in 1..NLines : x \in Carried(r)' => x \in Carried(r)
    BY <1>1, <2>1 DEF Carried
  <2>6. Queued' = Queued /\ Delivered' = Delivered /\ Inj(linesCh)'
    BY <1>3, <1>5 DEF Queued, Delivered, BridgeInv, Apart
  <2>7. BridgeInv'
    BY <1>3, <2>1, <2>2, <2>3, <2>4, <2>6, OneRunKeeps
  <2>8. [Bridge!Next]_(Bridge!vars)
    BY <1>3, <1>5, <2>1, <2>2, <2>5, <2>6, OneRunSteps
  <2> QED
    BY <2>7, <2>8
<1> QED
  BY <1>4, <1>5 DEF PostFails

\* A line is read from stdin.
LEMMA StdinLineSteps ==
  ASSUME BridgeInv, StdinLine
  PROVE  BridgeInv' /\ [Bridge!Next]_(Bridge!vars)
<1>0. TypeOK /\ EndOK /\ Apart
  BY DEF BridgeInv
<1>x. PICK x : x = read + 1
  OBVIOUS
<1>1. /\ read \in Nat /\ read' = x /\ x \in Nat /\ x \in 1..NLines /\ linesCh' = Append(linesCh, x)
      /\ UNCHANGED <<run, eof, ctx, daemon, delivered, broken>>
  BY <1>0, <1>x, ProxyAssumption DEF StdinLine, TypeOK
<1>2. x \notin 1..read /\ (\A y : y \in 1..read' <=> y \in 1..read \/ y = x)
  BY <1>1, <1>x
<1>3. x \notin Queued /\ x \notin Delivered /\ \A r \in Runs : x \notin Here(r)
  BY <1>0, <1>2 DEF Apart
<1>4. linesCh' \in Seq(Nat) /\ Queued' = Queued \cup {x} /\ Inj(linesCh)'
  BY <1>0, <1>1, <1>3, AppendFacts DEF TypeOK, Apart, Queued
<1>5. TypeOK' /\ EndOK'
  BY <1>0, <1>1, <1>4 DEF TypeOK, EndOK
<1>6. Delivered' = Delivered /\ \A r \in Runs : Here(r)' = Here(r) /\ Carried(r)' = Carried(r)
  BY <1>1 DEF Delivered, Here, Carried
<1>7. Apart'
  <2>1. \A r \in Runs : \A q \in Here(r)' :
          /\ q \notin Queued' /\ q \notin Delivered' /\ q \in 1..read'
          /\ \A s \in Runs : q \in Here(s)' => s = r
    BY <1>0, <1>2, <1>3, <1>4, <1>6 DEF Apart
  <2>2. \A q \in Queued' : q \notin Delivered' /\ q \in 1..read'
    BY <1>0, <1>2, <1>3, <1>4, <1>6 DEF Apart
  <2>3. \A q \in Delivered' : q \in 1..read'
    BY <1>0, <1>2, <1>6 DEF Apart
  <2> QED
    BY <1>4, <2>1, <2>2, <2>3 DEF Apart
<1>8. \A r \in Runs : RunOK(r)' /\ OnePlace(r)'
  BY <1>1 DEF BridgeInv, RunOK, OnePlace
<1>9. \A y : y \in OnTheWay' <=> y \in OnTheWay \/ y = x
  BY <1>4, <1>6 DEF OnTheWay, Queued
<1>10. StatusOf(x) = "unsent" /\ StatusOf(x)' = "pending"
  <2>1. x > read /\ ~(x > read')
    BY <1>1, <1>x
  <2> QED
    BY <1>3, <1>6, <1>9, <2>1 DEF StatusOf, Delivered
<1>11. \A y \in 1..NLines : y # x => StatusOf(y)' = StatusOf(y)
  <2>1. \A y \in 1..NLines : y # x => (y > read' <=> y > read)
    BY <1>1, <1>x, ProxyAssumption
  <2> QED
    BY <1>1, <1>9, <2>1 DEF StatusOf
<1>12. Bridge!Submit(x)
  BY <1>1, <1>10, <1>11 DEF Bridge!Submit, Bridge!Move
<1>13. [Bridge!Next]_(Bridge!vars)
  BY <1>1, <1>12 DEF Bridge!Next
<1> QED
  BY <1>5, <1>7, <1>8, <1>13 DEF BridgeInv

-----------------------------------------------------------------------------
(* Steps that move no line                                                 *)

\* A Run's stream, its pc or its errCh changes and nothing else.
LEMMA StreamSteps ==
  ASSUME BridgeInv, NEW r \in Runs, NEW pc \in {"get", "endpoint", "serve", "returned"},
         NEW sse \in {"none", "up", "hung", "eof", "off"},
         NEW errs \in Seq({"no", "err", "nil", "canceled"}),
         run' = [run EXCEPT ![r] = [run[r] EXCEPT !.pc = pc, !.sse = sse, !.errCh = errs]],
         pc \in {"get", "endpoint"} => run[r].pc \in {"get", "endpoint"},
         UNCHANGED <<linesCh, read, eof, ctx, daemon, delivered, broken>>
  PROVE  BridgeInv' /\ [Bridge!Next]_(Bridge!vars)
<1>0. TypeOK /\ EndOK /\ run[r] \in RunRecords
  BY RunTypes DEF BridgeInv
<1> DEFINE q == [run[r] EXCEPT !.pc = pc, !.sse = sse, !.errCh = errs]
<1>1. /\ q \in RunRecords /\ q.pc = pc
      /\ q.stdin = run[r].stdin /\ q.src = run[r].src
      /\ q.hand = run[r].hand /\ q.srcHand = run[r].srcHand
      /\ q.out = run[r].out /\ q.post = run[r].post
      /\ q.fatal = run[r].fatal /\ q.done = run[r].done
  BY <1>0 DEF RunRecords
<1>2. run' = [run EXCEPT ![r] = q]
  OBVIOUS
<1> HIDE DEF q
<1>3. /\ run' \in [Runs -> RunRecords] /\ run'[r] = q
      /\ \A s \in Runs : s # r => run'[s] = run[s]
  BY <1>0, <1>1, <1>2, RunUpdate
<1>4. TypeOK' /\ EndOK' /\ (broken => broken')
  BY <1>0, <1>3 DEF TypeOK, EndOK
<1> QED
  BY <1>1, <1>3, <1>4, QuietSteps

\* GET /sse.
LEMMA GetSteps ==
  ASSUME BridgeInv, NEW r \in Runs, Get(r)
  PROVE  BridgeInv' /\ [Bridge!Next]_(Bridge!vars)
<1>0. TypeOK /\ run[r] \in RunRecords
  BY RunTypes DEF BridgeInv
<1>1. run' = [run EXCEPT ![r] =
                [run[r] EXCEPT !.pc = "endpoint", !.sse = "up", !.errCh = run[r].errCh]]
  BY <1>0 DEF Get, TypeOK, RunRecords
<1>2. run[r].pc = "get" /\ UNCHANGED <<linesCh, read, eof, ctx, daemon, delivered, broken>>
  BY DEF Get, otherVars
<1>3. run[r].errCh \in Seq({"no", "err", "nil", "canceled"})
  BY <1>0 DEF RunRecords
<1> QED
  BY <1>1, <1>2, <1>3, StreamSteps

\* readSSE reports the end of the stream.
LEMMA ReadSSEEndsSteps ==
  ASSUME BridgeInv, NEW r \in Runs, ReadSSEEnds(r)
  PROVE  BridgeInv' /\ [Bridge!Next]_(Bridge!vars)
<1>0. TypeOK /\ run[r] \in RunRecords
  BY RunTypes DEF BridgeInv
<1>1. run' = [run EXCEPT ![r] = [run[r] EXCEPT
                !.pc = run[r].pc, !.sse = "off", !.errCh = Append(run[r].errCh, "err")]]
  BY <1>0 DEF ReadSSEEnds, TypeOK, RunRecords
<1>2. UNCHANGED <<linesCh, read, eof, ctx, daemon, delivered, broken>>
  BY DEF ReadSSEEnds, otherVars
<1>3. run[r].errCh \in Seq({"no", "err", "nil", "canceled"})
  BY <1>0 DEF RunRecords
<1>4. Append(run[r].errCh, "err") \in Seq({"no", "err", "nil", "canceled"})
  BY <1>3
<1>5. run[r].pc \in {"get", "endpoint", "serve", "returned"}
  BY <1>0 DEF RunRecords
<1> QED
  BY <1>1, <1>2, <1>4, <1>5, StreamSteps

\* The watchdog closes the body, and a stream hangs.
LEMMA HangSteps ==
  ASSUME BridgeInv, NEW r \in Runs, Watchdog(r) \/ StreamHangs(r)
  PROVE  BridgeInv' /\ [Bridge!Next]_(Bridge!vars)
<1>0. TypeOK /\ run[r] \in RunRecords
  BY RunTypes DEF BridgeInv
<1>1. PICK sse \in {"eof", "hung"} : run' = [run EXCEPT ![r].sse = sse]
  BY DEF Watchdog, StreamHangs
<1>2. run' = [run EXCEPT ![r] = [run[r] EXCEPT
                !.pc = run[r].pc, !.sse = sse, !.errCh = run[r].errCh]]
  BY <1>0, <1>1 DEF TypeOK, RunRecords
<1>3. UNCHANGED <<linesCh, read, eof, ctx, daemon, delivered, broken>>
  BY DEF Watchdog, StreamHangs, otherVars
<1>4. /\ run[r].errCh \in Seq({"no", "err", "nil", "canceled"})
      /\ run[r].pc \in {"get", "endpoint", "serve", "returned"}
  BY <1>0 DEF RunRecords
<1> QED
  BY <1>2, <1>3, <1>4, StreamSteps

\* The daemon dies and ends the streams it served.
LEMMA DaemonDiesSteps ==
  ASSUME BridgeInv, DaemonDies
  PROVE  BridgeInv' /\ [Bridge!Next]_(Bridge!vars)
<1>0. TypeOK /\ EndOK
  BY DEF BridgeInv
<1>1. /\ broken' = TRUE /\ daemon' = daemon + 1
      /\ UNCHANGED <<linesCh, read, eof, ctx, delivered>>
      /\ run' = [r \in Runs |-> IF run[r].sse \in {"up", "hung"} /\ run[r].inc = daemon
                                THEN [run[r] EXCEPT !.sse = "eof"] ELSE run[r]]
  BY DEF DaemonDies
<1>2. ASSUME NEW r \in Runs
      PROVE  /\ run'[r] \in RunRecords /\ run'[r].pc = run[r].pc
             /\ run'[r].stdin = run[r].stdin /\ run'[r].src = run[r].src
             /\ run'[r].hand = run[r].hand /\ run'[r].srcHand = run[r].srcHand
             /\ run'[r].out = run[r].out /\ run'[r].post = run[r].post
             /\ run'[r].fatal = run[r].fatal /\ run'[r].done = run[r].done
  <2>1. run[r] \in RunRecords
    BY <1>0, RunTypes
  <2>2. run'[r] = run[r] \/ run'[r] = [run[r] EXCEPT !.sse = "eof"]
    BY <1>1
  <2> QED
    BY <2>1, <2>2 DEF RunRecords
<1>3. run' \in [Runs -> RunRecords]
  <2>1. DOMAIN run' = Runs /\ run' = [r \in Runs |-> run'[r]]
    BY <1>1
  <2> QED
    BY <1>2, <2>1
<1>4. TypeOK' /\ EndOK' /\ (broken => broken')
  BY <1>0, <1>1, <1>3 DEF TypeOK, EndOK
<1> QED
  BY <1>1, <1>2, <1>4, QuietSteps

\* Steps that leave every Run as it is: the daemon starts, the launcher's loop
\* ends, the client closes stdin, a signal, and a step of no one.
LEMMA OutsideSteps ==
  ASSUME BridgeInv, DaemonStarts \/ LoopEnds \/ StdinCloses \/ Signal \/ UNCHANGED vars
  PROVE  BridgeInv' /\ [Bridge!Next]_(Bridge!vars)
<1>0. TypeOK /\ EndOK
  BY DEF BridgeInv
<1>1. UNCHANGED <<run, linesCh, read, delivered>> /\ daemon' \in {daemon, daemon + 1}
  BY DEF DaemonStarts, LoopEnds, StdinCloses, Signal, vars, otherVars
<1>2. broken' = TRUE \/ UNCHANGED <<eof, ctx, broken>>
  BY DEF DaemonStarts, LoopEnds, StdinCloses, Signal, vars, otherVars
<1>3. daemon' \in Nat
  BY <1>0, <1>1 DEF TypeOK
<1>4. broken' \in BOOLEAN
  BY <1>0, <1>2, Zenon DEF TypeOK
<1>5. EndOK' /\ (broken => broken')
  BY <1>0, <1>2 DEF EndOK
<1>6. TypeOK'
  BY <1>0, <1>1, <1>4, <1>3 DEF TypeOK
<1>7. \A r \in Runs : run'[r] = run[r]
  BY <1>1
<1> QED
  BY <1>1, <1>5, <1>6, <1>7, QuietSteps

-----------------------------------------------------------------------------
(* The refinement                                                          *)

\* A launcher that starts has no line.
LEMMA InitMaps ==
  ASSUME Init
  PROVE  BridgeInv /\ Bridge!Init
<1>1. /\ read = 0 /\ linesCh = <<>> /\ eof = FALSE /\ ctx = FALSE /\ daemon = 1
      /\ run = [r \in Runs |-> Dead] /\ delivered = <<>> /\ broken = FALSE
  BY DEF Init
<1>2. <<>> \in Seq(Nat) /\ <<>> \in Seq({"no", "err", "nil", "canceled"})
  OBVIOUS
<1>3. /\ Dead \in RunRecords
      /\ Dead.pc = "returned" /\ Dead.stdin = "off" /\ Dead.src = "off" /\ Dead.hand = 0
      /\ Dead.srcHand = 0 /\ Dead.out = <<>> /\ Dead.post = {} /\ ~Dead.fatal
      /\ Dead.done = "no"
  BY <1>1, <1>2 DEF Dead, NewRun, RunRecords
<1> HIDE DEF Dead
<1>4. TypeOK /\ EndOK
  BY <1>1, <1>2, <1>3 DEF TypeOK, EndOK
<1>5. \A r \in Runs : RunOK(r) /\ OnePlace(r) /\ Here(r) = {}
  BY <1>1, <1>3, EmptyFacts DEF RunOK, OnePlace, Here
<1>6. Queued = {} /\ Delivered = {} /\ Inj(linesCh)
  BY <1>1, EmptyFacts DEF Queued, Delivered
<1>7. Apart
  BY <1>5, <1>6 DEF Apart
<1>8. \A q \in 1..NLines : StatusOf(q) = "unsent"
  BY <1>1, ProxyAssumption DEF StatusOf
<1>9. Bridge!Init
  BY <1>1, <1>8 DEF Bridge!Init
<1> QED
  BY <1>4, <1>5, <1>7, <1>9 DEF BridgeInv

\* Every step keeps the invariant and is a step, or a stutter, of RequestBridge.
LEMMA StepMaps ==
  ASSUME BridgeInv, [Next]_vars
  PROVE  BridgeInv' /\ [Bridge!Next]_(Bridge!vars)
<1>1. CASE MainStep
  BY <1>1, ResolveSteps, OutsideSteps DEF MainStep
<1>2. CASE Environment
  BY <1>2, StdinLineSteps, OutsideSteps, DaemonDiesSteps, HangSteps DEF Environment
<1>3. CASE DaemonStarts \/ UNCHANGED vars
  BY <1>3, OutsideSteps
<1>4. ASSUME NEW r \in Runs, RunStep(r)
      PROVE  BridgeInv' /\ [Bridge!Next]_(Bridge!vars)
  <2>1. CASE GetFails(r) \/ EndpointTimeout(r) \/ RunEnds(r)
    <3>1. \E err : RunReturns(r, err)
      BY <2>1 DEF GetFails, EndpointTimeout, RunEnds
    <3> QED
      BY <3>1, RunReturnsSteps
  <2>2. CASE Get(r) \/ Endpoint(r) \/ ReadSSEEnds(r) \/ Watchdog(r)
    BY <2>2, GetSteps, EndpointSteps, ReadSSEEndsSteps, HangSteps
  <2> QED
    BY <1>4, <2>1, <2>2 DEF RunStep
<1>5. ASSUME NEW r \in Runs, SrcStep(r)
      PROVE  BridgeInv' /\ [Bridge!Next]_(Bridge!vars)
  BY <1>5, SrcTakeSteps, SrcPushSteps, SrcEndsSteps DEF SrcStep
<1>6. ASSUME NEW r \in Runs, StdinStep(r)
      PROVE  BridgeInv' /\ [Bridge!Next]_(Bridge!vars)
  BY <1>6, StdinTakeSteps, DispatchSteps, DispatchDropsSteps, StdinLeavesSteps,
     StdinReturnsSteps DEF StdinStep
<1>7. ASSUME NEW r \in Runs, Post(r)
      PROVE  BridgeInv' /\ [Bridge!Next]_(Bridge!vars)
  BY <1>7, PostOkSteps, PostFailsSteps DEF Post
<1> QED
  BY <1>1, <1>2, <1>3, <1>4, <1>5, <1>6, <1>7 DEF Next

\* Every line is in one place at any time, and a goroutine that drops lines has
\* seen a failure, the end of stdin or a signal (proxy.go: lineSource,
\* readStdin, dispatch, postOne).
THEOREM LinesStayApart == Spec => []BridgeInv
<1>1. Init => BridgeInv
  BY InitMaps
<1>2. BridgeInv /\ [Next]_vars => BridgeInv'
  BY StepMaps
<1> QED
  BY <1>1, <1>2, PTL DEF Spec

\* The bridge implements RequestBridge: over any number of reconnects, with the
\* goroutines that earlier Runs left behind, a request is handed to a daemon at
\* most once, a lost one never later, and none is lost before a POST or a
\* stream failed, stdin ended or a signal came.
THEOREM BridgeImplements == Spec => BridgeRefined
<1>1. Init => BridgeInv /\ Bridge!Init
  BY InitMaps
<1>2. BridgeInv /\ [Next]_vars => BridgeInv' /\ [Bridge!Next]_(Bridge!vars)
  BY StepMaps
<1> QED
  BY <1>1, <1>2, PTL DEF Spec, BridgeRefined, Bridge!Spec
=============================================================================
