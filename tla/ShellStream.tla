----------------------------- MODULE ShellStream -----------------------------
(***************************************************************************)
(* The output of one persistent shell: internal/sshx/shell.go (two pumps   *)
(* and a goroutine that waits for the process) and internal/dockerx/       *)
(* shell.go (one pump that also notices the end).  The pumps append to a   *)
(* bounded buffer and hint at it through wakeCh, a channel of capacity 1;  *)
(* any number of ssh_shell_read calls drain it.                            *)
(*                                                                         *)
(* Output is abstracted to numbered chunks.  How the shell is opened,      *)
(* found and closed, and the second close of doneCh, are in ShellRegistry; *)
(* here a shell that is told to end twice ends once.                       *)
(***************************************************************************)
EXTENDS Integers, Sequences, Functions

CONSTANTS
  Pumps,    \* the streams of the remote process: stdout, stderr
  Readers,  \* shell_read calls that can be running at the same time
  MaxBuf,   \* Shell.maxBuf, in chunks
  MaxOut    \* bound: chunks each stream produces

ASSUME StreamAssumption ==
  /\ MaxBuf \in Nat \ {0}
  /\ MaxOut \in Nat
  /\ Pumps \cap Readers = {}

VARIABLES
  kind,    \* "ssh", or "docker", where the end is noticed by the pump itself
  over,    \* the process has ended or its channel is closed
  sent,    \* how many chunks each pump has read
  buffer,  \* Shell.buffer
  wake,    \* a token is in Shell.wakeCh
  closed,  \* Shell.closed
  done,    \* Shell.doneCh is closed
  ppc,     \* each pump: read, signal, off
  epc,     \* the two that end the shell: "wait" notices, "close" is told to
  rpc,     \* each reader: idle, check, look, wait
  given,   \* history: what the reads returned, in order
  dropped  \* history: the chunks dropped when the buffer was full

vars == <<kind, over, sent, buffer, wake, closed, done, ppc, epc, rpc, given, dropped>>

Chunks == Pumps \X (1 .. MaxOut)
Enders == {"wait", "close"}

Init ==
  /\ kind \in {"ssh", "docker"}
  /\ over = FALSE
  /\ sent = [p \in Pumps |-> 0]
  /\ buffer = <<>>
  /\ wake = FALSE /\ closed = FALSE /\ done = FALSE
  /\ \E stdout \in Pumps :
       ppc = [p \in Pumps |-> IF kind = "ssh" \/ p = stdout THEN "read" ELSE "off"]
  /\ epc = [e \in Enders |-> "idle"]
  /\ rpc = [r \in Readers |-> "idle"]
  /\ given = <<>>
  /\ dropped = {}

-----------------------------------------------------------------------------
(* pumpReader and pump                                                      *)

\* Mutant: the newest bytes are dropped when the buffer is full.
MutKeep(buf) == IF Len(buf) > MaxBuf THEN SubSeq(buf, 1, MaxBuf) ELSE buf

\* Mutant: the limit is off by one.
MutKeepLimit(buf) ==
  IF Len(buf) > MaxBuf + 1 THEN SubSeq(buf, Len(buf) - MaxBuf, Len(buf)) ELSE buf

\* appendBuffer keeps the last maxBuf bytes.
Keep(buf) ==
  IF Len(buf) > MaxBuf THEN SubSeq(buf, Len(buf) - MaxBuf + 1, Len(buf)) ELSE buf

\* r.Read returned a chunk, and appendBuffer stored it under bufMu.
PumpAppend(p) ==
  /\ ppc[p] = "read"
  /\ sent[p] < MaxOut
  /\ sent' = [sent EXCEPT ![p] = @ + 1]
  /\ LET buf == Append(buffer, <<p, sent[p] + 1>>)
     IN  /\ buffer' = Keep(buf)
         /\ dropped' = dropped \cup (Range(buf) \ Range(buffer'))
  /\ ppc' = [ppc EXCEPT ![p] = "signal"]
  /\ UNCHANGED <<kind, over, wake, closed, done, epc, rpc, given>>

\* Mutant: the hint is sent only if a read is waiting for it.
MutPumpSignal(p) ==
  /\ ppc[p] = "signal"
  /\ wake' = (wake \/ \E r \in Readers : rpc[r] = "wait")
  /\ ppc' = [ppc EXCEPT ![p] = "read"]
  /\ UNCHANGED <<kind, over, sent, buffer, closed, done, epc, rpc, given, dropped>>

\* The non-blocking send on wakeCh.
PumpSignal(p) ==
  /\ ppc[p] = "signal"
  /\ wake' = TRUE
  /\ ppc' = [ppc EXCEPT ![p] = "read"]
  /\ UNCHANGED <<kind, over, sent, buffer, closed, done, epc, rpc, given, dropped>>

\* r.Read fails: what the process wrote has been read, or we have hung up.
PumpEnd(p) ==
  /\ ppc[p] = "read"
  /\ over
  /\ ppc' = [ppc EXCEPT ![p] = "off"]
  /\ UNCHANGED <<kind, over, sent, buffer, wake, closed, done, epc, rpc, given, dropped>>

-----------------------------------------------------------------------------
(* The end of the shell                                                     *)

Exit ==
  /\ ~over
  /\ over' = TRUE
  /\ UNCHANGED <<kind, sent, buffer, wake, closed, done, ppc, epc, rpc, given, dropped>>

\* chSess.Wait returns as soon as the process is gone, whatever the pumps
\* have yet to read; in Docker it is the pump that has come to the end.
WaitReturns ==
  /\ epc["wait"] = "idle"
  /\ over
  /\ kind = "docker" => \A p \in Pumps : ppc[p] = "off"
  /\ closed' = TRUE
  /\ epc' = [epc EXCEPT !["wait"] = "finish"]
  /\ UNCHANGED <<kind, over, sent, buffer, wake, done, ppc, rpc, given, dropped>>

\* Shell.Close: the CompareAndSwap, then the channel to the process.
CloseBegin ==
  /\ epc["close"] = "idle"
  /\ ~closed
  /\ closed' = TRUE
  /\ epc' = [epc EXCEPT !["close"] = "hangup"]
  /\ UNCHANGED <<kind, over, sent, buffer, wake, done, ppc, rpc, given, dropped>>

CloseHangup ==
  /\ epc["close"] = "hangup"
  /\ over' = TRUE
  /\ epc' = [epc EXCEPT !["close"] = "finish"]
  /\ UNCHANGED <<kind, sent, buffer, wake, closed, done, ppc, rpc, given, dropped>>

\* Mutant: the end is marked and doneCh stays open.
MutFinish(e) ==
  /\ epc[e] = "finish"
  /\ epc' = [epc EXCEPT ![e] = "off"]
  /\ UNCHANGED <<kind, over, sent, buffer, wake, closed, done, ppc, rpc, given, dropped>>

\* doneCh is closed, unless it is already.
Finish(e) ==
  /\ epc[e] = "finish"
  /\ done' = TRUE
  /\ epc' = [epc EXCEPT ![e] = "off"]
  /\ UNCHANGED <<kind, over, sent, buffer, wake, closed, ppc, rpc, given, dropped>>

-----------------------------------------------------------------------------
(* Shell.Read                                                               *)

ReadBegin(r) ==
  /\ rpc[r] = "idle"
  /\ rpc' = [rpc EXCEPT ![r] = "check"]
  /\ UNCHANGED <<kind, over, sent, buffer, wake, closed, done, ppc, epc, given, dropped>>

\* Mutant: the buffer is returned and not reset.
MutReadTakes(r) ==
  /\ rpc[r] = "check"
  /\ buffer # <<>>
  /\ given' = given \o buffer
  /\ rpc' = [rpc EXCEPT ![r] = "idle"]
  /\ UNCHANGED <<kind, over, sent, buffer, wake, closed, done, ppc, epc, dropped>>

\* The buffer is taken under bufMu, if there is something in it.
ReadTakes(r) ==
  /\ rpc[r] = "check"
  /\ buffer # <<>>
  /\ given' = given \o buffer
  /\ buffer' = <<>>
  /\ rpc' = [rpc EXCEPT ![r] = "idle"]
  /\ UNCHANGED <<kind, over, sent, wake, closed, done, ppc, epc, dropped>>

ReadFindsNothing(r) ==
  /\ rpc[r] = "check"
  /\ buffer = <<>>
  /\ rpc' = [rpc EXCEPT ![r] = "look"]
  /\ UNCHANGED <<kind, over, sent, buffer, wake, closed, done, ppc, epc, given, dropped>>

\* bufMu is released; closed is loaded.
ReadSeesClosed(r) ==
  /\ rpc[r] = "look"
  /\ closed
  /\ rpc' = [rpc EXCEPT ![r] = "idle"]
  /\ UNCHANGED <<kind, over, sent, buffer, wake, closed, done, ppc, epc, given, dropped>>

ReadWaits(r) ==
  /\ rpc[r] = "look"
  /\ ~closed
  /\ rpc' = [rpc EXCEPT ![r] = "wait"]
  /\ UNCHANGED <<kind, over, sent, buffer, wake, closed, done, ppc, epc, given, dropped>>

\* The timeout, in select or before it.
ReadTimesOut(r) ==
  /\ rpc[r] = "wait" \/ (rpc[r] = "look" /\ ~closed)
  /\ rpc' = [rpc EXCEPT ![r] = "idle"]
  /\ UNCHANGED <<kind, over, sent, buffer, wake, closed, done, ppc, epc, given, dropped>>

\* A token from wakeCh: look at the buffer again.
ReadWakes(r) ==
  /\ rpc[r] = "wait"
  /\ wake
  /\ wake' = FALSE
  /\ rpc' = [rpc EXCEPT ![r] = "check"]
  /\ UNCHANGED <<kind, over, sent, buffer, closed, done, ppc, epc, given, dropped>>

\* doneCh: what is left in the buffer, or io.EOF.
ReadDone(r) ==
  /\ rpc[r] = "wait"
  /\ done
  /\ given' = given \o buffer
  /\ buffer' = <<>>
  /\ rpc' = [rpc EXCEPT ![r] = "idle"]
  /\ UNCHANGED <<kind, over, sent, wake, closed, done, ppc, epc, dropped>>

ReadStep(r) ==
  \/ ReadTakes(r) \/ ReadFindsNothing(r) \/ ReadSeesClosed(r) \/ ReadWaits(r)
  \/ ReadWakes(r) \/ ReadDone(r)

Next ==
  \/ \E p \in Pumps : PumpAppend(p) \/ PumpSignal(p) \/ PumpEnd(p)
  \/ Exit \/ WaitReturns \/ CloseBegin \/ CloseHangup
  \/ \E e \in Enders : Finish(e)
  \/ \E r \in Readers : ReadBegin(r) \/ ReadStep(r) \/ ReadTimesOut(r)

Spec == Init /\ [][Next]_vars

\* Goroutines that can run do.  Timers are not relied on, nor does anything
\* make the process end, a client read, or a client close.
Fairness ==
  /\ \A p \in Pumps : WF_vars(PumpSignal(p)) /\ WF_vars(PumpEnd(p))
  /\ WF_vars(WaitReturns) /\ WF_vars(CloseHangup)
  /\ \A e \in Enders : WF_vars(Finish(e))
  /\ \A r \in Readers : WF_vars(ReadStep(r))

FairSpec == Spec /\ Fairness

-----------------------------------------------------------------------------
(* Properties                                                               *)

TypeOK ==
  /\ kind \in {"ssh", "docker"}
  /\ over \in BOOLEAN /\ wake \in BOOLEAN /\ closed \in BOOLEAN /\ done \in BOOLEAN
  /\ sent \in [Pumps -> 0 .. MaxOut]
  /\ buffer \in Seq(Chunks) /\ Len(buffer) <= MaxBuf
  /\ ppc \in [Pumps -> {"read", "signal", "off"}]
  /\ epc \in [Enders -> {"idle", "hangup", "finish", "off"}]
  /\ rpc \in [Readers -> {"idle", "check", "look", "wait"}]
  /\ given \in Seq(Chunks)
  /\ dropped \subseteq Chunks

\* wakeCh is only a hint, and a hint can be swallowed by another reader; yet
\* a read never sleeps on a buffer that has data unless a hint is in the
\* channel, about to be sent, or held by a read that will look at the buffer.
NoLostWakeup ==
  buffer # <<>> /\ (\E r \in Readers : rpc[r] = "wait") =>
    \/ wake
    \/ \E p \in Pumps : ppc[p] = "signal"
    \/ \E r \in Readers : rpc[r] = "check"

\* What the reads have returned and what is buffered is, for each stream, its
\* output in order and without repetition.
InOrder ==
  LET all == given \o buffer
  IN  \A i, j \in 1 .. Len(all) : i < j /\ all[i][1] = all[j][1] => all[i][2] < all[j][2]

\* The buffer ends with the last thing a pump read.
NewestKept == buffer # <<>> => \E p \in Pumps : buffer[Len(buffer)] = <<p, sent[p]>>

\* Everything the pumps have read was returned, is buffered, or was dropped.
NothingMissing ==
  \A c \in Chunks :
    c[2] <= sent[c[1]] <=> c \in Range(given) \cup Range(buffer) \cup dropped

\* What was dropped had not been returned, and is older than what is buffered.
OldestDropped ==
  /\ dropped \cap Range(given) = {}
  /\ \A c \in dropped, d \in Range(buffer) : c[1] = d[1] => c[2] < d[2]

\* Only the oldest unread output is ever missing: a read that comes late, or
\* beside another one, loses nothing that the limit of the buffer does not
\* take (appendBuffer keeps s.buffer[drop:]).
OnlyOldestLost == NewestKept /\ NothingMissing /\ OldestDropped

\* Once the shell has ended, every read returns, timers aside.
ReadsReturn ==
  \A r \in Readers : closed /\ rpc[r] # "idle" ~> rpc[r] = "idle"
=============================================================================
