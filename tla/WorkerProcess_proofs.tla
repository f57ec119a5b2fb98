------------------------ MODULE WorkerProcess_proofs -------------------------
(***************************************************************************)
(* What the supervisor's hold on a helper guarantees for every allowance,  *)
(* pipe and number of bytes, as long as what is read after the exit exceeds*)
(* the allowance: its types, that it signals nobody but the helper, that   *)
(* it leaves no helper behind unreported, and that an answer means that    *)
(* the helper kept to its allowance.                                       *)
(***************************************************************************)
EXTENDS WorkerProcess, Integers, TLAPS

\* The bytes that were read after the exit, if the pipe was never empty, when
\* d drains and r reads of the present one are left.
Done(d, r) == ((Surplus - 1 - d) * Reads + (Reads - r)) * Chunk

\* The PID is the helper's until it is reaped; nothing is sent after that.
Held ==
    /\ child # "reaped" <=> pid = "helper"
    /\ pc \in {"Term", "Polite", "Kill", "Forced"} => child # "reaped"

\* drop's last drain follows a stop that reaped the helper or reported it.
Gone ==
    /\ then = "Over" => pc \in {"Drain", "Over"}
    /\ pc = "Over" \/ then = "Over" => survived \/ child = "reaped"

\* Until the allowance is exceeded, every byte was relayed or is in the pipe.
Relayed == ~exceeded => written = pipe + (Allowance - remaining)

\* After the exit nothing more is written, and each read is a full one until
\* the pipe is empty.
Emptying ==
    pc = "Drain" /\ then = "Judge" =>
        /\ child = "reaped"
        /\ ~exceeded => drains < Surplus /\
                        (pipe = 0 \/ Allowance - remaining >= Done(drains, reads))

\* An answer is given for a helper that is gone and kept to its allowance.
Answered ==
    /\ pc = "Judge" \/ result \in {"found", "absent"} =>
          child = "reaped" /\ written <= Allowance

IInv == TypeOK /\ Held /\ Gone /\ Relayed /\ Emptying /\ Answered

-----------------------------------------------------------------------------
(* How much is read after the exit.                                         *)

\* Nothing is read yet when the first of these drains begins.
LEMMA DoneNone == Done(Surplus - 1, Reads) = 0
  BY ProcessAssumption DEF Done

\* One read more.
LEMMA DoneRead ==
    ASSUME NEW d \in Nat, NEW r \in Nat
    PROVE  Done(d, r - 1) = Done(d, r) + Chunk
<1> DEFINE k == (Surplus - 1 - d) * Reads + (Reads - r)
<1>1. k \in Int /\ (Surplus - 1 - d) * Reads + (Reads - (r - 1)) = k + 1
  BY ProcessAssumption
<1>2. Done(d, r) = k * Chunk
  BY DEF Done
<1>3. Done(d, r - 1) = (k + 1) * Chunk
  BY <1>1 DEF Done
<1> HIDE DEF k
<1>4. (k + 1) * Chunk = k * Chunk + Chunk
  BY <1>1, ProcessAssumption
<1> QED
  BY <1>2, <1>3, <1>4

\* The next drain goes on where one that used all its reads ended.
LEMMA DoneDrain ==
    ASSUME NEW d \in Nat
    PROVE  Done(d - 1, Reads) = Done(d, 0)
<1>1. (Surplus - 1 - (d - 1)) * Reads + (Reads - Reads)
        = (Surplus - 1 - d) * Reads + (Reads - 0)
  BY ProcessAssumption
<1> QED
  BY <1>1 DEF Done

\* The last read of the last drain exceeds every allowance.
LEMMA DoneAll == Done(0, 0) > Allowance
<1>1. (Surplus - 1 - 0) * Reads + (Reads - 0) = Surplus * Reads
  BY ProcessAssumption
<1> QED
  BY <1>1, ProcessAssumption DEF Done

-----------------------------------------------------------------------------
(* The invariant.                                                           *)

\* It holds when the helper is started.
LEMMA InitInvariant == Init => IInv
<1> SUFFICES ASSUME Init PROVE IInv
  OBVIOUS
<1>1. TypeOK
  <2>1. /\ expired \in BOOLEAN /\ exceeded \in BOOLEAN /\ survived \in BOOLEAN
        /\ stuck \in BOOLEAN
    BY Zenon DEF Init
  <2> QED
    BY <2>1, ProcessAssumption DEF Init, TypeOK, Statuses
<1>2. Held /\ Gone /\ Relayed /\ Emptying /\ Answered
  BY ProcessAssumption DEF Init, Held, Gone, Relayed, Emptying, Answered
<1> QED
  BY <1>1, <1>2 DEF IInv

\* Steps that leave the supervisor's variables and the helper's life alone.
LEMMA StutterInvariant == IInv /\ UNCHANGED vars => IInv'
  BY DEF vars, worker, diagnostic, helper, IInv, TypeOK, Statuses, Held, Gone, Relayed,
         Emptying, Answered, Done

\* The end of a drain.
LEMMA DrainEndsInvariant == IInv /\ DrainEnds => IInv'
<1> SUFFICES ASSUME IInv, DrainEnds PROVE IInv'
  OBVIOUS
<1> USE DEF IInv, DrainEnds, Drained, StartDrain, helper, diagnostic
<1>1. TypeOK'
  BY ProcessAssumption DEF TypeOK, Statuses
<1>2. Held' /\ Gone' /\ Relayed'
  <2>1. then \in {"TryWait", "Judge", "Over"} /\ (pc' = "Drain" \/ pc' = then)
    BY DEF TypeOK
  <2> QED
    BY <2>1 DEF Held, Gone, Relayed
<1>3. Emptying'
  <2> SUFFICES ASSUME pc' = "Drain", then' = "Judge" PROVE Emptying'
    BY DEF Emptying
  <2>1. then = "Judge" /\ drains > 0 /\ drains' = drains - 1 /\ reads' = Reads
    BY DEF TypeOK
  <2>2. drains \in Nat /\ drains' < Surplus
    BY <2>1, ProcessAssumption DEF TypeOK, Emptying
  <2>3. CASE pipe = 0
    BY <2>1, <2>2, <2>3 DEF Emptying
  <2>4. CASE pipe # 0
    <3>1. reads = 0 /\ Done(drains', reads') = Done(drains, reads)
      BY <2>1, <2>2, <2>4, DoneDrain
    <3> QED
      BY <2>1, <2>2, <2>4, <3>1 DEF Emptying
  <2> QED
    BY <2>3, <2>4
<1>4. Answered'
  <2>1. ASSUME pc' = "Judge" PROVE child = "reaped" /\ written <= Allowance
    <3>1. then = "Judge" /\ drains = 0
      BY <2>1 DEF TypeOK
    <3>2. pipe = 0
      <4> SUFFICES ASSUME pipe # 0 PROVE FALSE
        OBVIOUS
      <4>1. Allowance - remaining >= Done(0, 0)
        BY <3>1 DEF Emptying
      <4>2. Done(0, 0) \in Int
        BY ProcessAssumption DEF Done
      <4> QED
        BY <4>1, <4>2, DoneAll, ProcessAssumption DEF TypeOK
    <3> QED
      BY <3>1, <3>2, ProcessAssumption DEF Emptying, Relayed, TypeOK
  <2> QED
    BY <2>1 DEF Answered
<1> QED
  BY <1>1, <1>2, <1>3, <1>4

\* One read.
LEMMA ReadInvariant == IInv /\ Read => IInv'
<1> SUFFICES ASSUME IInv, Read PROVE IInv'
  OBVIOUS
<1> DEFINE count == Least(Chunk, pipe)
<1>1. /\ count \in Nat /\ count > 0 /\ count <= pipe
      /\ count = Chunk \/ count = pipe
  BY ProcessAssumption DEF Read, Least, IInv, TypeOK
<1>2. /\ pc = "Drain" /\ ~exceeded /\ pipe > 0 /\ reads > 0 /\ pipe' = pipe - count
      /\ \/ count > remaining /\ exceeded' = TRUE /\ Refused /\ UNCHANGED <<remaining, reads>>
         \/ /\ count <= remaining /\ remaining' = remaining - count /\ reads' = reads - 1
            /\ UNCHANGED <<exceeded, pc, stops, result>>
      /\ UNCHANGED <<mode, then, drains, expired, survived,
                     child, stuck, status, pid, written>>
  BY <1>1, ProcessAssumption DEF Read, IInv, TypeOK
<1> HIDE DEF count
<1>3. CASE count > remaining
  <2>1. exceeded' = TRUE /\ Refused /\ UNCHANGED <<remaining, reads>>
    BY <1>1, <1>2, <1>3, ProcessAssumption DEF IInv, TypeOK
  <2>2. TypeOK'
    BY <1>1, <1>2, <2>1, ProcessAssumption DEF IInv, TypeOK, Statuses, Refused, Leave
  <2>3. Held' /\ Gone' /\ Relayed' /\ Emptying' /\ Answered'
    BY <1>2, <2>1
    DEF IInv, Held, Gone, Relayed, Emptying, Answered, Refused, Leave
  <2> QED
    BY <2>2, <2>3 DEF IInv
<1>4. CASE count <= remaining
  <2>1. /\ remaining' = remaining - count /\ reads' = reads - 1
        /\ UNCHANGED <<exceeded, pc, stops, result>>
    BY <1>1, <1>2, <1>4, ProcessAssumption DEF IInv, TypeOK
  <2>2. TypeOK'
    BY <1>1, <1>2, <1>4, <2>1, ProcessAssumption DEF IInv, TypeOK, Statuses
  <2>3. Held' /\ Gone' /\ Answered'
    BY <1>2, <2>1 DEF IInv, Held, Gone, Answered
  <2>4. Relayed'
    BY <1>1, <1>2, <2>1, ProcessAssumption DEF IInv, Relayed, TypeOK
  <2>5. Emptying'
    <3> SUFFICES ASSUME then = "Judge", pipe' # 0 PROVE Emptying'
      BY <1>2, <2>1 DEF IInv, Emptying
    <3>1. count = Chunk
      BY <1>1, <1>2, ProcessAssumption DEF IInv, TypeOK
    <3>2. Done(drains', reads') = Done(drains, reads) + Chunk
      BY <1>2, <2>1, DoneRead DEF IInv, TypeOK
    <3>3. Done(drains, reads) \in Int
      BY ProcessAssumption DEF Done, IInv, TypeOK
    <3>4. Allowance - remaining >= Done(drains, reads)
      BY <1>2 DEF IInv, Emptying
    <3>5. Allowance - remaining' >= Done(drains', reads')
      BY <2>1, <3>1, <3>2, <3>3, <3>4, ProcessAssumption DEF IInv, TypeOK
    <3> QED
      BY <1>2, <2>1, <3>5 DEF IInv, Emptying
  <2> QED
    BY <2>2, <2>3, <2>4, <2>5 DEF IInv
<1> QED
  BY <1>1, <1>3, <1>4, ProcessAssumption DEF IInv, TypeOK

\* poll looks for the exit.
LEMMA TryWaitInvariant == IInv /\ TryWait => IInv'
<1> SUFFICES ASSUME IInv, TryWait PROVE IInv'
  OBVIOUS
<1> USE DEF IInv, TryWait, Reap, StartDrain, helper, diagnostic
<1>1. TypeOK'
  BY ProcessAssumption DEF TypeOK, Statuses
<1>2. Held' /\ Gone' /\ Relayed' /\ Answered'
  BY DEF Held, Gone, Relayed, Answered
<1>3. Emptying'
  <2>1. Allowance - remaining >= 0
    BY ProcessAssumption DEF TypeOK
  <2>2. CASE child = "zombie"
    BY <2>1, <2>2, DoneNone, ProcessAssumption DEF Emptying
  <2>3. CASE child # "zombie"
    BY <2>3 DEF Emptying
  <2> QED
    BY <2>2, <2>3
<1> QED
  BY <1>1, <1>2, <1>3

\* The rest of poll and of its callers.
LEMMA PollInvariant == IInv /\ (DrainRefused \/ Judge \/ Decide) => IInv'
<1> SUFFICES ASSUME IInv, DrainRefused \/ Judge \/ Decide PROVE IInv'
  OBVIOUS
<1> USE DEF IInv, Leave, StartDrain, helper, diagnostic
<1>1. CASE DrainRefused
  <2>1. TypeOK'
    BY <1>1 DEF DrainRefused, Refused, TypeOK, Statuses
  <2>2. Held' /\ Gone' /\ Relayed' /\ Emptying' /\ Answered'
    BY <1>1 DEF DrainRefused, Refused, Held, Gone, Relayed, Emptying, Answered
  <2> QED
    BY <2>1, <2>2
<1>2. CASE Judge
  <2>1. TypeOK'
    BY <1>2 DEF Judge, TypeOK, Statuses
  <2>2. Held' /\ Gone' /\ Relayed' /\ Emptying' /\ Answered'
    BY <1>2 DEF Judge, Held, Gone, Relayed, Emptying, Answered
  <2> QED
    BY <2>1, <2>2
<1>3. CASE Decide
  <2>1. TypeOK'
    BY <1>3, ProcessAssumption DEF Decide, TypeOK, Statuses
  <2>2. Held' /\ Gone' /\ Relayed' /\ Emptying' /\ Answered'
    BY <1>3 DEF Decide, Held, Gone, Relayed, Emptying, Answered
  <2> QED
    BY <2>1, <2>2
<1> QED
  BY <1>1, <1>2, <1>3

\* stop: every step keeps types; its parts keep the rest.
LEMMA StopInvariant == IInv /\ (First \/ Term \/ Polite \/ Kill \/ Forced) => IInv'
<1> SUFFICES ASSUME IInv, First \/ Term \/ Polite \/ Kill \/ Forced PROVE IInv'
  OBVIOUS
<1> USE DEF IInv, Fixed, Stopped, StartDrain, Reap, helper, diagnostic
<1>1. CASE First
  <2>1. TypeOK'
    BY <1>1, ProcessAssumption DEF First, TypeOK, Statuses
  <2>2. Held' /\ Gone' /\ Relayed' /\ Emptying' /\ Answered'
    BY <1>1 DEF First, TypeOK, Held, Gone, Relayed, Emptying, Answered
  <2> QED
    BY <2>1, <2>2
<1>2. CASE Term
  <2>1. TypeOK'
    <3>1. expired' \in BOOLEAN
      BY <1>2, Zenon DEF Term, TypeOK
    <3> QED
      BY <1>2, <3>1, ProcessAssumption DEF Term, TypeOK, Statuses
  <2>2. Held' /\ Gone' /\ Relayed' /\ Emptying' /\ Answered'
    BY <1>2 DEF Term, Held, Gone, Relayed, Emptying, Answered
  <2> QED
    BY <2>1, <2>2
<1>3. CASE Polite
  <2>1. TypeOK'
    BY <1>3, ProcessAssumption DEF Polite, TypeOK, Statuses
  <2>2. Held' /\ Gone' /\ Relayed' /\ Emptying' /\ Answered'
    BY <1>3 DEF Polite, Held, Gone, Relayed, Emptying, Answered
  <2> QED
    BY <2>1, <2>2
<1>4. CASE Kill
  <2>1. TypeOK'
    <3>1. expired' \in BOOLEAN
      BY <1>4, Zenon DEF Kill, TypeOK
    <3> QED
      BY <1>4, <3>1, ProcessAssumption DEF Kill, TypeOK, Statuses
  <2>2. Held' /\ Gone' /\ Relayed' /\ Emptying' /\ Answered'
    BY <1>4 DEF Kill, Held, Gone, Relayed, Emptying, Answered
  <2> QED
    BY <2>1, <2>2
<1>5. CASE Forced
  <2>1. TypeOK'
    <3>1. survived' \in BOOLEAN
      BY <1>5, Zenon DEF Forced, TypeOK
    <3> QED
      BY <1>5, <3>1, ProcessAssumption DEF Forced, TypeOK, Statuses
  <2>2. Held' /\ Gone' /\ Relayed' /\ Emptying' /\ Answered'
    BY <1>5 DEF Forced, Held, Gone, Relayed, Emptying, Answered
  <2> QED
    BY <2>1, <2>2
<1> QED
  BY <1>1, <1>2, <1>3, <1>4, <1>5

\* The helper, the clock and other processes.
LEMMA EnvironmentInvariant == IInv /\ Environment => IInv'
<1> SUFFICES ASSUME IInv, Environment PROVE IInv'
  OBVIOUS
<1> USE DEF IInv, worker, diagnostic
<1>1. CASE Clock
  BY <1>1 DEF Clock, helper, TypeOK, Statuses, Held, Gone, Relayed, Emptying, Answered, Done
<1>2. CASE Write
  <2>1. PICK n \in 1 .. Chunk :
            /\ pipe' = pipe + n /\ pipe' <= Pipe
            /\ written' = written + n /\ written' <= Output
    BY <1>2 DEF Write
  <2>2. child = "running" /\ UNCHANGED <<worker, child, stuck, status, pid>>
    BY <1>2 DEF Write
  <2>3. TypeOK'
    BY <2>1, <2>2, ProcessAssumption DEF TypeOK, Statuses
  <2>4. Held' /\ Gone' /\ Emptying' /\ Answered'
    BY <2>2 DEF Held, Gone, Emptying, Answered
  <2>5. Relayed'
    BY <2>1, <2>2, ProcessAssumption DEF Relayed, TypeOK
  <2> QED
    BY <2>3, <2>4, <2>5
<1>3. CASE Exit
  <2>1. TypeOK'
    BY <1>3 DEF Exit, TypeOK, Statuses
  <2>2. Held' /\ Gone' /\ Relayed' /\ Emptying' /\ Answered'
    BY <1>3 DEF Exit, Held, Gone, Relayed, Emptying, Answered
  <2> QED
    BY <2>1, <2>2
<1>4. CASE Stick
  <2>1. stuck' \in BOOLEAN
    BY <1>4, Zenon DEF Stick, TypeOK
  <2>2. UNCHANGED <<worker, child, status, pid, pipe, written>>
    BY <1>4 DEF Stick
  <2>3. TypeOK'
    BY <2>1, <2>2 DEF TypeOK, Statuses
  <2>4. Held' /\ Gone' /\ Relayed' /\ Emptying' /\ Answered'
    BY <2>2 DEF Held, Gone, Relayed, Emptying, Answered, Done
  <2> QED
    BY <2>3, <2>4
<1>5. CASE Reuse
  BY <1>5 DEF Reuse, TypeOK, Statuses, Held, Gone, Relayed, Emptying, Answered, Done
<1> QED
  BY <1>1, <1>2, <1>3, <1>4, <1>5 DEF Environment

-----------------------------------------------------------------------------
(* The theorems.                                                            *)

\* The inductive invariant: whose the PID is, what a stop leaves, and where
\* every byte of the diagnostics is.
THEOREM Invariance == Spec => []IInv
<1>1. IInv /\ [Next]_vars => IInv'
  BY StutterInvariant, DrainEndsInvariant, ReadInvariant, TryWaitInvariant, PollInvariant,
     StopInvariant, EnvironmentInvariant
  DEF Next, Supervisor
<1> QED
  BY <1>1, InitInvariant, PTL DEF Spec

\* Type correctness; the diagnostics stay within their allowance.
THEOREM TypeCorrect == Spec => []TypeOK
<1>1. IInv => TypeOK
  BY DEF IInv
<1> QED
  BY <1>1, Invariance, PTL

\* An answer of a helper that wrote more than its allowance is never taken,
\* however its bytes fall into reads and drains: Surplus drains after the exit
\* read more than any allowance.
THEOREM NoHiddenOverflowHolds == Spec => []NoHiddenOverflow
<1>1. IInv => NoHiddenOverflow
  BY DEF IInv, Answered, NoHiddenOverflow
<1> QED
  BY <1>1, Invariance, PTL

\* When the Worker is gone, the helper was reaped, or stop reported it.
THEOREM NoneLeftHolds == Spec => []NoneLeft
<1>1. IInv => NoneLeft
  BY DEF IInv, Gone, NoneLeft
<1> QED
  BY <1>1, Invariance, PTL

\* Each SIGTERM and each SIGKILL goes to the helper, also those of a second
\* stop, and whatever becomes of the PID once it is reaped.
THEOREM SignalsOwnHolds == Spec => SignalsOwn
<1>1. IInv /\ Signals => pid = "helper"
  BY DEF IInv, Held, Signals
<1>2. IInv /\ [Next]_vars => [Signals => pid = "helper"]_vars
  BY <1>1
<1> QED
  BY <1>2, Invariance, PTL DEF Spec, SignalsOwn
=============================================================================
