------------------------ MODULE CommandRunner_proofs -------------------------
(***************************************************************************)
(* What Runner::capture guarantees for every output limit, read size, pipe *)
(* and number of bytes: its types, that what it returns is complete, and   *)
(* that it signals no process but the command.                             *)
(***************************************************************************)
EXTENDS CommandRunner, TLAPS

\* Until it is known to fail, every byte written was taken or is in the pipe;
\* and no more was taken than the limit allows.
Conserved ==
    /\ taken["stdout"] + taken["stderr"] <= Limit
    /\ result \in {"none", "output"} =>
          \A s \in Streams : written[s] = taken[s] + pipe[s]

\* A stream is closed at its end only: nobody can write, and nothing is left.
Closing == \A s \in Streams : closed[s] => open[s] = {} /\ pipe[s] = 0

\* Output is returned once, for a command that has been reaped; its streams
\* are gone with it.
Reaped ==
    /\ child # "running" => \A s \in Streams : "child" \notin open[s]
    /\ pc \in {"Loop", "stdout", "stderr", "Wait", "Poll"} => result = "none"
    /\ result = "output" =>
          pc = "Returned" /\ child = "reaped" /\ \A s \in Streams : closed[s]

IInv == TypeOK /\ Conserved /\ Closing /\ Reaped

-----------------------------------------------------------------------------
(* The invariant.                                                           *)

\* It holds when capture begins.
LEMMA InitInvariant == Init => IInv
<1> SUFFICES ASSUME Init PROVE IInv
  OBVIOUS
<1> USE CommandAssumption DEF Init, Streams, Writers
<1>1. TypeOK
  <2>1. /\ late \in BOOLEAN /\ expired \in BOOLEAN /\ killed \in BOOLEAN /\ deaf \in BOOLEAN
        /\ closed \in [Streams -> BOOLEAN]
    BY Zenon
  <2>2. /\ reads \in 0 .. Reads /\ taken \in [Streams -> 0 .. Limit]
        /\ pipe \in [Streams -> 0 .. Pipe] /\ written \in [Streams -> Nat]
    OBVIOUS
  <2>3. /\ open \in [Streams -> SUBSET Writers]
        /\ child \in {"running", "dead", "reaped"}
    OBVIOUS
  <2>4. /\ pc \in {"Loop", "stdout", "stderr", "Wait", "Poll", "Drop", "Reap", "Returned"}
        /\ result \in {"none", "output", "timeout", "excess", "error"}
    OBVIOUS
  <2> QED
    BY <2>1, <2>2, <2>3, <2>4 DEF TypeOK
<1>2. Conserved /\ Closing /\ Reaped
  BY DEF Conserved, Closing, Reaped
<1> QED
  BY <1>1, <1>2 DEF IInv

\* Reading a stream keeps it: what leaves the pipe is taken, or the result is
\* an error.
LEMMA DrainInvariant ==
    ASSUME IInv, NEW s \in Streams, Drain(s) PROVE IInv'
<1> USE CommandAssumption DEF IInv
<1> DEFINE size == IF pipe[s] < Buffer THEN pipe[s] ELSE Buffer
<1>1. /\ pipe[s] \in 0 .. Pipe /\ size \in 0 .. pipe[s] /\ size \in Nat
      /\ size = 0 => pipe[s] = 0
  BY DEF TypeOK
<1>2. /\ pc = s /\ result = "none"
      /\ UNCHANGED <<late, expired, child, killed, deaf, open, written>>
  BY DEF Drain, Reaped, Streams, process
<1>3. CASE ~closed[s] /\ reads > 0 /\ size > 0 /\ size <= Remaining
         /\ taken' = [taken EXCEPT ![s] = @ + size]
         /\ pipe' = [pipe EXCEPT ![s] = @ - size]
         /\ reads' = reads - 1 /\ UNCHANGED <<pc, closed, result>>
  <2>1. taken[s] + size \in 0 .. Limit /\ taken'["stdout"] + taken'["stderr"] <= Limit
    BY <1>1, <1>3 DEF TypeOK, Conserved, Remaining, Streams
  <2>2. pipe[s] - size \in 0 .. Pipe
    BY <1>1 DEF TypeOK
  <2>3. TypeOK'
    BY <1>2, <1>3, <2>1, <2>2 DEF TypeOK
  <2>4. Conserved'
    BY <1>1, <1>2, <1>3, <2>1 DEF Conserved, TypeOK
  <2>5. Closing' /\ Reaped'
    BY <1>2, <1>3 DEF Closing, Reaped, TypeOK
  <2> QED
    BY <2>3, <2>4, <2>5
<1>4. CASE UNCHANGED <<taken, pipe>>
         /\ \/ (closed[s] \/ reads = 0) /\ Leave(s) /\ UNCHANGED <<closed, result>>
            \/ size = 0 /\ open[s] = {} /\ closed' = [closed EXCEPT ![s] = TRUE]
               /\ Leave(s) /\ UNCHANGED result
            \/ size = 0 /\ open[s] # {} /\ Leave(s) /\ UNCHANGED <<closed, result>>
  <2>1. pc' \in {"stderr", "Wait"} /\ reads' = Reads /\ result' = result
    BY <1>4 DEF Leave, After
  <2>2. closed' \in [Streams -> BOOLEAN] /\ \A t \in Streams : closed[t] => closed'[t]
    BY <1>4 DEF TypeOK
  <2>3. TypeOK'
    BY <1>2, <1>4, <2>1, <2>2 DEF TypeOK
  <2>4. Conserved' /\ Reaped'
    BY <1>2, <1>4, <2>1 DEF Conserved, Reaped
  <2>5. Closing'
    BY <1>1, <1>2, <1>4 DEF Closing, TypeOK
  <2> QED
    BY <2>3, <2>4, <2>5
<1>5. CASE ~closed[s] /\ reads > 0 /\ UNCHANGED <<closed, taken, pipe>>
         /\ \/ reads' = reads - 1 /\ UNCHANGED <<pc, result>>
            \/ Give("error") /\ UNCHANGED reads
  BY <1>2, <1>5 DEF TypeOK, Conserved, Closing, Reaped, Give
<1>6. CASE ~closed[s] /\ pipe' = [pipe EXCEPT ![s] = @ - size]
         /\ Give("excess") /\ UNCHANGED <<reads, closed, taken>>
  <2>1. pipe[s] - size \in 0 .. Pipe
    BY <1>1 DEF TypeOK
  <2> QED
    BY <1>2, <1>6, <2>1 DEF TypeOK, Conserved, Closing, Reaped, Give
<1> QED
  BY <1>3, <1>4, <1>5, <1>6 DEF Drain

\* Every other step of capture and of Process::drop keeps it.
LEMMA RunInvariant == ASSUME IInv, Run PROVE IInv'
<1> USE CommandAssumption DEF IInv
<1>1. CASE Loop
  BY <1>1 DEF Loop, Give, process, pipes, TypeOK, Conserved, Closing, Reaped
<1>2. ASSUME NEW s \in Streams, Drain(s) PROVE IInv'
  BY <1>2, DrainInvariant
<1>3. CASE Wait
  BY <1>3 DEF Wait, pipes, TypeOK, Conserved, Closing, Reaped
<1>4. CASE Poll
  BY <1>4 DEF Poll, Give, process, pipes, TypeOK, Conserved, Closing, Reaped
<1>5. CASE Drop
  BY <1>5 DEF Drop, capture, pipes, TypeOK, Conserved, Closing, Reaped
<1>6. CASE Reap
  BY <1>6 DEF Reap, capture, pipes, TypeOK, Conserved, Closing, Reaped
<1> QED
  BY <1>1, <1>2, <1>3, <1>4, <1>5, <1>6 DEF Run

\* So do the command, its heirs and the clock: a stream at its end gets no
\* writer and no byte.
LEMMA EnvironmentInvariant == ASSUME IInv, Environment PROVE IInv'
<1> USE CommandAssumption DEF IInv, Streams, Writers
<1>1. ASSUME NEW s \in Streams, Write(s) PROVE IInv'
  <2>1. UNCHANGED <<pc, capture, expired, process, open>>
    BY <1>1 DEF Write
  <2>2. /\ open[s] # {} /\ pipe[s] < Pipe
        /\ pipe' = [pipe EXCEPT ![s] = @ + 1] /\ written' = [written EXCEPT ![s] = @ + 1]
    BY <1>1 DEF Write
  <2>3. TypeOK'
    BY <2>1, <2>2 DEF TypeOK, capture, process
  <2>4. Conserved'
    BY <2>1, <2>2 DEF TypeOK, Conserved, capture
  <2>5. Closing' /\ Reaped'
    BY <2>1, <2>2 DEF TypeOK, Closing, Reaped, capture, process
  <2> QED
    BY <2>3, <2>4, <2>5
<1>2. CASE Fork
  <2>1. /\ UNCHANGED <<pc, capture, expired, process, pipe, written>> /\ child = "running"
        /\ open' = [s \in Streams |-> IF "child" \in open[s] THEN Writers ELSE open[s]]
    BY <1>2 DEF Fork
  <2>2. TypeOK'
    BY <2>1 DEF TypeOK, capture, process
  <2>3. Conserved' /\ Closing' /\ Reaped'
    BY <2>1 DEF Conserved, Closing, Reaped, capture, process
  <2> QED
    BY <2>2, <2>3
<1>3. ASSUME NEW s \in Streams, NEW p \in Writers, Shut(s, p) PROVE IInv'
  <2>1. /\ UNCHANGED <<pc, capture, expired, process, pipe, written>>
        /\ open' = [open EXCEPT ![s] = @ \ {p}]
    BY <1>3 DEF Shut
  <2>2. TypeOK'
    BY <2>1 DEF TypeOK, capture, process
  <2>3. Conserved' /\ Closing' /\ Reaped'
    BY <2>1 DEF TypeOK, Conserved, Closing, Reaped, capture, process
  <2> QED
    BY <2>2, <2>3
<1>4. CASE Exit
  <2>1. /\ UNCHANGED <<pc, capture, expired, killed, deaf, pipe, written>>
        /\ child = "running" /\ child' = "dead"
        /\ open' = [s \in Streams |-> open[s] \ {"child"}]
    BY <1>4 DEF Exit
  <2>2. TypeOK'
    BY <2>1 DEF TypeOK, capture
  <2>3. Conserved' /\ Closing' /\ Reaped'
    BY <2>1 DEF Conserved, Closing, Reaped, capture
  <2> QED
    BY <2>2, <2>3
<1>5. CASE Deadline
  BY <1>5 DEF Deadline, process, pipes, TypeOK, Conserved, Closing, Reaped
<1>6. CASE Second
  BY <1>6 DEF Second, capture, process, pipes, TypeOK, Conserved, Closing, Reaped
<1> QED
  BY <1>1, <1>2, <1>3, <1>4, <1>5, <1>6 DEF Environment

-----------------------------------------------------------------------------
(* The theorems.                                                            *)

\* The inductive invariant of Runner::capture, from its types, where every
\* byte is, when a stream is closed and when output is returned.
THEOREM Invariance == Spec => []IInv
<1>1. IInv /\ [Next]_vars => IInv'
  <2> SUFFICES ASSUME IInv, [Next]_vars PROVE IInv'
    OBVIOUS
  <2>1. CASE UNCHANGED vars
    BY <2>1 DEF vars, capture, process, pipes, IInv, TypeOK, Conserved, Closing, Reaped
  <2> QED
    BY <2>1, RunInvariant, EnvironmentInvariant DEF Next
<1> QED
  BY <1>1, InitInvariant, PTL DEF Spec

\* Type correctness; no stream is given more than the limit.
THEOREM TypeCorrect == Spec => []TypeOK
<1>1. IInv => TypeOK
  BY DEF IInv
<1> QED
  BY <1>1, Invariance, PTL

\* The output that Runner::capture returns is complete, whatever the command
\* and its heirs do with its pipes, and however it is scheduled.
THEOREM WholeOutputHolds == Spec => []WholeOutput
<1>1. IInv => WholeOutput
  BY DEF IInv, TypeOK, Conserved, Closing, Reaped, WholeOutput
<1> QED
  BY <1>1, Invariance, PTL

\* Process::drop sends its signal to a child that nobody has reaped.
THEOREM KillsOwnHolds == Spec => KillsOwn
<1>1. [Next]_vars => [killed' /\ ~killed => child # "reaped" /\ child' # "reaped"]_vars
  BY DEF Next, Run, Environment, Loop, Drain, Wait, Poll, Drop, Reap,
         Write, Fork, Shut, Exit, Deadline, Second, process, vars
<1> QED
  BY <1>1, PTL DEF Spec, KillsOwn
=============================================================================
