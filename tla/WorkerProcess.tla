--------------------------- MODULE WorkerProcess ----------------------------
(***************************************************************************)
(* The supervisor's hold on one helper process (src/macos/process.rs): the *)
(* USB worker, or the probe that looks for a device.  It reads the         *)
(* helper's diagnostics within a lifetime allowance, reaps it, and stops   *)
(* it: SIGTERM, two seconds, SIGKILL, one second.  Once the helper is      *)
(* reaped, its PID may be given to any process.                            *)
(***************************************************************************)
EXTENDS Naturals

CONSTANTS
    Allowance,   \* bytes of diagnostics in a lifetime (8192)
    Chunk,       \* bytes of one read (1024)
    Reads,       \* reads of one drain (4)
    Surplus,     \* drains after the exit (3)
    Pipe,        \* bytes the pipe holds
    Output       \* bound: bytes the helper writes

\* What is read after the exit exceeds any allowance that is left.
ASSUME ProcessAssumption ==
    /\ Allowance \in Nat /\ Pipe \in Nat /\ Output \in Nat
    /\ Chunk \in Nat \ {0} /\ Reads \in Nat \ {0} /\ Surplus \in Nat \ {0}
    /\ Surplus * Reads * Chunk > Allowance

VARIABLES
    \* the supervisor's Worker
    mode,        \* "probe" or "worker"
    pc,          \* what it does next
    then,        \* where a drain returns to
    reads,       \* reads left in the drain
    drains,      \* drains left after the exit
    stops,       \* calls of stop left
    expired,     \* the deadline in effect has passed
    remaining, exceeded,   \* Diagnostic
    result,      \* of the probe or the session
    survived,    \* stop reported a helper that did not exit
    \* the helper
    child,       \* "running", "zombie" or "reaped"
    stuck,       \* in the kernel, where no signal reaches it
    status,      \* what its exit status says
    pid,         \* whose the helper's PID is
    pipe, written

diagnostic == <<remaining, exceeded>>
worker     == <<mode, pc, then, reads, drains, stops, expired, diagnostic, result,
                survived>>
helper     == <<child, stuck, status, pid, pipe, written>>
vars       == <<worker, helper>>

Statuses == {"found", "absent", "other"}

TypeOK ==
    /\ mode \in {"probe", "worker"}
    /\ pc \in {"Drain", "TryWait", "Judge", "Decide",
               "First", "Term", "Polite", "Kill", "Forced", "Over"}
    /\ then \in {"TryWait", "Judge", "Over"}
    /\ reads \in 0 .. Reads /\ drains \in 0 .. Surplus /\ stops \in 0 .. 2
    /\ expired \in BOOLEAN /\ exceeded \in BOOLEAN /\ survived \in BOOLEAN
    /\ remaining \in 0 .. Allowance
    /\ result \in {"none", "timeout", "error", "ended"} \cup Statuses
    /\ child \in {"running", "zombie", "reaped"} /\ stuck \in BOOLEAN
    /\ status \in {"none"} \cup Statuses
    /\ pid \in {"helper", "free", "other"}
    /\ pipe \in 0 .. Pipe /\ written \in 0 .. Output

\* Worker::spawn, or the beginning of probe.
Init ==
    /\ mode \in {"probe", "worker"}
    /\ pc = "Drain" /\ then = "TryWait" /\ reads = Reads /\ drains = 0 /\ stops = 0
    /\ expired = FALSE /\ remaining = Allowance /\ exceeded = FALSE
    /\ result = "none" /\ survived = FALSE
    /\ child = "running" /\ stuck = FALSE /\ status = "none" /\ pid = "helper"
    /\ pipe = 0 /\ written = 0

-----------------------------------------------------------------------------
(* Diagnostics.                                                             *)

StartDrain(next) == pc' = "Drain" /\ then' = next /\ reads' = Reads

\* Worker::drop: one stop, and one more drain.
Leave(why) == pc' = "First" /\ stops' = 1 /\ result' = why

\* Where a drain goes on that came to its end.
Drained ==
    IF then = "Judge" /\ drains > 0
    THEN StartDrain("Judge") /\ drains' = drains - 1
    ELSE pc' = then /\ UNCHANGED <<then, reads, drains>>

\* Why the drain fails: out of poll's callers through `?`, or only logged.
Refused ==
    IF then = "Over" THEN pc' = "Over" /\ UNCHANGED <<stops, result>> ELSE Leave("error")

\* The allowance was exceeded before.
DrainRefused ==
    /\ pc = "Drain" /\ exceeded /\ Refused
    /\ UNCHANGED <<mode, then, reads, drains, expired, diagnostic, survived, helper>>

\* Nothing to read, or no reads left.
DrainEnds ==
    /\ pc = "Drain" /\ ~exceeded /\ (pipe = 0 \/ reads = 0)
    /\ Drained
    /\ UNCHANGED <<mode, stops, expired, diagnostic, result, survived, helper>>

Least(a, b) == IF a < b THEN a ELSE b

\* One read: relayed to the log, or more than what is left.
Read ==
    /\ pc = "Drain" /\ ~exceeded /\ pipe > 0 /\ reads > 0
    /\ LET count == Least(Chunk, pipe)
       IN  /\ pipe' = pipe - count
           /\ IF count > remaining
              THEN exceeded' = TRUE /\ Refused /\ UNCHANGED <<remaining, reads>>
              ELSE /\ remaining' = remaining - count /\ reads' = reads - 1
                   /\ UNCHANGED <<exceeded, pc, stops, result>>
    /\ UNCHANGED <<mode, then, drains, expired, survived,
                   child, stuck, status, pid, written>>

-----------------------------------------------------------------------------
(* poll, and its callers.                                                   *)

\* Waited on: the PID is no longer the helper's.
Reap == child' = "reaped" /\ pid' = "free" /\ UNCHANGED <<stuck, status, pipe, written>>

\* Mutant: one drain less after the exit.
TryWaitShort ==
    /\ pc = "TryWait"
    /\ IF child = "zombie"
       THEN Reap /\ StartDrain("Judge") /\ drains' = Surplus - 2
       ELSE pc' = "Decide" /\ UNCHANGED <<helper, then, reads, drains>>
    /\ UNCHANGED <<mode, stops, expired, diagnostic, result, survived>>

\* A helper that exited is drained Surplus times more.
TryWait ==
    /\ pc = "TryWait"
    /\ IF child = "zombie"
       THEN Reap /\ StartDrain("Judge") /\ drains' = Surplus - 1
       ELSE pc' = "Decide" /\ UNCHANGED <<helper, then, reads, drains>>
    /\ UNCHANGED <<mode, stops, expired, diagnostic, result, survived>>

\* Discovery::check, or the end of the session.
Judge ==
    /\ pc = "Judge"
    /\ Leave(IF mode = "worker" THEN "ended"
             ELSE IF status = "other" THEN "error" ELSE status)
    /\ UNCHANGED <<mode, then, reads, drains, expired, diagnostic, survived, helper>>

\* The probe waits for five seconds, and stops the helper before it returns
\* and drops it; a session polls as long as it pleases.
Decide ==
    /\ pc = "Decide"
    /\ \/ /\ mode = "worker" \/ ~expired
          /\ StartDrain("TryWait") /\ UNCHANGED <<stops, result>>
       \/ /\ mode = "worker" /\ Leave("ended") /\ UNCHANGED <<then, reads>>
       \/ /\ mode = "probe" /\ expired
          /\ pc' = "First" /\ stops' = 2 /\ result' = "timeout"
          /\ UNCHANGED <<then, reads>>
    /\ UNCHANGED <<mode, drains, expired, diagnostic, survived, helper>>

-----------------------------------------------------------------------------
(* stop, called by probe and by drop.                                       *)

\* stop returns: to be called again, or to the last drain of drop.
Stopped ==
    IF stops > 1 THEN pc' = "First" /\ stops' = stops - 1 /\ UNCHANGED <<then, reads>>
    ELSE StartDrain("Over") /\ stops' = 0

Fixed == UNCHANGED <<mode, drains, diagnostic, result>>

\* Mutant: stop sends the signal again to a helper it has reaped before.
FirstAgain ==
    /\ pc = "First"
    /\ IF child # "zombie"
       THEN pc' = "Term" /\ UNCHANGED <<helper, then, reads, stops>>
       ELSE Stopped /\ Reap
    /\ Fixed /\ UNCHANGED <<expired, survived>>

\* Mutant: the signal is sent without looking for the exit first.
FirstBlind ==
    /\ pc = "First" /\ pc' = "Term"
    /\ Fixed /\ UNCHANGED <<then, reads, stops, expired, survived, helper>>

\* A helper that exited, or was reaped before, needs no signal.
First ==
    /\ pc = "First"
    /\ IF child = "running"
       THEN pc' = "Term" /\ UNCHANGED <<helper, then, reads, stops>>
       ELSE /\ Stopped
            /\ IF child = "zombie" THEN Reap ELSE UNCHANGED helper
    /\ Fixed /\ UNCHANGED <<expired, survived>>

Term ==
    /\ pc = "Term" /\ pc' = "Polite"
    /\ expired' = FALSE
    /\ Fixed /\ UNCHANGED <<then, reads, stops, survived, helper>>

\* Mutant: SIGTERM is all that is sent.
PoliteOnly ==
    /\ pc = "Polite"
    /\ \/ child = "zombie" /\ Reap /\ Stopped
       \/ child = "running" /\ expired /\ Stopped /\ UNCHANGED helper
    /\ Fixed /\ UNCHANGED <<expired, survived>>

Polite ==
    /\ pc = "Polite"
    /\ \/ child = "zombie" /\ Reap /\ Stopped
       \/ /\ child = "running" /\ expired
          /\ pc' = "Kill" /\ UNCHANGED <<then, reads, stops, helper>>
    /\ Fixed /\ UNCHANGED <<expired, survived>>

Kill ==
    /\ pc = "Kill" /\ pc' = "Forced"
    /\ expired' = FALSE
    /\ Fixed /\ UNCHANGED <<then, reads, stops, survived, helper>>

\* Mutant: the supervisor waits until the helper exits.
ForcedForever ==
    /\ pc = "Forced" /\ child = "zombie" /\ Reap /\ Stopped
    /\ Fixed /\ UNCHANGED <<expired, survived>>

\* After a second, a helper that is stuck is reported and left.
Forced ==
    /\ pc = "Forced"
    /\ \/ child = "zombie" /\ Reap /\ Stopped /\ UNCHANGED survived
       \/ child = "running" /\ expired /\ Stopped /\ survived' = TRUE /\ UNCHANGED helper
    /\ Fixed /\ UNCHANGED expired

Supervisor ==
    \/ DrainRefused \/ DrainEnds \/ Read \/ TryWait \/ Judge \/ Decide
    \/ First \/ Term \/ Polite \/ Kill \/ Forced

-----------------------------------------------------------------------------
(* The helper, the clock and other processes.                               *)

Clock ==
    /\ ~expired /\ expired' = TRUE
    /\ UNCHANGED <<mode, pc, then, reads, drains, stops, diagnostic, result,
                   survived, helper>>

Write ==
    /\ child = "running" /\ ~stuck
    /\ \E n \in 1 .. Chunk :
          /\ pipe' = pipe + n /\ pipe' <= Pipe
          /\ written' = written + n /\ written' <= Output
    /\ UNCHANGED <<worker, child, stuck, status, pid>>

\* By itself, or at a signal.  What it wrote stays in the pipe.
Exit ==
    /\ child = "running" /\ ~stuck /\ child' = "zombie" /\ status' \in Statuses
    /\ UNCHANGED <<worker, stuck, pid, pipe, written>>

Stick ==
    /\ child = "running" /\ stuck' = ~stuck
    /\ UNCHANGED <<worker, child, status, pid, pipe, written>>

Reuse ==
    /\ pid = "free" /\ pid' = "other"
    /\ UNCHANGED <<worker, child, stuck, status, pipe, written>>

Environment == Clock \/ Write \/ Exit \/ Stick \/ Reuse

Next == Supervisor \/ Environment

\* The supervisor runs and time passes; nothing is assumed of the helper.
Fairness == WF_vars(Supervisor) /\ WF_vars(Clock)

Spec == Init /\ [][Next]_vars /\ Fairness

-----------------------------------------------------------------------------
(* Properties.                                                              *)

\* "Cannot hide a diagnostic overflow behind its otherwise expected exit
\* code" (process.rs): an answer means that the helper kept to its allowance.
NoHiddenOverflow == result \in {"found", "absent"} => written <= Allowance

\* "Its PID cannot have been reused" (process.rs): each time SIGTERM or SIGKILL
\* is sent, the first time or again, the PID is the helper's.
Signals    == (pc = "Term" /\ pc' = "Polite") \/ (pc = "Kill" /\ pc' = "Forced")
SignalsOwn == [][Signals => pid = "helper"]_vars

\* When the Worker is gone, so is the helper, unless a failure was reported.
NoneLeft == pc = "Over" /\ ~survived => child = "reaped"

\* A probe ends, and so does stop in either mode, whatever the helper does and
\* even when SIGKILL has no effect.
AlwaysEnds == mode = "probe" \/ pc = "First" ~> pc = "Over"
=============================================================================
