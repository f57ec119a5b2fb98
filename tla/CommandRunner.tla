--------------------------- MODULE CommandRunner ----------------------------
(***************************************************************************)
(* Runner::capture (src/macos/command.rs): a command is spawned, both its  *)
(* pipes are drained in turn without blocking, and its output is returned  *)
(* once it has exited and both pipes are at their end, or an error once    *)
(* the deadline or the output limit is passed; Process::drop then kills    *)
(* and reaps it.  A process the command leaves behind may hold the pipes.  *)
(***************************************************************************)
EXTENDS Integers, FiniteSets

CONSTANTS
    Limit,    \* OUTPUT_LIMIT, both streams together (1 MiB)
    Buffer,   \* bytes taken by one read (8192)
    Reads,    \* reads of one stream in one turn (8)
    Pipe,     \* bytes a pipe holds
    Written   \* bound: bytes the command and its heir write

ASSUME CommandAssumption ==
    /\ Limit \in Nat /\ Written \in Nat
    /\ Buffer \in Nat \ {0} /\ Reads \in Nat \ {0} /\ Pipe \in Nat \ {0}

Streams == {"stdout", "stderr"}
Writers == {"child", "heir"}

VARIABLES
    pc,       \* what capture, or drop, does next
    reads,    \* reads left in this turn
    late,     \* the deadline of the command is over
    expired,  \* so is the second that drop waits
    closed,   \* Capture::closed
    taken,    \* length of Capture::bytes
    result,   \* "none", "output", "timeout", "excess" or "error"
    child,    \* "running", "dead" (not reaped yet) or "reaped"
    killed,   \* drop sent SIGKILL
    deaf,     \* the kernel cannot end the child
    open,     \* who holds the write end of a pipe
    pipe,     \* bytes in a pipe
    written   \* bytes ever written to it

capture == <<reads, late, closed, taken, result>>
process == <<child, killed, deaf>>
pipes   == <<open, pipe, written>>
vars    == <<pc, capture, expired, process, pipes>>

Remaining == Limit - taken["stdout"] - taken["stderr"]

TypeOK ==
    /\ pc \in {"Loop", "stdout", "stderr", "Wait", "Poll", "Drop", "Reap", "Returned"}
    /\ reads \in 0 .. Reads /\ late \in BOOLEAN /\ expired \in BOOLEAN
    /\ closed \in [Streams -> BOOLEAN] /\ taken \in [Streams -> 0 .. Limit]
    /\ result \in {"none", "output", "timeout", "excess", "error"}
    /\ child \in {"running", "dead", "reaped"} /\ killed \in BOOLEAN /\ deaf \in BOOLEAN
    /\ open \in [Streams -> SUBSET Writers]
    /\ pipe \in [Streams -> 0 .. Pipe] /\ written \in [Streams -> Nat]

Init ==
    /\ \/ pc = "Loop" /\ result = "none"
       \/ pc = "Drop" /\ result = "error"   \* a pipe cannot be set up
    /\ reads = Reads /\ late = FALSE /\ expired = FALSE
    /\ closed = [s \in Streams |-> FALSE] /\ taken = [s \in Streams |-> 0]
    /\ child = "running" /\ killed = FALSE /\ deaf \in BOOLEAN
    /\ open = [s \in Streams |-> {"child"}]
    /\ pipe = [s \in Streams |-> 0] /\ written = [s \in Streams |-> 0]

-----------------------------------------------------------------------------
(* Capturing.                                                               *)

\* An error leaves the loop, and the child to Process::drop.
Give(error) == pc' = "Drop" /\ result' = error

Loop ==
    /\ pc = "Loop"
    /\ IF late THEN Give("timeout") ELSE pc' = "stdout" /\ UNCHANGED result
    /\ reads' = Reads
    /\ UNCHANGED <<late, closed, taken, expired, process, pipes>>

After(s) == IF s = "stdout" THEN "stderr" ELSE "Wait"

\* Nothing more is read from s in this turn.
Leave(s) == pc' = After(s) /\ reads' = Reads

\* One turn of Capture::drain's loop, or its end.
Drain(s) ==
    /\ pc = s
    /\ LET size == IF pipe[s] < Buffer THEN pipe[s] ELSE Buffer IN
       \/ /\ closed[s] \/ reads = 0
          /\ Leave(s) /\ UNCHANGED <<closed, taken, result, pipe>>
       \/ /\ ~closed[s] /\ reads > 0 /\ size > 0 /\ size <= Remaining
          /\ taken' = [taken EXCEPT ![s] = @ + size]
          /\ pipe' = [pipe EXCEPT ![s] = @ - size]
          /\ reads' = reads - 1 /\ UNCHANGED <<pc, closed, result>>
       \/ /\ ~closed[s] /\ reads > 0 /\ size > Remaining
          /\ pipe' = [pipe EXCEPT ![s] = @ - size]
          /\ Give("excess") /\ UNCHANGED <<reads, closed, taken>>
       \/ /\ ~closed[s] /\ reads > 0 /\ size = 0 /\ open[s] = {}
          /\ closed' = [closed EXCEPT ![s] = TRUE]
          /\ Leave(s) /\ UNCHANGED <<taken, result, pipe>>
       \/ /\ ~closed[s] /\ reads > 0 /\ size = 0 /\ open[s] # {}
          /\ Leave(s) /\ UNCHANGED <<closed, taken, result, pipe>>
       \/ /\ ~closed[s] /\ reads > 0
          /\ \/ reads' = reads - 1 /\ UNCHANGED <<pc, result>>   \* interrupted
             \/ Give("error") /\ UNCHANGED reads
          /\ UNCHANGED <<closed, taken, pipe>>
    /\ UNCHANGED <<late, expired, process, open, written>>

\* Mutant: the output is complete when the command has exited.
WaitExitOnly ==
    /\ pc = "Wait"
    /\ child' = IF child = "dead" THEN "reaped" ELSE child
    /\ IF child' = "reaped" THEN pc' = "Returned" /\ result' = "output"
       ELSE pc' = "Poll" /\ UNCHANGED result
    /\ UNCHANGED <<reads, late, closed, taken, expired, killed, deaf, pipes>>

\* try_wait reaps a child that has exited, once.
Wait ==
    /\ pc = "Wait"
    /\ child' = IF child = "dead" THEN "reaped" ELSE child
    /\ IF child' = "reaped" /\ \A s \in Streams : closed[s]
       THEN pc' = "Returned" /\ result' = "output"
       ELSE pc' = "Poll" /\ UNCHANGED result
    /\ UNCHANGED <<reads, late, closed, taken, expired, killed, deaf, pipes>>

\* Mutant: poll waits until a pipe can be read.
PollForever ==
    /\ pc = "Poll" /\ \E s \in Streams : ~closed[s] /\ (pipe[s] > 0 \/ open[s] = {})
    /\ pc' = "Loop" /\ UNCHANGED <<capture, expired, process, pipes>>

\* 20 ms at most.
Poll ==
    /\ pc = "Poll"
    /\ \/ pc' = "Loop" /\ UNCHANGED result
       \/ Give("error")
    /\ UNCHANGED <<reads, late, closed, taken, expired, process, pipes>>

-----------------------------------------------------------------------------
(* Process::drop.                                                           *)

\* Mutant: the child is killed whether it was reaped or not.
DropBlind ==
    /\ pc = "Drop" /\ killed' = TRUE
    /\ pc' = "Reap"
    /\ UNCHANGED <<capture, expired, child, deaf, pipes>>

Drop ==
    /\ pc = "Drop"
    /\ IF child = "running" THEN killed' = TRUE /\ pc' = "Reap" /\ UNCHANGED child
       ELSE child' = "reaped" /\ pc' = "Returned" /\ UNCHANGED killed
    /\ UNCHANGED <<capture, expired, deaf, pipes>>

\* try_wait every 20 ms, for a second at most.
Reap ==
    /\ pc = "Reap"
    /\ IF child = "running"
       THEN pc' = (IF expired THEN "Returned" ELSE "Reap") /\ UNCHANGED child
       ELSE child' = "reaped" /\ pc' = "Returned"
    /\ UNCHANGED <<capture, expired, killed, deaf, pipes>>

Run == Loop \/ (\E s \in Streams : Drain(s)) \/ Wait \/ Poll \/ Drop \/ Reap

-----------------------------------------------------------------------------
(* The command, a process it leaves behind, and time.                       *)

Write(s) ==
    /\ open[s] # {} /\ written["stdout"] + written["stderr"] < Written /\ pipe[s] < Pipe
    /\ pipe' = [pipe EXCEPT ![s] = @ + 1] /\ written' = [written EXCEPT ![s] = @ + 1]
    /\ UNCHANGED <<pc, capture, expired, process, open>>

\* The command starts a process, which inherits what the command holds.
Fork ==
    /\ child = "running" /\ \A s \in Streams : "heir" \notin open[s]
    /\ open' = [s \in Streams |-> IF "child" \in open[s] THEN Writers ELSE open[s]]
    /\ UNCHANGED <<pc, capture, expired, process, pipe, written>>

\* One of them closes a stream.
Shut(s, p) ==
    /\ p \in open[s] /\ open' = [open EXCEPT ![s] = @ \ {p}]
    /\ UNCHANGED <<pc, capture, expired, process, pipe, written>>

\* The command exits, or dies of the signal; its streams are closed.
Exit ==
    /\ child = "running" /\ child' = "dead"
    /\ deaf => ~killed
    /\ open' = [s \in Streams |-> open[s] \ {"child"}]
    /\ UNCHANGED <<pc, capture, expired, killed, deaf, pipe, written>>

Deadline ==
    /\ ~late /\ late' = TRUE
    /\ UNCHANGED <<pc, reads, closed, taken, result, expired, process, pipes>>

Second ==
    /\ pc = "Reap" /\ ~expired /\ expired' = TRUE
    /\ UNCHANGED <<pc, capture, process, pipes>>

Environment ==
    \/ \E s \in Streams : Write(s) \/ \E p \in Writers : Shut(s, p)
    \/ Fork \/ Exit \/ Deadline \/ Second

Next == Run \/ Environment

\* The caller's thread runs, and its clock does.
Spec == Init /\ [][Next]_vars /\ WF_vars(Run) /\ WF_vars(Deadline) /\ WF_vars(Second)

-----------------------------------------------------------------------------
(* Properties.                                                              *)

\* What is returned as the output is all that the command, and whoever
\* inherited its pipes, ever wrote, within the limit.
WholeOutput ==
    result = "output" =>
        /\ child = "reaped"
        /\ \A s \in Streams : open[s] = {} /\ taken[s] = written[s]
        /\ taken["stdout"] + taken["stderr"] <= Limit

\* capture returns, whatever the command, its heirs and the kernel do; then
\* the command has been reaped, or was killed and had its second to die.
CaptureEnds == <>[](pc = "Returned" /\ (child = "reaped" \/ (killed /\ expired)))

\* The signal goes to a process that nobody has reaped: its number is its own.
KillsOwn == [][killed' /\ ~killed => child # "reaped" /\ child' # "reaped"]_vars
=============================================================================
