------------------------------- MODULE Launch -------------------------------
(***************************************************************************)
(* How the supervisor comes up and starts its worker: it enters the worker *)
(* account's bootstrap context (src/macos/context.rs), takes its lock and  *)
(* opens a session (src/service.rs), and starts the unprivileged program   *)
(* through fork, native/bpf.c and exec (src/macos/process.rs).             *)
(*                                                                         *)
(* A descriptor table maps the numbers from 3 on to what is open there; 0, *)
(* 1 and 2 are set by the library.  Everything the supervisor opens is     *)
(* close-on-exec; what it inherited is not.  The library's fork and exec:  *)
(* a pipe carries an error before exec back to the parent, which takes its *)
(* end for success.                                                        *)
(***************************************************************************)
EXTENDS Integers, FiniteSets

CONSTANTS
    Top,       \* bound: the highest descriptor
    Limits,    \* what RLIMIT_NOFILE may be
    MaxTable,  \* the largest table that is swept (1048576)
    Strays     \* bound: inherited descriptors

ASSUME LaunchAssumption ==
    /\ Top \in Nat /\ Top > 3 /\ Limits \subseteq Nat /\ MaxTable \in Nat /\ Strays \in Nat

Numbers == 3 .. Top
Objects == {"free", "stray", "lock", "bpf", "host", "usb", "stdio", "errors", "report"}

VARIABLES
    phase,      \* what the supervisor does next
    marker,     \* EXPECTED_PID in the environment: "none", "own" or "other"
    manager,    \* whose bootstrap context it is in
    limit,      \* RLIMIT_NOFILE
    table,      \* the supervisor's descriptors
    mode,       \* the program's mode: "probe" or "worker"
    ceiling,    \* Descriptors::ceiling
    spawned,    \* what spawn returned
    child,      \* the child's next step; "none", "Program", "Ready" or "Dead"
    numbers,    \* the child's descriptors
    kept,       \* those that are not close-on-exec
    user, group, groups   \* the child's credentials: "root" or "worker"

enter      == <<marker, manager, limit>>
files      == <<table, mode, ceiling, spawned>>
credential == <<user, group, groups>>
offspring  == <<child, numbers, kept, credential>>
vars       == <<phase, enter, files, offspring>>

Steps == {"Session", "Mark", "Channel", "Groups", "Group", "User", "Verify", "Exec"}

TypeOK ==
    /\ phase \in {"Enter", "Lock", "Open", "Spawn", "Await", "Serve", "Failed"}
    /\ marker \in {"none", "own", "other"} /\ manager \in {"worker", "other"}
    /\ limit \in Limits
    /\ table \in [Numbers -> Objects] /\ numbers \in [Numbers -> Objects]
    /\ mode \in {"probe", "worker"} /\ ceiling \in Nat
    /\ spawned \in {"none", "ok", "error"}
    /\ child \in Steps \cup {"none", "Program", "Ready", "Dead"}
    /\ kept \subseteq Numbers
    /\ {user, group, groups} \subseteq {"root", "worker"}

Free == [n \in Numbers |-> "free"]

Init ==
    /\ phase = "Enter" /\ limit \in Limits
    /\ marker \in {"none", "own", "other"} /\ manager \in {"worker", "other"}
    /\ \E strays \in SUBSET Numbers :
          /\ Cardinality(strays) <= Strays
          /\ table = [n \in Numbers |-> IF n \in strays THEN "stray" ELSE "free"]
    /\ mode = "probe" /\ ceiling = 0 /\ spawned = "none"
    /\ child = "none" /\ numbers = Free /\ kept = {}
    /\ user = "root" /\ group = "root" /\ groups = "root"

Fail == phase' = "Failed"

-----------------------------------------------------------------------------
(* The supervisor.                                                          *)

\* Mutant: the mark that launchctl leaves is not looked at.
EnterAgain ==
    /\ phase = "Enter"
    /\ \/ manager = "worker" /\ phase' = "Lock" /\ UNCHANGED <<marker, manager>>
       \/ /\ manager # "worker" /\ UNCHANGED phase
          /\ marker' \in {"own", "other"} /\ manager' \in {"worker", "other"}
       \/ Fail /\ UNCHANGED <<marker, manager>>
    /\ UNCHANGED <<limit, files, offspring>>

\* Context::enter: launchctl asuser executes the program once more, in the
\* context asked for and as the same process, or not.
Enter ==
    /\ phase = "Enter"
    /\ \/ /\ manager = "worker" /\ marker \in {"none", "own"}
          /\ phase' = "Lock" /\ UNCHANGED <<marker, manager>>
       \/ /\ manager # "worker" /\ marker = "none" /\ UNCHANGED phase
          /\ marker' \in {"own", "other"} /\ manager' \in {"worker", "other"}
       \/ Fail /\ UNCHANGED <<marker, manager>>
    /\ UNCHANGED <<limit, files, offspring>>

Unused(t) == {n \in Numbers : t[n] = "free" /\ n < limit}

\* open, socketpair and pipe take the lowest free number.
Take(t, object) ==
    [t EXCEPT ![CHOOSE n \in Unused(t) : \A m \in Unused(t) : n <= m] = object]

\* Supervisor::new: the lock is held for the supervisor's life.
Lock ==
    /\ phase = "Lock"
    /\ \/ /\ Unused(table) # {}
          /\ table' = Take(table, "lock") /\ phase' = "Spawn"
       \/ Fail /\ UNCHANGED table
    /\ UNCHANGED <<enter, mode, ceiling, spawned, offspring>>

\* connect: BPF, then the channel.
Open ==
    /\ phase = "Open"
    /\ \/ /\ Cardinality(Unused(table)) >= 3
          /\ table' = Take(Take(Take(table, "bpf"), "host"), "usb")
          /\ mode' = "worker" /\ phase' = "Spawn"
       \/ Fail /\ UNCHANGED <<table, mode>>
    /\ UNCHANGED <<enter, ceiling, spawned, offspring>>

Source == CHOOSE n \in Numbers : table[n] = "usb"

Greatest(S) == CHOOSE n \in S : \A m \in S : m <= n

\* Mutant: the sweep ends at the limit.
CeilingLimit == Greatest({limit, 4})

\* Descriptors::ceiling: the limit, or past the highest descriptor in use,
\* which may have been opened under a higher one.
Ceiling ==
    LET used == {n \in Numbers : table[n] # "free"}
    IN  Greatest({limit, 4} \cup {n + 1 : n \in used})

\* Worker::command, and fork: the child has a copy of every descriptor.
Spawn ==
    /\ phase = "Spawn"
    /\ \/ /\ Ceiling <= MaxTable /\ Cardinality(Unused(table)) >= 3
          /\ ceiling' = Ceiling
          /\ table' = Take(Take(Take(table, "stdio"), "errors"), "report")
          /\ numbers' = table' /\ kept' = {n \in Numbers : table[n] = "stray"}
          /\ child' = "Session" /\ phase' = "Await"
          /\ user' = "root" /\ group' = "root" /\ groups' = "root"
       \/ Fail /\ UNCHANGED <<table, ceiling, offspring>>
    /\ UNCHANGED <<enter, mode, spawned>>

Dropped(t) == [n \in Numbers |-> IF t[n] \in {"stdio", "errors", "report"} THEN "free" ELSE t[n]]

\* spawn reads the child's report, or the end of the pipe.  A probe that
\* found the device is followed by a session, which then serves.
Await ==
    /\ phase = "Await" /\ child \in {"Program", "Ready", "Dead"} /\ spawned # "none"
    /\ table' = Dropped(table)
    /\ IF spawned = "error" THEN Fail /\ UNCHANGED <<spawned, offspring>>
       ELSE /\ phase' = (IF mode = "probe" THEN "Open" ELSE "Serve")
            /\ IF mode = "probe"
               THEN /\ spawned' = "none" /\ child' = "none" /\ kept' = {}
                    /\ numbers' = Free /\ UNCHANGED credential
               ELSE UNCHANGED <<spawned, offspring>>
    /\ UNCHANGED <<enter, mode, ceiling>>

Supervisor == Enter \/ Lock \/ Open \/ Spawn \/ Await

-----------------------------------------------------------------------------
(* The child, between fork and exec.                                        *)

Reporting == \E n \in Numbers : numbers[n] = "report"

\* A step that fails: the child reports on its pipe, if it still has it.
Abort ==
    /\ child \in Steps /\ child' = "Dead"
    /\ spawned' = IF Reporting THEN "error" ELSE "ok"
    /\ UNCHANGED <<phase, enter, table, mode, ceiling, numbers, kept, credential>>

Go(now, next) ==
    /\ child = now /\ child' = next
    /\ UNCHANGED <<phase, enter, table, mode, ceiling>>

NewSession == Go("Session", "Mark") /\ UNCHANGED <<spawned, numbers, kept, credential>>

AfterMark == IF mode = "worker" THEN "Channel" ELSE "Groups"

\* Mutant: descriptors are closed here, not by exec.
MarkClosing ==
    /\ Go("Mark", AfterMark) /\ kept' = {n \in kept : n >= ceiling}
    /\ numbers' = [n \in Numbers |->
                      IF n >= ceiling \/ numbers[n] = "usb" THEN numbers[n] ELSE "free"]
    /\ UNCHANGED <<spawned, credential>>

\* Every descriptor below the ceiling is to be closed by exec.
Mark ==
    /\ Go("Mark", AfterMark) /\ kept' = {n \in kept : n >= ceiling}
    /\ UNCHANGED <<spawned, numbers, credential>>

\* The worker's end of the channel becomes descriptor 3, which exec keeps.
Channel ==
    /\ Go("Channel", "Groups")
    /\ Source < ceiling
    /\ numbers' = [numbers EXCEPT ![3] = "usb"] /\ kept' = kept \cup {3}
    /\ UNCHANGED <<spawned, credential>>

\* Each of these three needs the rights of root.
DropGroups ==
    /\ Go("Groups", "Group") /\ user = "root" /\ groups' = "worker"
    /\ UNCHANGED <<spawned, numbers, kept, user, group>>

DropGroup ==
    /\ Go("Group", "User") /\ user = "root" /\ group' = "worker"
    /\ UNCHANGED <<spawned, numbers, kept, user, groups>>

DropUser ==
    /\ Go("User", "Verify") /\ user = "root" /\ user' = "worker"
    /\ UNCHANGED <<spawned, numbers, kept, group, groups>>

Verify ==
    /\ Go("Verify", "Exec") /\ {user, group, groups} = {"worker"}
    /\ UNCHANGED <<spawned, numbers, kept, credential>>

\* The end of the report pipe tells the parent.
Exec ==
    /\ Go("Exec", "Program") /\ spawned' = "ok"
    /\ numbers' = [n \in Numbers |-> IF n \in kept THEN numbers[n] ELSE "free"]
    /\ UNCHANGED <<kept, credential>>

\* Channel::inherit: a copy of descriptor 3, at 4 or above, if it is a
\* connected datagram socket.
Inherit ==
    /\ mode = "worker" /\ child = "Program"
    /\ \/ /\ numbers[3] \in {"usb", "host"} /\ child' = "Ready"
          /\ \E n \in Numbers \ {3} :
                /\ numbers[n] = "free" /\ \A m \in 4 .. n - 1 : numbers[m] # "free"
                /\ numbers' = [numbers EXCEPT ![n] = numbers[3]]
       \/ numbers[3] \notin {"usb", "host"} /\ child' = "Dead" /\ UNCHANGED numbers
    /\ UNCHANGED <<phase, enter, files, kept, credential>>

Child ==
    \/ NewSession \/ Mark \/ Channel \/ DropGroups \/ DropGroup \/ DropUser
    \/ Verify \/ Exec \/ Inherit

Next == Supervisor \/ Child \/ Abort

\* Both processes are scheduled.
Spec == Init /\ [][Next]_vars /\ WF_vars(Supervisor) /\ WF_vars(Child \/ Abort)

-----------------------------------------------------------------------------
(* Properties.                                                              *)

\* Whatever the supervisor inherited, and wherever: the program it starts has
\* the channel or, for a probe, nothing; it has none of root's credentials;
\* and it starts in the worker's bootstrap context.
Confined ==
    child \in {"Program", "Ready"} =>
        /\ {user, group, groups} = {"worker"} /\ manager = "worker"
        /\ \A n \in Numbers :
              numbers[n] \in IF mode = "worker" THEN {"usb", "free"} ELSE {"free"}
        /\ mode = "worker" => numbers[3] = "usb"

\* spawn reports success only when the program was executed, and a worker
\* that was executed finds its channel.
HonestSpawn ==
    /\ phase = "Await" /\ spawned = "ok" => child \in {"Program", "Ready"}
    /\ phase = "Serve" => child \in {"Program", "Ready"}

\* The supervisor comes up with a worker, or gives up: it does not execute
\* itself over and over.
LaunchEnds == <>(phase = "Failed" \/ (phase = "Serve" /\ child = "Ready"))
=============================================================================
