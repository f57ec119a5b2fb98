---------------------------- MODULE Launch_proofs ----------------------------
(***************************************************************************)
(* What the launch guarantees for every descriptor table, limit and set of *)
(* inherited descriptors: its types, what the program that is started has  *)
(* and has not, and that spawn reports a success only for a program that   *)
(* was executed.                                                           *)
(***************************************************************************)
EXTENDS Launch, FiniteSetTheorems, WellFoundedInduction, TLAPS

Temporary == {"stdio", "errors", "report"}

\* What the supervisor has when: its lock takes descriptor 3 unless something
\* inherited is there, so that the channel's dup2 hits nothing of the library.
Entered ==
    /\ phase \in {"Lock", "Open", "Spawn", "Await", "Serve"} => manager = "worker"
    /\ phase \in {"Enter", "Lock"} => table[3] \notin Temporary
    /\ phase \in {"Open", "Spawn", "Await", "Serve"} => table[3] \notin Temporary \cup {"free"}

\* Which child there is, and what its parent knows.
Parent ==
    /\ phase \in {"Enter", "Lock", "Open", "Spawn"} => child = "none"
    /\ phase = "Await" => child # "none"
    /\ phase = "Serve" => child \in {"Program", "Ready"} /\ mode = "worker"
    /\ phase = "Failed" => child \in {"none", "Dead"}
    /\ child \in Steps \cup {"none"} => spawned = "none"
    /\ child \in {"Program", "Ready"} => spawned = "ok"
    /\ child = "Dead" => spawned = "error"

\* A child can still report, on a descriptor that the channel does not take.
Reports == child \in Steps => \E n \in Numbers \ {3} : numbers[n] = "report"

\* Which descriptors exec will keep: the inherited ones until they are marked,
\* all of which are below the ceiling; then the channel only.
Sweep ==
    /\ child \in {"Session", "Mark"} => \A n \in kept : n < ceiling
    /\ child = "Channel" => mode = "worker" /\ kept = {}
    /\ child \in {"Groups", "Group", "User", "Verify", "Exec"} =>
          IF mode = "worker" THEN kept = {3} /\ numbers[3] = "usb" ELSE kept = {}

\* What is verified stays.
Dropping ==
    child \in {"Exec", "Program", "Ready"} => user = "worker" /\ group = "worker" /\ groups = "worker"

\* What the program has.
Given ==
    child \in {"Program", "Ready"} =>
        /\ \A n \in Numbers :
              numbers[n] \in IF mode = "worker" THEN {"usb", "free"} ELSE {"free"}
        /\ mode = "worker" => numbers[3] = "usb"

IInv == TypeOK /\ Entered /\ Parent /\ Reports /\ Sweep /\ Dropping /\ Given

-----------------------------------------------------------------------------
(* Descriptors.                                                             *)

\* A set of numbers that is not empty has a least one.
LEMMA LeastExists ==
    ASSUME NEW S \in SUBSET Nat, S # {}
    PROVE  \E n \in S : \A m \in S : n <= m
<1> DEFINE Less == {ss \in Nat \X Nat : ss[1] < ss[2]}
<1>1. IsWellFoundedOn(Less, Nat)
  BY NatLessThanWellFounded, Zenon DEF OpToRel
<1>2. PICK n \in S : \A m \in S : ~ (<<m, n>> \in Less)
  <2> HIDE DEF Less
  <2> QED
    BY <1>1, WFMin
<1>3. ASSUME NEW m \in S PROVE n <= m
  <2>1. n \in Nat /\ m \in Nat /\ ~ (<<m, n>> \in Less)
    BY <1>2
  <2>2. ~ (m < n)
    BY <2>1
  <2> QED
    BY <2>1, <2>2
<1> QED
  BY <1>2, <1>3

\* One with a bound has a greatest one, which Greatest is.
LEMMA GreatestIs ==
    ASSUME NEW S \in SUBSET Nat, S # {}, NEW bound \in Nat, \A m \in S : m <= bound
    PROVE  Greatest(S) \in S /\ \A m \in S : m <= Greatest(S)
<1> DEFINE gaps == {bound - m : m \in S}
<1>1. gaps \in SUBSET Nat /\ gaps # {}
  <2>1. \A m \in S : bound - m \in Nat
    OBVIOUS
  <2>2. PICK m \in S : TRUE
    OBVIOUS
  <2>3. bound - m \in gaps
    BY <2>2
  <2> QED
    BY <2>1, <2>3
<1>2. PICK g \in gaps : \A h \in gaps : g <= h
  BY <1>1, LeastExists
<1>3. PICK n \in S : g = bound - n
  BY <1>2
<1>4. \A m \in S : m <= n
  <2> SUFFICES ASSUME NEW m \in S PROVE m <= n
    OBVIOUS
  <2>1. bound - m \in gaps
    OBVIOUS
  <2>2. g <= bound - m
    BY <1>2, <2>1
  <2> HIDE DEF gaps
  <2> QED
    BY <1>3, <2>2
<1> QED
  BY <1>3, <1>4 DEF Greatest

\* The sweep reaches every descriptor in use.
LEMMA CeilingCovers ==
    ASSUME TypeOK
    PROVE  Ceiling \in Nat /\ \A n \in Numbers : table[n] # "free" => n < Ceiling
<1> DEFINE used == {n \in Numbers : table[n] # "free"}
           all  == {limit, 4} \cup {n + 1 : n \in used}
<1>1. limit \in Nat /\ Top \in Nat
  BY LaunchAssumption DEF TypeOK
<1>2. all \in SUBSET Nat /\ all # {}
  BY <1>1 DEF Numbers
<1>3. limit + Top + 4 \in Nat /\ \A m \in all : m <= limit + Top + 4
  BY <1>1, LaunchAssumption DEF Numbers
<1>4. Greatest(all) \in all /\ \A m \in all : m <= Greatest(all)
  <2> HIDE DEF all
  <2> QED
    BY <1>2, <1>3, GreatestIs
<1>5. Ceiling = Greatest(all)
  BY DEF Ceiling
<1>6. \A n \in used : n + 1 <= Greatest(all)
  BY <1>4
<1>7. Greatest(all) \in Nat
  BY <1>2, <1>4
<1> QED
  BY <1>5, <1>6, <1>7 DEF Numbers

\* What is opened takes the least free number below the limit.
LEMMA TakeOne ==
    ASSUME NEW t, NEW object, Unused(t) # {}
    PROVE  \E n \in Unused(t) :
              (\A m \in Unused(t) : n <= m) /\ Take(t, object) = [t EXCEPT ![n] = object]
<1>1. Unused(t) \in SUBSET Nat
  BY LaunchAssumption DEF Unused, Numbers
<1>2. \E n \in Unused(t) : \A m \in Unused(t) : n <= m
  BY <1>1, LeastExists
<1> DEFINE least == CHOOSE n \in Unused(t) : \A m \in Unused(t) : n <= m
<1>3. least \in Unused(t) /\ \A m \in Unused(t) : least <= m
  BY <1>2
<1>4. Take(t, object) = [t EXCEPT ![least] = object]
  BY DEF Take
<1> HIDE DEF least
<1> QED
  BY <1>3, <1>4

\* It leaves one number less.
LEMMA TakeLeaves ==
    ASSUME NEW t \in [Numbers -> Objects], NEW object \in Objects \ {"free"},
           Cardinality(Unused(t)) >= 1
    PROVE  /\ Take(t, object) \in [Numbers -> Objects]
           /\ Cardinality(Unused(Take(t, object))) = Cardinality(Unused(t)) - 1
           /\ \E n \in Numbers : t[n] = "free" /\ Take(t, object) = [t EXCEPT ![n] = object]
<1>1. IsFiniteSet(Unused(t))
  <2>1. IsFiniteSet(3 .. Top)
    BY LaunchAssumption, FS_Interval
  <2>2. Unused(t) \in SUBSET (3 .. Top)
    BY DEF Unused, Numbers
  <2> QED
    BY <2>1, <2>2, FS_Subset
<1>2. Unused(t) # {}
  BY FS_EmptySet
<1>3. PICK n \in Unused(t) : Take(t, object) = [t EXCEPT ![n] = object]
  BY <1>2, TakeOne
<1>4. n \in Numbers /\ t[n] = "free"
  BY DEF Unused
<1>5. Unused([t EXCEPT ![n] = object]) = Unused(t) \ {n}
  BY <1>4 DEF Unused
<1>6. Cardinality(Unused(t) \ {n}) = Cardinality(Unused(t)) - 1
  BY <1>1, FS_RemoveElement
<1> QED
  BY <1>3, <1>4, <1>5, <1>6

\* Three that are opened one after the other.
TakeAll(t, a, b, c) == Take(Take(Take(t, a), b), c)

\* Three descriptors that are opened take nothing away from those in use.
LEMMA TakeThree ==
    ASSUME NEW t \in [Numbers -> Objects], NEW a \in Objects \ {"free"},
           NEW b \in Objects \ {"free"}, NEW c \in Objects \ {"free"},
           Cardinality(Unused(t)) >= 3
    PROVE  /\ TakeAll(t, a, b, c) \in [Numbers -> Objects]
           /\ \A n \in Numbers : t[n] # "free" => TakeAll(t, a, b, c)[n] = t[n]
           /\ \E n \in Numbers : t[n] = "free" /\ TakeAll(t, a, b, c)[n] = c
<1> DEFINE r == Take(t, a)
           s == Take(r, b)
           u == Take(s, c)
<1>0. Cardinality(Unused(t)) \in Nat
  <2>1. IsFiniteSet(3 .. Top)
    BY LaunchAssumption, FS_Interval
  <2>2. Unused(t) \in SUBSET (3 .. Top)
    BY DEF Unused, Numbers
  <2> QED
    BY <2>1, <2>2, FS_Subset, FS_CardinalityType
<1>1. /\ r \in [Numbers -> Objects] /\ Cardinality(Unused(r)) = Cardinality(Unused(t)) - 1
      /\ \E n \in Numbers : t[n] = "free" /\ r = [t EXCEPT ![n] = a]
  <2>1. Cardinality(Unused(t)) >= 1
    BY <1>0
  <2> QED
    BY <2>1, TakeLeaves, Zenon
<1> HIDE DEF r
<1>2. /\ s \in [Numbers -> Objects] /\ Cardinality(Unused(s)) = Cardinality(Unused(r)) - 1
      /\ \E n \in Numbers : r[n] = "free" /\ s = [r EXCEPT ![n] = b]
  <2>1. Cardinality(Unused(r)) >= 1
    BY <1>0, <1>1
  <2> QED
    BY <1>1, <2>1, TakeLeaves, Zenon
<1>3. u = Take(s, c) /\ u = TakeAll(t, a, b, c)
  BY DEF r, TakeAll
<1> HIDE DEF s, u
<1>4. /\ u \in [Numbers -> Objects]
      /\ \E n \in Numbers : s[n] = "free" /\ u = [s EXCEPT ![n] = c]
  <2>1. Cardinality(Unused(s)) >= 1
    BY <1>0, <1>1, <1>2
  <2> QED
    <3>1. /\ Take(s, c) \in [Numbers -> Objects]
          /\ \E n \in Numbers : s[n] = "free" /\ Take(s, c) = [s EXCEPT ![n] = c]
      BY <1>2, <2>1, TakeLeaves, Zenon
    <3> QED
      BY <1>3, <3>1
<1>5. /\ \A n \in Numbers : t[n] # "free" => u[n] = t[n]
      /\ \E n \in Numbers : t[n] = "free" /\ u[n] = c
  BY <1>1, <1>2, <1>4
<1> QED
  BY <1>3, <1>4, <1>5

-----------------------------------------------------------------------------
(* The supervisor's steps.                                                  *)

\* It holds when the supervisor comes up.
LEMMA InitInvariant == Init => IInv
<1> SUFFICES ASSUME Init PROVE IInv
  OBVIOUS
<1>1. table \in [Numbers -> Objects] /\ numbers \in [Numbers -> Objects]
  BY DEF Init, Objects, Free
<1>2. TypeOK
  BY <1>1, LaunchAssumption DEF Init, TypeOK
<1>3. Entered /\ Parent /\ Reports /\ Sweep /\ Dropping /\ Given
  BY LaunchAssumption DEF Init, Numbers, Temporary, Entered, Parent, Reports, Sweep, Dropping, Given, Steps
<1> QED
  BY <1>2, <1>3 DEF IInv

\* Nothing changes.
LEMMA StutterInvariant == IInv /\ UNCHANGED vars => IInv'
  BY DEF vars, enter, files, offspring, credential, IInv, TypeOK, Entered, Parent, Reports,
         Sweep, Dropping, Given

\* Context::enter: the bootstrap context is the worker's when it goes on.
LEMMA EnterInvariant == IInv /\ Enter => IInv'
<1> SUFFICES ASSUME IInv, Enter PROVE IInv'
  OBVIOUS
<1> USE DEF IInv, Enter, Fail, files, offspring, credential
<1>1. TypeOK'
  BY DEF TypeOK
<1>2. Entered' /\ Parent'
  BY DEF Entered, Parent, Steps
<1>3. Reports' /\ Sweep' /\ Dropping' /\ Given'
  BY DEF Reports, Sweep, Dropping, Given
<1> QED
  BY <1>1, <1>2, <1>3

\* The lock takes descriptor 3, if that is free.
LEMMA LockInvariant == IInv /\ Lock => IInv'
<1> SUFFICES ASSUME IInv, Lock PROVE IInv'
  OBVIOUS
<1>1. phase = "Lock" /\ UNCHANGED <<enter, mode, ceiling, spawned, offspring>>
  BY DEF Lock
<1>2. CASE Fail /\ UNCHANGED table
  BY <1>1, <1>2 DEF IInv, Fail, enter, offspring, credential, TypeOK, Entered, Parent, Reports,
                    Sweep, Dropping, Given
<1>3. CASE Unused(table) # {} /\ table' = Take(table, "lock") /\ phase' = "Spawn"
  <2>1. PICK n \in Unused(table) :
            (\A m \in Unused(table) : n <= m) /\ table' = [table EXCEPT ![n] = "lock"]
    BY <1>3, TakeOne
  <2>2. table' \in [Numbers -> Objects]
    BY <2>1 DEF IInv, TypeOK, Objects
  <2>3. table'[3] \notin Temporary \cup {"free"}
    <3>1. 3 \in Numbers /\ n \in Numbers /\ n < limit
      BY LaunchAssumption DEF Numbers, Unused
    <3>2. CASE table[3] = "free"
      <4>1. limit \in Nat
        BY LaunchAssumption DEF IInv, TypeOK
      <4>2. 3 \in Unused(table)
        BY <3>1, <3>2, <4>1 DEF Unused, Numbers
      <4>3. n = 3
        BY <2>1, <3>1, <4>2 DEF Numbers
      <4> QED
        BY <2>1, <3>1, <4>3 DEF IInv, TypeOK, Temporary
    <3>3. CASE table[3] # "free"
      \* What was inherited is no temporary of the library.
      BY <1>1, <2>1, <3>1, <3>3 DEF IInv, TypeOK, Temporary, Entered
    <3> QED
      BY <3>2, <3>3
  <2>4. TypeOK'
    BY <1>1, <1>3, <2>2 DEF IInv, TypeOK, enter, offspring, credential
  <2>5. Entered' /\ Parent'
    BY <1>1, <1>3, <2>3 DEF IInv, Entered, Parent, enter, offspring, credential
  <2>6. Reports' /\ Sweep' /\ Dropping' /\ Given'
    BY <1>1 DEF IInv, Reports, Sweep, Dropping, Given, enter, offspring, credential
  <2> QED
    BY <2>4, <2>5, <2>6 DEF IInv
<1> QED
  BY <1>2, <1>3 DEF Lock

\* A session's BPF device and channel.
LEMMA OpenInvariant == IInv /\ Open => IInv'
<1> SUFFICES ASSUME IInv, Open PROVE IInv'
  OBVIOUS
<1>1. phase = "Open" /\ UNCHANGED <<enter, ceiling, spawned, offspring>>
  BY DEF Open
<1>2. CASE Fail /\ UNCHANGED <<table, mode>>
  BY <1>1, <1>2 DEF IInv, Fail, enter, offspring, credential, TypeOK, Entered, Parent, Reports,
                    Sweep, Dropping, Given
<1>3. CASE /\ Cardinality(Unused(table)) >= 3
           /\ table' = Take(Take(Take(table, "bpf"), "host"), "usb")
           /\ mode' = "worker" /\ phase' = "Spawn"
  <2>1. /\ table' \in [Numbers -> Objects]
        /\ \A n \in Numbers : table[n] # "free" => table'[n] = table[n]
    <3>1. table \in [Numbers -> Objects]
      BY DEF IInv, TypeOK
    <3> DEFINE u == TakeAll(table, "bpf", "host", "usb")
    <3>2. /\ "bpf" \in Objects \ {"free"} /\ "host" \in Objects \ {"free"}
          /\ "usb" \in Objects \ {"free"}
      BY DEF Objects
    <3>3. /\ u \in [Numbers -> Objects]
          /\ \A n \in Numbers : table[n] # "free" => u[n] = table[n]
          /\ \E n \in Numbers : table[n] = "free" /\ u[n] = "usb"
      <4>1. Cardinality(Unused(table)) >= 3
        BY <1>3
      <4> QED
        BY <3>1, <3>2, <4>1, TakeThree
    <3> QED
      BY <1>3, <3>3 DEF TakeAll
  <2>2. 3 \in Numbers
    BY LaunchAssumption DEF Numbers
  <2>3. child = "none"
    BY <1>1 DEF IInv, Parent
  <2>4. TypeOK'
    BY <1>1, <1>3, <2>1 DEF IInv, TypeOK, enter, offspring, credential
  <2>5. Entered' /\ Parent'
    BY <1>1, <1>3, <2>1, <2>2 DEF IInv, Entered, Parent, enter, offspring, credential
  <2>6. Reports' /\ Sweep' /\ Dropping' /\ Given'
    BY <1>1, <2>3 DEF Reports, Sweep, Dropping, Given, Steps, offspring
  <2> QED
    BY <2>4, <2>5, <2>6 DEF IInv
<1> QED
  BY <1>2, <1>3 DEF Open

\* fork: what the child inherits is below the ceiling, and its report pipe is
\* not on descriptor 3.
LEMMA SpawnInvariant == IInv /\ Spawn => IInv'
<1> SUFFICES ASSUME IInv, Spawn PROVE IInv'
  OBVIOUS
<1>1. phase = "Spawn" /\ UNCHANGED <<enter, mode, spawned>>
  BY DEF Spawn
<1>2. CASE Fail /\ UNCHANGED <<table, ceiling, offspring>>
  BY <1>1, <1>2 DEF IInv, Fail, enter, offspring, credential, TypeOK, Entered, Parent, Reports,
                    Sweep, Dropping, Given
<1>3. CASE /\ Ceiling <= MaxTable /\ Cardinality(Unused(table)) >= 3
           /\ ceiling' = Ceiling
           /\ table' = Take(Take(Take(table, "stdio"), "errors"), "report")
           /\ numbers' = table' /\ kept' = {n \in Numbers : table[n] = "stray"}
           /\ child' = "Session" /\ phase' = "Await"
           /\ user' = "root" /\ group' = "root" /\ groups' = "root"
  <2>1. /\ table' \in [Numbers -> Objects]
        /\ \A n \in Numbers : table[n] # "free" => table'[n] = table[n]
        /\ \E n \in Numbers : table[n] = "free" /\ table'[n] = "report"
    <3>1. table \in [Numbers -> Objects]
      BY DEF IInv, TypeOK
    <3> DEFINE u == TakeAll(table, "stdio", "errors", "report")
    <3>2. /\ "stdio" \in Objects \ {"free"} /\ "errors" \in Objects \ {"free"}
          /\ "report" \in Objects \ {"free"}
      BY DEF Objects
    <3>3. /\ u \in [Numbers -> Objects]
          /\ \A n \in Numbers : table[n] # "free" => u[n] = table[n]
          /\ \E n \in Numbers : table[n] = "free" /\ u[n] = "report"
      <4>1. Cardinality(Unused(table)) >= 3
        BY <1>3
      <4> QED
        BY <3>1, <3>2, <4>1, TakeThree
    <3> QED
      BY <1>3, <3>3 DEF TakeAll
  <2>2. 3 \in Numbers /\ table[3] # "free"
    BY <1>1, LaunchAssumption DEF Numbers, IInv, Entered
  <2>3. Ceiling \in Nat /\ \A n \in Numbers : table[n] # "free" => n < Ceiling
    BY CeilingCovers DEF IInv
  <2>4. TypeOK'
    BY <1>1, <1>3, <2>1, <2>3 DEF IInv, TypeOK, Steps, enter
  <2>5. Entered' /\ Parent'
    BY <1>1, <1>3, <2>1, <2>2 DEF IInv, Entered, Parent, Steps, enter
  <2>6. Reports'
    BY <1>3, <2>1, <2>2 DEF Reports
  <2>7. Sweep'
    BY <1>3, <2>3 DEF Sweep
  <2>8. Dropping' /\ Given'
    BY <1>3 DEF Dropping, Given
  <2> QED
    BY <2>4, <2>5, <2>6, <2>7, <2>8 DEF IInv
<1> QED
  BY <1>2, <1>3 DEF Spawn

\* The outcome of the start.
LEMMA AwaitInvariant == IInv /\ Await => IInv'
<1> SUFFICES ASSUME IInv, Await PROVE IInv'
  OBVIOUS
<1>1. /\ phase = "Await" /\ child \in {"Program", "Ready", "Dead"} /\ spawned # "none"
      /\ table' = Dropped(table) /\ UNCHANGED <<enter, mode, ceiling>>
  BY DEF Await
<1>2. table' \in [Numbers -> Objects]
  BY <1>1 DEF Dropped, IInv, TypeOK, Objects
<1>3. manager = "worker" /\ table'[3] \notin Temporary \cup {"free"}
  BY <1>1, LaunchAssumption DEF Dropped, IInv, Entered, Temporary, Numbers
<1>4. CASE spawned = "error"
  <2>1. Fail /\ UNCHANGED <<spawned, offspring>>
    BY <1>4 DEF Await
  <2>2. child = "Dead"
    BY <1>1, <1>4 DEF IInv, Parent
  <2>3. TypeOK'
    BY <1>1, <1>2, <2>1 DEF IInv, TypeOK, Fail, enter, offspring, credential
  <2>4. Entered' /\ Parent'
    BY <1>1, <2>1, <2>2 DEF IInv, Entered, Parent, Fail, enter, offspring, credential, Steps
  <2>5. Reports' /\ Sweep' /\ Dropping' /\ Given'
    BY <1>1, <2>1 DEF IInv, Reports, Sweep, Dropping, Given, offspring, credential
  <2> QED
    BY <2>3, <2>4, <2>5 DEF IInv
<1>5. CASE spawned # "error"
  <2>1. child \in {"Program", "Ready"}
    BY <1>1, <1>5 DEF IInv, Parent
  <2>2. CASE mode = "probe"
    <3>1. /\ phase' = "Open" /\ spawned' = "none" /\ child' = "none" /\ kept' = {}
          /\ numbers' = Free /\ UNCHANGED credential
      BY <1>5, <2>2 DEF Await
    <3>2. Free \in [Numbers -> Objects]
      BY DEF Free, Objects
    <3>3. TypeOK'
      BY <1>1, <1>2, <3>1, <3>2 DEF IInv, TypeOK, enter, credential
    <3>4. Entered' /\ Parent'
      BY <1>1, <1>3, <3>1 DEF Entered, Parent, enter, Steps
    <3>5. Reports' /\ Sweep' /\ Dropping' /\ Given'
      BY <3>1 DEF Reports, Sweep, Dropping, Given, Steps
    <3> QED
      BY <3>3, <3>4, <3>5 DEF IInv
  <2>3. CASE mode # "probe"
    <3>1. phase' = "Serve" /\ UNCHANGED <<spawned, offspring>>
      BY <1>5, <2>3 DEF Await
    <3>2. mode = "worker"
      BY <2>3 DEF IInv, TypeOK
    <3>3. TypeOK'
      BY <1>1, <1>2, <3>1 DEF IInv, TypeOK, enter, offspring, credential
    <3>4. Entered' /\ Parent'
      BY <1>1, <1>3, <2>1, <3>1, <3>2
      DEF IInv, Entered, Parent, enter, offspring, credential, Steps
    <3>5. Reports' /\ Sweep' /\ Dropping' /\ Given'
      BY <1>1, <3>1 DEF IInv, Reports, Sweep, Dropping, Given, offspring, credential
    <3> QED
      BY <3>3, <3>4, <3>5 DEF IInv
  <2> QED
    BY <2>2, <2>3
<1> QED
  BY <1>4, <1>5

-----------------------------------------------------------------------------
(* The child's steps.                                                       *)

\* What a step of the child leaves alone.
LEMMA ChildKeeps ==
    ASSUME IInv, child \in Steps,
           UNCHANGED <<phase, enter, table, mode, ceiling>>, spawned' = "none",
           child' \in Steps
    PROVE  Entered' /\ Parent'
  BY DEF IInv, Entered, Parent, Steps, enter

\* A step that fails is reported.
LEMMA AbortInvariant == IInv /\ Abort => IInv'
<1> SUFFICES ASSUME IInv, Abort PROVE IInv'
  OBVIOUS
<1>1. /\ child \in Steps /\ child' = "Dead"
      /\ UNCHANGED <<phase, enter, table, mode, ceiling, numbers, kept, credential>>
  BY DEF Abort
<1>2. spawned' = "error"
  BY <1>1 DEF Abort, Reporting, IInv, Reports
<1>3. phase = "Await"
  BY <1>1 DEF IInv, Parent, TypeOK, Steps
<1>4. TypeOK'
  BY <1>1, <1>2 DEF IInv, TypeOK, enter, credential
<1>5. Entered' /\ Parent'
  BY <1>1, <1>2, <1>3 DEF IInv, Entered, Parent, Steps, enter
<1>6. Reports' /\ Sweep' /\ Dropping' /\ Given'
  BY <1>1 DEF Reports, Sweep, Dropping, Given, Steps
<1> QED
  BY <1>4, <1>5, <1>6 DEF IInv

\* setsid, and every descriptor below the ceiling is marked.
LEMMA MarkInvariant == IInv /\ (NewSession \/ Mark) => IInv'
<1> SUFFICES ASSUME IInv, NewSession \/ Mark PROVE IInv'
  OBVIOUS
<1>1. /\ child \in {"Session", "Mark"} /\ child' \in Steps /\ child \in Steps
      /\ UNCHANGED <<phase, enter, table, mode, ceiling, spawned, numbers, credential>>
  BY DEF NewSession, Mark, Go, AfterMark, Steps
<1>2. spawned' = "none"
  BY <1>1 DEF IInv, Parent
<1>3. kept' \subseteq kept
  BY DEF NewSession, Mark
<1>4. TypeOK'
  BY <1>1, <1>3 DEF IInv, TypeOK, enter, credential
<1>5. Reports'
  BY <1>1 DEF IInv, Reports
<1>6. Sweep'
  <2>1. CASE NewSession
    BY <1>1, <1>3, <2>1 DEF IInv, Sweep, NewSession, Go
  <2>2. CASE Mark
    <3>1. \A n \in kept : n \in Nat /\ n < ceiling /\ ceiling \in Nat
      BY <1>1 DEF IInv, TypeOK, Sweep, Numbers
    <3>2. kept' = {}
      BY <2>2, <3>1 DEF Mark
    <3>3. child' = AfterMark /\ mode \in {"probe", "worker"}
      BY <2>2 DEF Mark, Go, IInv, TypeOK
    <3> QED
      BY <1>1, <3>2, <3>3 DEF Sweep, AfterMark
  <2> QED
    BY <2>1, <2>2
<1>7. Dropping' /\ Given'
  BY DEF NewSession, Mark, Go, AfterMark, Dropping, Given
<1> QED
  BY <1>1, <1>2, <1>4, <1>5, <1>6, <1>7, ChildKeeps DEF IInv

\* The channel becomes descriptor 3, where no report pipe is.
LEMMA ChannelInvariant == IInv /\ Channel => IInv'
<1> SUFFICES ASSUME IInv, Channel PROVE IInv'
  OBVIOUS
<1>1. /\ child = "Channel" /\ child' = "Groups" /\ {child, child'} \subseteq Steps
      /\ UNCHANGED <<phase, enter, table, mode, ceiling, spawned, credential>>
      /\ numbers' = [numbers EXCEPT ![3] = "usb"] /\ kept' = kept \cup {3}
  BY DEF Channel, Go, Steps
<1>2. spawned' = "none" /\ mode = "worker" /\ kept = {}
  BY <1>1 DEF IInv, Parent, Sweep
<1>3. 3 \in Numbers
  BY LaunchAssumption DEF Numbers
<1>4. numbers' \in [Numbers -> Objects] /\ numbers'[3] = "usb"
  BY <1>1, <1>3 DEF IInv, TypeOK, Objects
<1>5. TypeOK'
  BY <1>1, <1>3, <1>4 DEF IInv, TypeOK, enter, credential, Steps
<1>6. Reports'
  BY <1>1 DEF IInv, Reports, TypeOK
<1>7. Sweep' /\ Dropping' /\ Given'
  BY <1>1, <1>2, <1>4 DEF Sweep, Dropping, Given
<1> QED
  BY <1>1, <1>2, <1>5, <1>6, <1>7, ChildKeeps DEF IInv

\* Root's credentials are dropped, and looked at.
LEMMA DropInvariant == IInv /\ (DropGroups \/ DropGroup \/ DropUser \/ Verify) => IInv'
<1> SUFFICES ASSUME IInv, DropGroups \/ DropGroup \/ DropUser \/ Verify PROVE IInv'
  OBVIOUS
<1>1. /\ child \in {"Groups", "Group", "User", "Verify"}
      /\ child' \in {"Group", "User", "Verify", "Exec"}
      /\ UNCHANGED <<phase, enter, table, mode, ceiling, spawned, numbers, kept>>
  BY DEF DropGroups, DropGroup, DropUser, Verify, Go
<1>2. {child, child'} \subseteq Steps
  BY <1>1 DEF Steps
<1>3. spawned' = "none"
  BY <1>1, <1>2 DEF IInv, Parent
<1>4. {user', group', groups'} \subseteq {"root", "worker"}
  BY DEF DropGroups, DropGroup, DropUser, Verify, credential, IInv, TypeOK
<1>5. TypeOK'
  BY <1>1, <1>2, <1>4 DEF IInv, TypeOK, enter
<1>6. Reports' /\ Sweep' /\ Given'
  BY <1>1, <1>2 DEF IInv, Reports, Sweep, Given
<1>7. Dropping'
  BY <1>1 DEF DropGroups, DropGroup, DropUser, Verify, Go, Dropping, credential
<1> QED
  BY <1>1, <1>2, <1>3, <1>5, <1>6, <1>7, ChildKeeps DEF IInv

\* exec closes what is not kept, which leaves the channel or nothing.
LEMMA ExecInvariant == IInv /\ Exec => IInv'
<1> SUFFICES ASSUME IInv, Exec PROVE IInv'
  OBVIOUS
<1>1. /\ child = "Exec" /\ child' = "Program" /\ spawned' = "ok"
      /\ numbers' = [n \in Numbers |-> IF n \in kept THEN numbers[n] ELSE "free"]
      /\ UNCHANGED <<phase, enter, table, mode, ceiling, kept, credential>>
  BY DEF Exec, Go
<1>2. numbers' \in [Numbers -> Objects]
  BY <1>1 DEF IInv, TypeOK, Objects
<1>3. TypeOK'
  BY <1>1, <1>2 DEF IInv, TypeOK, enter, credential
<1>4. phase = "Await"
  BY <1>1 DEF IInv, Parent, TypeOK, Steps
<1>5. Entered' /\ Parent'
  BY <1>1, <1>4 DEF IInv, Entered, Parent, Steps, enter
<1>6. Reports' /\ Sweep' /\ Dropping'
  BY <1>1 DEF IInv, Reports, Sweep, Dropping, Steps, credential
<1>7. Given'
  BY <1>1, LaunchAssumption DEF IInv, Sweep, Given, Numbers
<1> QED
  BY <1>3, <1>5, <1>6, <1>7 DEF IInv

\* The worker finds its channel.
LEMMA InheritInvariant == IInv /\ Inherit => IInv'
<1> SUFFICES ASSUME IInv, Inherit PROVE IInv'
  OBVIOUS
<1>1. /\ mode = "worker" /\ child = "Program"
      /\ UNCHANGED <<phase, enter, files, kept, credential>>
  BY DEF Inherit
<1>2. numbers[3] = "usb"
  BY <1>1 DEF IInv, Given
<1>3. /\ child' = "Ready"
      /\ \E n \in Numbers \ {3} : numbers' = [numbers EXCEPT ![n] = numbers[3]]
  BY <1>2 DEF Inherit
<1>4. numbers' \in [Numbers -> Objects]
  BY <1>2, <1>3 DEF IInv, TypeOK, Objects
<1>5. TypeOK'
  BY <1>1, <1>3, <1>4 DEF IInv, TypeOK, enter, files, credential
<1>6. Entered' /\ Parent'
  BY <1>1, <1>3 DEF IInv, Entered, Parent, Steps, enter, files
<1>7. Reports' /\ Sweep' /\ Dropping'
  BY <1>1, <1>3 DEF IInv, Reports, Sweep, Dropping, Steps, credential
<1>8. Given'
  BY <1>1, <1>2, <1>3, LaunchAssumption DEF IInv, TypeOK, Given, files, Numbers
<1> QED
  BY <1>5, <1>6, <1>7, <1>8 DEF IInv

-----------------------------------------------------------------------------
(* The theorems.                                                            *)

\* The inductive invariant: what is on descriptor 3, what the child has, and
\* what its parent knows.
THEOREM Invariance == Spec => []IInv
<1>1. IInv /\ [Next]_vars => IInv'
  BY StutterInvariant, EnterInvariant, LockInvariant, OpenInvariant, SpawnInvariant,
     AwaitInvariant, AbortInvariant, MarkInvariant, ChannelInvariant, DropInvariant,
     ExecInvariant, InheritInvariant
  DEF Next, Supervisor, Child
<1> QED
  BY <1>1, InitInvariant, PTL DEF Spec

\* Type correctness.
THEOREM TypeCorrect == Spec => []TypeOK
<1>1. IInv => TypeOK
  BY DEF IInv
<1> QED
  BY <1>1, Invariance, PTL

\* A started program has the channel and nothing else that was open, none of
\* root's credentials, and the worker's bootstrap context: for every table,
\* inherited descriptors and limit.
THEOREM ConfinedHolds == Spec => []Confined
<1>1. IInv => Confined
  <2> SUFFICES ASSUME IInv, child \in {"Program", "Ready"} PROVE Confined
    BY DEF Confined
  <2>1. {user, group, groups} = {"worker"}
    BY DEF IInv, Dropping
  <2>2. phase \in {"Await", "Serve"}
    BY DEF IInv, Parent, TypeOK
  <2>3. manager = "worker"
    BY <2>2 DEF IInv, Entered
  <2> QED
    BY <2>1, <2>3 DEF IInv, Given, Confined
<1> QED
  BY <1>1, Invariance, PTL

\* A child that dies before exec can still say so: spawn never takes its end
\* for a program that runs.
THEOREM HonestSpawnHolds == Spec => []HonestSpawn
<1>1. IInv => HonestSpawn
  BY DEF IInv, TypeOK, Parent, HonestSpawn
<1> QED
  BY <1>1, Invariance, PTL
=============================================================================
