--------------------------- MODULE Routing_proofs ----------------------------
(***************************************************************************)
(* What the network check and the recovery guarantee for any set of        *)
(* physical interfaces and routers: types, that what is written is what    *)
(* was decided on, and that a recovery nobody disturbs ends well.          *)
(***************************************************************************)
EXTENDS Routing, TLAPS

\* What the check knows, until the host changes: no VPN, and the default it is
\* about to replace is remembered.
Checked ==
    ~raced =>
        /\ pc = "Table" => current = def
        /\ pc \in {"ApplyCurrent", "ApplyTable", "Write"} =>
              ~vpn /\ (Via(def, Physical) => previous = def)

\* What recovery knows of the default, until it or the table changes.
Recovered ==
    ~raced =>
        /\ pc \in {"RereadTable", "Rewrite"} => Permits(def)
        /\ pc = "Rewrite" => ~vpn

\* What recovery knows of the interface: it is a physical one, and the rest
\* until a link, an address or a router changes.
Aimed ==
    /\ pc \in Recovering \ {"Restore"} => previous # NoRoute /\ previous.interface \in Physical
    /\ ~moved =>
        /\ pc \in {"Address", "Fresh", "Router", "Scoped", "Reread", "RereadTable",
                   "Rewrite"} => previous.interface \in active
        /\ pc \in {"Fresh", "Router", "Scoped", "Reread", "RereadTable", "Rewrite"} =>
              previous.interface \in addressed
        /\ pc \in {"Reread", "RereadTable", "Rewrite"} => target = Fresh

\* A recovery that nothing disturbs sees what is there, and does not fail.
Quiet ==
    ~disturbed =>
        /\ pc \in Recovering => ~failed /\ ~expired
        /\ pc \in {"ReadTable", "Judge"} => current = def
        /\ pc = "Reverify" => def = target

\* Time runs out in a recovery only, and the second confirmation ends it.
Timed ==
    /\ expired => pc \in Recovering \cup {"Done"}
    /\ confirmations = 2 => pc = "Done"

IInv == TypeOK /\ Checked /\ Recovered /\ Aimed /\ Quiet /\ Timed /\ QuietRecovery

-----------------------------------------------------------------------------
(* The invariant.                                                           *)

\* What macOS installs are routes.
LEMMA SelectableRoutes == TypeOK => Selectable \subseteq Routes \cup {NoRoute}
  BY DEF TypeOK, Selectable, Routes, Route, Interfaces

\* It holds at first.
LEMMA InitInvariant == Init => IInv
<1> SUFFICES ASSUME Init PROVE IInv
  OBVIOUS
<1>1. /\ vpn \in BOOLEAN /\ lease \in BOOLEAN /\ expired \in BOOLEAN
      /\ failed \in BOOLEAN /\ raced \in BOOLEAN /\ moved \in BOOLEAN /\ disturbed \in BOOLEAN
  BY Zenon DEF Init
<1>2. def \in Routes \cup {NoRoute}
  BY DEF Init, Selectable, Routes, Route, Interfaces
<1>3. TypeOK
  BY <1>1, <1>2 DEF Init, TypeOK, Stages
<1>4. Checked /\ Recovered /\ Aimed /\ Quiet /\ Timed /\ QuietRecovery
  BY DEF Init, Checked, Recovered, Aimed, Fresh, Quiet, Timed, QuietRecovery, Recovering
<1> QED
  BY <1>3, <1>4 DEF IInv

\* Nothing changes.
LEMMA StutterInvariant == IInv /\ UNCHANGED vars => IInv'
  BY DEF vars, host, links, plan, history, IInv, TypeOK, Checked, Recovered, Aimed, Fresh,
         Quiet, Timed, QuietRecovery, Permits, Via

\* The Boolean variables stay Boolean, and so the types of the others are all
\* that is left to show.
LEMMA Flags ==
    ASSUME TypeOK, Next
    PROVE  /\ vpn' \in BOOLEAN /\ lease' \in BOOLEAN /\ expired' \in BOOLEAN
           /\ failed' \in BOOLEAN /\ raced' \in BOOLEAN /\ moved' \in BOOLEAN
           /\ disturbed' \in BOOLEAN
<1>1. CASE Supervisor
  <2>1. CASE \/ TakeSnapshot \/ Due \/ Leave \/ AskLease \/ ReadCurrent \/ Decide
             \/ ApplyRead \/ ApplyCheck \/ ApplyWrite \/ Verify \/ Remove
    BY <2>1, Zenon
    DEF TypeOK, TakeSnapshot, Due, Leave, AskLease, ReadCurrent, Decide, ApplyRead, ApplyCheck,
        ApplyWrite, Verify, Remove, Read, Write, Goto, Fail, host, links, plan, history
  <2>2. CASE \/ CommandFails \/ RestoreStart \/ RestoreRead \/ RestoreTable \/ Judge
             \/ CheckActive \/ CheckAddress
    BY <2>2, Zenon
    DEF TypeOK, CommandFails, RestoreStart, RestoreRead, RestoreTable, Judge, CheckActive,
        CheckAddress, Read, Goto, Fail, host, links, plan, history
  <2>3. CASE \/ AskAddress \/ AskRouter \/ AskScoped \/ Reread \/ RereadTable \/ Rewrite
             \/ Reverify \/ Sleep \/ Again
    BY <2>3, Zenon
    DEF TypeOK, AskAddress, AskRouter, AskScoped, Reread, RereadTable, Rewrite, Reverify,
        Sleep, Again, Write, Goto, Fail, host, links, plan, history
  <2> QED
    BY <1>1, <2>1, <2>2, <2>3, Zenon DEF Supervisor
<1>2. CASE Host
  <2>1. vpn' \in BOOLEAN /\ lease' \in BOOLEAN
    BY <1>2, Zenon
    DEF TypeOK, Host, VpnUp, VpnDown, Select, LinkChanges, RouterChanges, LeaseChanges, links
  <2>2. /\ expired' \in BOOLEAN /\ failed' \in BOOLEAN /\ raced' \in BOOLEAN
        /\ moved' \in BOOLEAN /\ disturbed' \in BOOLEAN
    BY <1>2, Zenon DEF TypeOK, Host
  <2> QED
    BY <2>1, <2>2
<1>3. CASE Expire
  BY <1>3, Zenon DEF TypeOK, Expire, host, links, plan
<1> QED
  BY <1>1, <1>2, <1>3, Zenon DEF Next

Flagged ==
    /\ vpn \in BOOLEAN /\ lease \in BOOLEAN /\ expired \in BOOLEAN
    /\ failed \in BOOLEAN /\ raced \in BOOLEAN /\ moved \in BOOLEAN /\ disturbed \in BOOLEAN

\* The session's steps.
LEMMA CheckInvariant ==
    ASSUME IInv, Flagged',
           \/ TakeSnapshot \/ Due \/ Leave \/ AskLease \/ ReadCurrent \/ Decide
           \/ ApplyRead \/ ApplyCheck \/ ApplyWrite \/ Verify \/ Remove
    PROVE  IInv'
<1> USE DEF IInv, Goto, Fail, host, links, plan, history
<1>1. CASE TakeSnapshot
  <2>1. TypeOK'
    BY <1>1 DEF TakeSnapshot, TypeOK, Stages, Checking, Recovering, Flagged
  <2>2. Checked' /\ Recovered' /\ Aimed' /\ Quiet' /\ Timed' /\ QuietRecovery'
    BY <1>1, NoRouteAssumption
    DEF TakeSnapshot, Checked, Recovered, Aimed, Fresh, Quiet, Timed, QuietRecovery,
        Recovering, Via
  <2> QED
    BY <2>1, <2>2
<1>2. CASE Due \/ Leave \/ ApplyCheck \/ Verify
  <2>1. TypeOK'
    BY <1>2
    DEF Due, Leave, ApplyCheck, Verify, TypeOK, Stages, Checking, Recovering, Flagged
  <2>2. Checked' /\ Recovered' /\ Aimed' /\ Quiet' /\ Timed' /\ QuietRecovery'
    BY <1>2
    DEF Due, Leave, ApplyCheck, Verify, Checked, Recovered, Aimed, Fresh, Quiet, Timed,
        QuietRecovery, Recovering, Via
  <2> QED
    BY <2>1, <2>2
<1>3. CASE AskLease
  <2>1. TypeOK'
    BY <1>3 DEF AskLease, TypeOK, Stages, Checking, Recovering, Flagged, Route, Routes, Interfaces
  <2>2. Checked' /\ Recovered' /\ Aimed' /\ Quiet' /\ Timed' /\ QuietRecovery'
    BY <1>3
    DEF AskLease, Checked, Recovered, Aimed, Fresh, Quiet, Timed, QuietRecovery, Recovering
  <2> QED
    BY <2>1, <2>2
<1>4. CASE ReadCurrent \/ ApplyRead
  <2>1. TypeOK'
    BY <1>4 DEF ReadCurrent, ApplyRead, Read, TypeOK, Stages, Checking, Recovering, Flagged
  <2>2. Checked' /\ Recovered' /\ Aimed' /\ Quiet' /\ Timed' /\ QuietRecovery'
    BY <1>4
    DEF ReadCurrent, ApplyRead, Read, Checked, Recovered, Aimed, Fresh, Quiet, Timed,
        QuietRecovery, Recovering, Via
  <2> QED
    BY <2>1, <2>2
<1>5. CASE Decide
  <2>1. TypeOK'
    BY <1>5 DEF Decide, TypeOK, Stages, Checking, Recovering, Flagged
  <2>2. Checked'
    BY <1>5, RoutingAssumption DEF Decide, Checked, Via, Interfaces
  <2>3. Recovered' /\ Aimed' /\ Quiet' /\ Timed' /\ QuietRecovery'
    BY <1>5 DEF Decide, Recovered, Aimed, Fresh, Quiet, Timed, QuietRecovery, Recovering
  <2> QED
    BY <2>1, <2>2, <2>3
<1>6. CASE ApplyWrite
  <2>1. TypeOK'
    BY <1>6 DEF ApplyWrite, Write, TypeOK, Stages, Checking, Recovering, Flagged
  <2>2. Checked' /\ Recovered' /\ Aimed' /\ Quiet' /\ Timed' /\ QuietRecovery'
    BY <1>6
    DEF ApplyWrite, Write, Checked, Recovered, Aimed, Fresh, Quiet, Timed, QuietRecovery,
        Recovering
  <2> QED
    BY <2>1, <2>2
<1>7. CASE Remove
  <2>1. TypeOK'
    BY <1>7 DEF Remove, TypeOK, Stages, Checking, Recovering, Flagged
  <2>2. Checked' /\ Recovered' /\ Aimed' /\ Timed' /\ QuietRecovery'
    BY <1>7 DEF Remove, Checked, Recovered, Aimed, Fresh, Timed, QuietRecovery, Recovering
  <2>3. Quiet'
    BY <1>7 DEF Remove, Quiet, Timed, Recovering
  <2> QED
    BY <2>1, <2>2, <2>3
<1> QED
  BY <1>1, <1>2, <1>3, <1>4, <1>5, <1>6, <1>7

\* The steps of Recovery::restore.
LEMMA RecoveryInvariant ==
    ASSUME IInv, Flagged',
           \/ RestoreStart \/ RestoreRead \/ RestoreTable \/ Judge
           \/ CheckActive \/ CheckAddress \/ AskAddress \/ AskRouter \/ AskScoped
           \/ Reread \/ RereadTable \/ Rewrite \/ Reverify \/ Sleep
    PROVE  IInv'
<1> USE DEF IInv, Goto, Fail, host, links, plan, history
<1>1. CASE RestoreStart \/ RestoreTable
  <2>1. TypeOK'
    BY <1>1 DEF RestoreStart, RestoreTable, TypeOK, Stages, Checking, Recovering, Flagged
  <2>2. Checked' /\ Recovered' /\ Aimed' /\ Quiet' /\ Timed'
    BY <1>1
    DEF RestoreStart, RestoreTable, Checked, Recovered, Aimed, Fresh, Quiet, Timed,
        Recovering, Via
  <2>3. QuietRecovery'
    BY <1>1 DEF RestoreStart, RestoreTable, QuietRecovery, Via, TypeOK
  <2> QED
    BY <2>1, <2>2, <2>3
<1>2. CASE RestoreRead
  <2>1. TypeOK'
    BY <1>2 DEF RestoreRead, Read, TypeOK, Stages, Checking, Recovering, Flagged
  <2>2. Checked' /\ Recovered' /\ Aimed' /\ Quiet' /\ Timed' /\ QuietRecovery'
    BY <1>2
    DEF RestoreRead, Read, Checked, Recovered, Aimed, Fresh, Quiet, Timed, QuietRecovery,
        Recovering
  <2> QED
    BY <2>1, <2>2
<1>3. CASE Judge
  <2>0. confirmations' \in 0 .. 2 /\ pc' \in {"Active", "Done", "Sleep"}
    <3>1. CASE Permits(current)
      BY <1>3, <3>1 DEF Judge
    <3>2. CASE ~Permits(current)
      BY <1>3, <3>2 DEF Judge, TypeOK, Timed
    <3> QED
      BY <3>1, <3>2
  <2>1. TypeOK'
    BY <1>3, <2>0 DEF Judge, TypeOK, Stages, Checking, Recovering, Flagged
  <2>2. Checked' /\ Recovered' /\ Aimed' /\ Quiet' /\ Timed'
    BY <1>3, <2>0 DEF Judge, Checked, Recovered, Aimed, Fresh, Quiet, Timed, Recovering
  <2>3. QuietRecovery'
    BY <1>3 DEF Judge, QuietRecovery, Quiet, Recovering, Permits, Via
  <2> QED
    BY <2>1, <2>2, <2>3
<1>4. CASE CheckActive \/ CheckAddress \/ Sleep
  <2>1. TypeOK'
    BY <1>4
    DEF CheckActive, CheckAddress, Sleep, TypeOK, Stages, Checking, Recovering, Flagged
  <2>2. Checked' /\ Recovered' /\ Quiet' /\ Timed' /\ QuietRecovery'
    BY <1>4
    DEF CheckActive, CheckAddress, Sleep, Checked, Recovered, Quiet, Timed, QuietRecovery,
        Recovering
  <2>3. Aimed'
    BY <1>4 DEF CheckActive, CheckAddress, Sleep, Aimed, Recovering
  <2> QED
    BY <2>1, <2>2, <2>3
<1>5. CASE AskAddress \/ AskRouter \/ AskScoped
  <2>1. TypeOK'
    <3>1. CASE AskAddress
      BY <1>5, <3>1 DEF AskAddress, TypeOK, Stages, Checking, Recovering, Flagged
    <3>2. CASE AskRouter \/ AskScoped
      <4>1. Fresh \in Routes
        BY <1>5, <3>2
        DEF AskRouter, AskScoped, Aimed, TypeOK, Recovering, Fresh, Route, Routes, Interfaces
      <4> QED
        BY <3>2, <4>1
        DEF AskRouter, AskScoped, TypeOK, Stages, Checking, Recovering, Flagged
    <3> QED
      BY <1>5, <3>1, <3>2
  <2>2. Checked' /\ Recovered' /\ Quiet' /\ Timed' /\ QuietRecovery'
    BY <1>5
    DEF AskAddress, AskRouter, AskScoped, Checked, Recovered, Quiet, Timed, QuietRecovery,
        Recovering
  <2>3. Aimed'
    BY <1>5 DEF AskAddress, AskRouter, AskScoped, Aimed, Fresh, Recovering
  <2> QED
    BY <2>1, <2>2, <2>3
<1>6. CASE Reread \/ RereadTable
  <2>1. TypeOK'
    BY <1>6 DEF Reread, RereadTable, TypeOK, Stages, Checking, Recovering, Flagged
  <2>2. Checked' /\ Recovered' /\ Aimed' /\ Quiet' /\ Timed'
    BY <1>6
    DEF Reread, RereadTable, Checked, Recovered, Aimed, Fresh, Quiet, Timed, Recovering,
        Permits, Via
  <2>3. QuietRecovery'
    BY <1>6 DEF Reread, RereadTable, QuietRecovery, Quiet, Recovering, Permits, Via
  <2> QED
    BY <2>1, <2>2, <2>3
<1>7. CASE Rewrite
  <2>1. TypeOK'
    BY <1>7 DEF Rewrite, Write, TypeOK, Stages, Checking, Recovering, Flagged
  <2>2. Checked' /\ Recovered' /\ Aimed' /\ Quiet' /\ Timed' /\ QuietRecovery'
    BY <1>7
    DEF Rewrite, Write, Checked, Recovered, Aimed, Fresh, Quiet, Timed, QuietRecovery,
        Recovering
  <2> QED
    BY <2>1, <2>2
<1>8. CASE Reverify
  <2>1. TypeOK'
    BY <1>8 DEF Reverify, TypeOK, Stages, Checking, Recovering, Flagged
  <2>2. Checked' /\ Recovered' /\ Aimed' /\ Quiet' /\ Timed' /\ QuietRecovery'
    BY <1>8
    DEF Reverify, Checked, Recovered, Aimed, Fresh, Quiet, Timed, QuietRecovery, Recovering
  <2> QED
    BY <2>1, <2>2
<1> QED
  BY <1>1, <1>2, <1>3, <1>4, <1>5, <1>6, <1>7, <1>8

\* A command that fails, and the next session.
LEMMA EndInvariant ==
    ASSUME IInv, Flagged', CommandFails \/ Again
    PROVE  IInv'
<1> USE DEF IInv, Fail, host, links, plan, history
<1>1. CASE CommandFails
  <2>1. TypeOK'
    BY <1>1 DEF CommandFails, TypeOK, Stages, Checking, Recovering, Flagged
  <2>2. Checked' /\ Recovered' /\ Aimed' /\ Quiet' /\ Timed' /\ QuietRecovery'
    BY <1>1
    DEF CommandFails, Checked, Recovered, Aimed, Fresh, Quiet, Timed, QuietRecovery,
        Recovering
  <2> QED
    BY <2>1, <2>2
<1>2. CASE Again
  <2>1. TypeOK'
    BY <1>2 DEF Again, TypeOK, Stages, Flagged
  <2>2. Checked' /\ Recovered' /\ Aimed' /\ Quiet' /\ Timed' /\ QuietRecovery'
    BY <1>2 DEF Again, Checked, Recovered, Aimed, Fresh, Quiet, Timed, QuietRecovery, Recovering
  <2> QED
    BY <2>1, <2>2
<1> QED
  BY <1>1, <1>2

\* The host, and the clock: after either, nothing is claimed but types.
LEMMA HostInvariant ==
    ASSUME IInv, Flagged', Host \/ Expire
    PROVE  IInv'
<1> USE DEF IInv, host, links, plan, history
<1>1. CASE Host
  <2>1. def' \in Routes \cup {NoRoute}
    <3>1. Selectable \subseteq Routes \cup {NoRoute}
      BY SelectableRoutes
    <3>2. CASE VpnUp
      BY <3>2 DEF VpnUp, TypeOK, Routes, Route, Interfaces
    <3>3. CASE VpnDown \/ Select
      BY <3>1, <3>3 DEF VpnDown, Select, TypeOK
    <3>4. CASE LinkChanges \/ RouterChanges \/ LeaseChanges
      BY <3>4 DEF LinkChanges, RouterChanges, LeaseChanges, TypeOK
    <3> QED
      BY <1>1, <3>2, <3>3, <3>4 DEF Host
  <2>2. /\ active' \in SUBSET Physical /\ addressed' \in SUBSET Physical
        /\ router' \in [Physical \cup {Owned} -> Gateways]
    BY <1>1
    DEF Host, VpnUp, VpnDown, Select, LinkChanges, RouterChanges, LeaseChanges, TypeOK,
        links, Toggled
  <2>3. disturbed' /\ UNCHANGED <<pc, plan, current, expired, failed>>
    BY <1>1 DEF Host
  <2>4. ~raced' => ~raced /\ UNCHANGED <<def, vpn>>
    BY <1>1 DEF Host
  <2>5. ~moved' => ~moved /\ UNCHANGED links
    BY <1>1 DEF Host
  <2>6. TypeOK'
    BY <2>1, <2>2, <2>3 DEF TypeOK, Flagged
  <2>7. Checked' /\ Recovered'
    BY <2>3, <2>4 DEF Checked, Recovered, Permits, Via
  <2>8. Aimed'
    BY <2>3, <2>5 DEF Aimed, Fresh, links
  <2>9. Quiet' /\ Timed' /\ QuietRecovery'
    BY <2>3 DEF Quiet, Timed, QuietRecovery
  <2> QED
    BY <2>6, <2>7, <2>8, <2>9
<1>2. CASE Expire
  <2>1. /\ pc \in Recovering /\ disturbed'
        /\ UNCHANGED <<host, plan, current, pc, failed, raced, moved>>
    BY <1>2 DEF Expire
  <2>2. TypeOK'
    BY <2>1 DEF TypeOK, Flagged
  <2>3. Checked' /\ Recovered' /\ Aimed'
    BY <2>1 DEF Checked, Recovered, Aimed, Fresh, Permits, Via
  <2>4. Quiet' /\ Timed' /\ QuietRecovery'
    BY <2>1 DEF Quiet, Timed, QuietRecovery
  <2> QED
    BY <2>2, <2>3, <2>4
<1> QED
  BY <1>1, <1>2

-----------------------------------------------------------------------------
(* The theorems.                                                            *)

\* The inductive invariant: what the check and the recovery know, as long as
\* the host does not change.
THEOREM Invariance == Spec => []IInv
<1>1. IInv /\ [Next]_vars => IInv'
  <2> SUFFICES ASSUME IInv, [Next]_vars PROVE IInv'
    OBVIOUS
  <2>1. CASE UNCHANGED vars
    BY <2>1, StutterInvariant
  <2>2. CASE Next
    <3>1. Flagged'
      BY <2>2, Flags DEF IInv, Flagged
    <3> QED
      BY <2>2, <3>1, CheckInvariant, RecoveryInvariant, EndInvariant, HostInvariant
      DEF Next, Supervisor
  <2> QED
    BY <2>1, <2>2
<1> QED
  BY <1>1, InitInvariant, PTL DEF Spec

\* Type correctness.
THEOREM TypeCorrect == Spec => []TypeOK
<1>1. IInv => TypeOK
  BY DEF IInv
<1> QED
  BY <1>1, Invariance, PTL

\* A recovery that nobody disturbs ends well, with a default that is not ours.
THEOREM QuietRecoveryHolds == Spec => []QuietRecovery
<1>1. IInv => QuietRecovery
  BY DEF IInv
<1> QED
  BY <1>1, Invariance, PTL

\* Only these two steps write.
LEMMA Writers ==
    ASSUME IInv, Next, NEW stage, stage \in {"Write", "Rewrite"}, Wrote(stage)
    PROVE  /\ stage = "Write" => ApplyWrite
           /\ stage = "Rewrite" => Rewrite
<1> USE DEF Wrote, Goto, Fail, host, links, plan, history
<1>1. ~(Host \/ Expire \/ CommandFails \/ Again)
  BY DEF Host, Expire, CommandFails, Again
<1>2. ~(\/ TakeSnapshot \/ Due \/ Leave \/ AskLease \/ ReadCurrent \/ Decide
        \/ ApplyRead \/ ApplyCheck \/ Verify \/ Remove)
  BY DEF TakeSnapshot, Due, Leave, AskLease, ReadCurrent, Decide, ApplyRead, ApplyCheck,
         Verify, Remove, Read
<1>3. ~(\/ RestoreStart \/ RestoreRead \/ RestoreTable \/ Judge
        \/ CheckActive \/ CheckAddress \/ AskAddress \/ AskRouter \/ AskScoped
        \/ Reread \/ RereadTable \/ Reverify \/ Sleep)
  BY DEF RestoreStart, RestoreRead, RestoreTable, Judge, CheckActive, CheckAddress,
         AskAddress, AskRouter, AskScoped, Reread,
         RereadTable, Reverify, Sleep, Read
<1>4. ApplyWrite => pc = "Write"
  BY DEF ApplyWrite, Write
<1>5. Rewrite => pc = "Rewrite"
  BY DEF Rewrite, Write
<1> QED
  BY <1>1, <1>2, <1>3, <1>4, <1>5 DEF Next, Supervisor

\* Unless the default or the table changed between the look and the write, no
\* write replaces a VPN's route, recovery replaces only what it may, and the
\* default a session replaces is the one recovery falls back to.  Unless its
\* link, its address or its router changed since recovery asked for the link,
\* the interface fallen back to has all three as they are written.
THEOREM HonestWritesHolds == Spec => HonestWrites
<1>1. ASSUME IInv, Next, Wrote("Write"), ~raced
      PROVE  ~vpn /\ (Via(def, Physical) => previous = def)
  BY <1>1 DEF Wrote, IInv, Checked
<1>2. ASSUME IInv, Next, Wrote("Rewrite"), ~raced
      PROVE  ~vpn /\ Permits(def)
  BY <1>2 DEF Wrote, IInv, Recovered
<1>3. ASSUME IInv, Next, Wrote("Rewrite"), ~moved
      PROVE  /\ previous.interface \in active \cap addressed
             /\ def' = Route(previous.interface, router[previous.interface])
  <2>1. Rewrite
    BY <1>3, Writers
  <2>2. def' = target
    BY <1>3, <2>1 DEF Rewrite, Write, Wrote
  <2> QED
    BY <1>3, <2>2 DEF Wrote, IInv, Aimed, Fresh
<1> DEFINE Replaces == (Wrote("Write") \/ Wrote("Rewrite")) /\ ~raced =>
                           ~vpn /\ (pc = "Rewrite" => Permits(def))
           Freshly  == Wrote("Rewrite") /\ ~moved =>
                           /\ previous.interface \in active \cap addressed
                           /\ def' = Route(previous.interface, router[previous.interface])
           Remembers == Wrote("Write") /\ ~raced /\ Via(def, Physical) => previous = def
<1>4. IInv /\ [Next]_vars => [Replaces]_vars /\ [Freshly]_vars /\ [Remembers]_vars
  <2> SUFFICES ASSUME IInv, [Next]_vars
      PROVE  [Replaces]_vars /\ [Freshly]_vars /\ [Remembers]_vars
    OBVIOUS
  <2>1. CASE UNCHANGED vars
    BY <2>1
  <2>2. CASE Next
    <3>1. Wrote("Write") => pc = "Write"
      BY DEF Wrote
    <3> QED
      BY <1>1, <1>2, <1>3, <2>2, <3>1
  <2> QED
    BY <2>1, <2>2
<1> QED
  BY <1>4, Invariance, PTL
  DEF Spec, HonestWrites, ReplacesWhatItSaw, FreshGateway, FallbackRemembered
=============================================================================
