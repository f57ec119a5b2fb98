---------------------------- MODULE Bridge_proofs ---------------------------
(* Theorems about the supervisor of module Bridge, for every set of units,  *)
(* every limit and both modes.                                              *)
EXTENDS Bridge, TLAPS

-----------------------------------------------------------------------------
(* Types.  The Boolean variables come first: the other conjuncts of the     *)
(* type invariant then need no case analysis on them.                       *)

\* Every step assigns truth values to the flags.
LEMMA SupervisorFlags == Flags /\ Supervisor => Flags'
<1> SUFFICES ASSUME Flags, Supervisor PROVE Flags'
    OBVIOUS
<1> USE DEF Flags, vars, control, locals, removal, kernel, process, clock,
        LeaveBehind, Goto, Return, Leave
<1>1. CASE Check BY <1>1 DEF Check
<1>2. CASE ProbeFound BY <1>2 DEF ProbeFound
<1>3. CASE ProbeMissed BY <1>3 DEF ProbeMissed
<1>4. CASE Pause BY <1>4 DEF Pause
<1>5. CASE TakeSnapshot BY <1>5 DEF TakeSnapshot
<1>6. CASE CreateSystem BY <1>6 DEF CreateSystem, Create
<1>7. CASE CreateTransport BY <1>7 DEF CreateTransport, Create
<1>8. CASE OpenBpf BY <1>8 DEF OpenBpf
<1>9. CASE Spawn BY <1>9 DEF Spawn
<1>10. CASE Poll BY <1>10 DEF Poll
<1>11. CASE Wait BY <1>11 DEF Wait
<1>12. CASE ReceiveDone BY <1>12 DEF ReceiveDone
<1>13. CASE ReceiveReady BY <1>13 DEF ReceiveReady, Receiving, Receive1
<1>14. CASE Inject BY <1>14 DEF Inject, Receiving, Receive1
<1>15. CASE Refuse BY <1>15 DEF Refuse, Receiving, Receive1
<1>16. CASE Reject BY <1>16 DEF Reject, Receiving, Receive1
<1>17. CASE Activate BY <1>17 DEF Activate, Configured
<1>18. CASE ActivateDhcp BY <1>18 DEF ActivateDhcp, Request
<1>19. CASE Transmit BY <1>19 DEF Transmit
<1>20. CASE NetworkSkipped BY <1>20 DEF NetworkSkipped
<1>21. CASE NetworkLeased BY <1>21 DEF NetworkLeased
<1>22. CASE NetworkUnleased BY <1>22 DEF NetworkUnleased, Request
<1>23. CASE StopWorker BY <1>23 DEF StopWorker
<1>24. CASE CloseBpf BY <1>24 DEF CloseBpf
<1>25. CASE TakeNames BY <1>25 DEF TakeNames
<1>26. CASE Withdraw BY <1>26 DEF Withdraw
<1>27. CASE DestroyTransport BY <1>27 DEF DestroyTransport, Destroy
<1>28. CASE DestroySystem BY <1>28 DEF DestroySystem, Destroy
<1>29. CASE Restore BY <1>29 DEF Restore
<1>30. CASE Close BY <1>30 DEF Close
<1>31. QED
    BY <1>1, <1>2, <1>3, <1>4, <1>5, <1>6, <1>7, <1>8, <1>9, <1>10, <1>11,
       <1>12, <1>13, <1>14, <1>15, <1>16, <1>17, <1>18, <1>19, <1>20, <1>21,
       <1>22, <1>23, <1>24, <1>25, <1>26, <1>27, <1>28, <1>29, <1>30
       DEF Supervisor

\* So does every step of its environment.
LEMMA EnvironmentFlags == Flags /\ Environment => Flags'
<1> SUFFICES ASSUME Flags, Environment PROVE Flags'
    OBVIOUS
<1> USE DEF Flags, vars, control, locals, removal, kernel, process, clock,
        LeaveBehind, Goto, Return, Leave
<1>1. CASE Signal BY <1>1 DEF Signal
<1>2. CASE WorkerSend BY <1>2 DEF WorkerSend
<1>3. CASE WorkerTake BY <1>3 DEF WorkerTake
<1>4. CASE WorkerExit BY <1>4 DEF WorkerExit
<1>5. CASE ForeignCreate BY <1>5 DEF ForeignCreate
<1>6. CASE ForeignDestroy BY <1>6 DEF ForeignDestroy
<1>7. CASE DeadlinePasses BY <1>7 DEF DeadlinePasses
<1>8. CASE IntervalPasses BY <1>8 DEF IntervalPasses
<1>9. CASE LeaseChanges BY <1>9 DEF LeaseChanges
<1>10. CASE Crash BY <1>10 DEF Crash
<1>11. QED
    BY <1>1, <1>2, <1>3, <1>4, <1>5, <1>6, <1>7, <1>8, <1>9, <1>10
       DEF Environment

\* Every step of the supervisor preserves the type invariant.
LEMMA SupervisorTyped == TypeOK /\ Supervisor => TypeOK'
<1> SUFFICES ASSUME TypeOK, Supervisor PROVE TypeOK'
    OBVIOUS
<1> Flags'
    BY SupervisorFlags DEF TypeOK
<1> USE BridgeAssumption DEF TypeOK, Pairs, NoPair, Kinds, Stages, Idle, Building,
        Serving, Closing, Stopping, Removing, vars, control, locals, removal,
        kernel, process, clock, LeaveBehind, Goto, Return, Leave
<1>1. CASE Check BY <1>1 DEF Check
<1>2. CASE ProbeFound BY <1>2 DEF ProbeFound
<1>3. CASE ProbeMissed BY <1>3 DEF ProbeMissed
<1>4. CASE Pause BY <1>4 DEF Pause
<1>5. CASE TakeSnapshot BY <1>5 DEF TakeSnapshot
<1>6. CASE CreateSystem BY <1>6 DEF CreateSystem, Create
<1>7. CASE CreateTransport BY <1>7 DEF CreateTransport, Create
<1>8. CASE OpenBpf BY <1>8 DEF OpenBpf
<1>9. CASE Spawn BY <1>9 DEF Spawn
<1>10. CASE Poll
  <2>1. pc' \in {"Wait", "StopWorker"} /\ outcome' \in {"ok", "error"}
    BY <1>10 DEF Poll
  <2>2. worker' \in {"none", "live", "zombie"}
    BY <1>10 DEF Poll
  <2>3. QED
    BY <1>10, <2>1, <2>2 DEF Poll
<1>11. CASE Wait
  <2>1. pc' \in {"Poll", "Receive", "StopWorker"} /\ outcome' \in {"ok", "error"}
    BY <1>11 DEF Wait
  <2>2. events' \in SUBSET {"socket", "bpf"} /\ batch' \in {batch, 0}
    BY <1>11 DEF Wait
  <2>3. QED
    BY <1>11, <2>1, <2>2 DEF Wait
<1>12. CASE ReceiveDone BY <1>12 DEF ReceiveDone
<1>13. CASE ReceiveReady BY <1>13 DEF ReceiveReady, Receiving, Receive1
<1>14. CASE Inject BY <1>14 DEF Inject, Receiving, Receive1
<1>15. CASE Refuse BY <1>15 DEF Refuse, Receiving, Receive1
<1>16. CASE Reject BY <1>16 DEF Reject, Receiving, Receive1
<1>17. CASE Activate BY <1>17 DEF Activate, Configured
<1>18. CASE ActivateDhcp BY <1>18 DEF ActivateDhcp, Request
<1>19. CASE Transmit BY <1>19 DEF Transmit
<1>20. CASE NetworkSkipped BY <1>20 DEF NetworkSkipped
<1>21. CASE NetworkLeased
  <2>1. failures' = 0 \/ failures' = failures
    BY <1>21 DEF NetworkLeased
  <2>2. pc' \in {"Poll", "StopWorker"} /\ outcome' \in {outcome, "error"}
    BY <1>21 DEF NetworkLeased
  <2>3. QED
    BY <1>21, <2>1, <2>2 DEF NetworkLeased
<1>22. CASE NetworkUnleased
  <2>1. failures \in 0 .. Failures - 1 /\ failures' = failures + 1
    BY <1>22 DEF NetworkUnleased
  <2>2. pc' # "StopWorker" => failures' < Failures
    BY <1>22, <2>1 DEF NetworkUnleased, Request
  <2>3. pc' \in Stages /\ outcome' \in {"ok", "error"}
    BY <1>22 DEF NetworkUnleased, Request
  <2>4. service' \in SUBSET (Names \cup {NoName})
    BY <1>22 DEF NetworkUnleased, Request
  <2>5. QED
    BY <1>22, <2>1, <2>2, <2>3, <2>4 DEF NetworkUnleased
<1>23. CASE StopWorker BY <1>23 DEF StopWorker
<1>24. CASE CloseBpf BY <1>24 DEF CloseBpf
<1>25. CASE TakeNames BY <1>25 DEF TakeNames
<1>26. CASE Withdraw BY <1>26 DEF Withdraw
<1>27. CASE DestroyTransport BY <1>27 DEF DestroyTransport, Destroy
<1>28. CASE DestroySystem BY <1>28 DEF DestroySystem, Destroy
<1>29. CASE Restore BY <1>29 DEF Restore
<1>30. CASE Close BY <1>30 DEF Close
<1>31. QED
    BY <1>1, <1>2, <1>3, <1>4, <1>5, <1>6, <1>7, <1>8, <1>9, <1>10, <1>11,
       <1>12, <1>13, <1>14, <1>15, <1>16, <1>17, <1>18, <1>19, <1>20, <1>21,
       <1>22, <1>23, <1>24, <1>25, <1>26, <1>27, <1>28, <1>29, <1>30
       DEF Supervisor

\* The environment preserves the type invariant, too.
LEMMA EnvironmentTyped == TypeOK /\ Environment => TypeOK'
<1> SUFFICES ASSUME TypeOK, Environment PROVE TypeOK'
    OBVIOUS
<1> Flags'
    BY EnvironmentFlags DEF TypeOK
<1> USE BridgeAssumption DEF TypeOK, Pairs, NoPair, Kinds, Stages, Idle, Building,
        Serving, Closing, Stopping, Removing, vars, control, locals, removal,
        kernel, process, clock
<1>1. CASE Signal BY <1>1 DEF Signal
<1>2. CASE WorkerSend BY <1>2 DEF WorkerSend
<1>3. CASE WorkerTake BY <1>3 DEF WorkerTake
<1>4. CASE WorkerExit BY <1>4 DEF WorkerExit
<1>5. CASE ForeignCreate BY <1>5 DEF ForeignCreate
<1>6. CASE ForeignDestroy BY <1>6 DEF ForeignDestroy
<1>7. CASE DeadlinePasses BY <1>7 DEF DeadlinePasses
<1>8. CASE IntervalPasses BY <1>8 DEF IntervalPasses
<1>9. CASE LeaseChanges BY <1>9 DEF LeaseChanges
<1>10. CASE Crash BY <1>10 DEF Crash
<1>11. QED
    BY <1>1, <1>2, <1>3, <1>4, <1>5, <1>6, <1>7, <1>8, <1>9, <1>10
       DEF Environment

\* So does the initial state.
LEMMA TypeInitially == Init => TypeOK
<1>1. Init => Flags
    BY DEF Init, Flags
<1>2. Init => iface \in [Names -> {"free", "owned", "foreign"}]
    BY DEF Init
<1>3. QED
    BY <1>1, <1>2, BridgeAssumption
       DEF Init, TypeOK, Pairs, NoPair, Kinds, Stages, Idle

\* Type correctness of the whole system.
THEOREM TypeCorrect == Spec => []TypeOK
<1>1. Init => TypeOK
    BY TypeInitially
<1>2. TypeOK /\ UNCHANGED vars => TypeOK'
    BY DEF TypeOK, Flags, vars, control, locals, removal, kernel, process, clock
<1>3. TypeOK /\ [Next]_vars => TypeOK'
    BY <1>2, SupervisorTyped, EnvironmentTyped DEF Next
<1>4. QED
    BY <1>1, <1>3, PTL DEF Spec

-----------------------------------------------------------------------------
(* The inductive invariant.                                                 *)

IInv == TypeOK /\ WithdrawnFirst /\ Ownership /\ Staging

\* Every stage holds what it should; only the stage and the flags matter.
LEMMA SupervisorStaged == IInv /\ Supervisor => Staging'
<1> SUFFICES ASSUME IInv, Supervisor PROVE Staging'
    OBVIOUS
<1> USE BridgeAssumption DEF IInv, TypeOK, Flags, Staging, Stages, Idle, Building,
        Serving, Closing, Stopping, Removing, vars, control, locals, removal,
        kernel, process, clock, Goto, Return, Leave, NoPair, Pairs
<1>1. CASE Check BY <1>1 DEF Check
<1>2. CASE ProbeFound BY <1>2 DEF ProbeFound
<1>3. CASE ProbeMissed BY <1>3 DEF ProbeMissed
<1>4. CASE Pause BY <1>4 DEF Pause
<1>5. CASE TakeSnapshot BY <1>5 DEF TakeSnapshot
<1>6. CASE CreateSystem BY <1>6 DEF CreateSystem, Create
<1>7. CASE CreateTransport BY <1>7 DEF CreateTransport, Create
<1>8. CASE OpenBpf BY <1>8 DEF OpenBpf
<1>9. CASE Spawn BY <1>9 DEF Spawn
<1>10. CASE Poll BY <1>10 DEF Poll
<1>11. CASE Wait BY <1>11 DEF Wait
<1>12. CASE ReceiveDone BY <1>12 DEF ReceiveDone
<1>13. CASE ReceiveReady BY <1>13 DEF ReceiveReady, Receiving, Receive1
<1>14. CASE Inject BY <1>14 DEF Inject, Receiving, Receive1
<1>15. CASE Refuse BY <1>15 DEF Refuse, Receiving, Receive1
<1>16. CASE Reject BY <1>16 DEF Reject, Receiving, Receive1
<1>17. CASE Activate BY <1>17 DEF Activate, Configured
<1>18. CASE ActivateDhcp BY <1>18 DEF ActivateDhcp, Request
<1>19. CASE Transmit BY <1>19 DEF Transmit
<1>20. CASE NetworkSkipped BY <1>20 DEF NetworkSkipped
<1>21. CASE NetworkLeased BY <1>21 DEF NetworkLeased
<1>22. CASE NetworkUnleased BY <1>22 DEF NetworkUnleased, Request
<1>23. CASE StopWorker BY <1>23 DEF StopWorker
<1>24. CASE CloseBpf BY <1>24 DEF CloseBpf
<1>25. CASE TakeNames BY <1>25 DEF TakeNames
<1>26. CASE Withdraw BY <1>26 DEF Withdraw
<1>27. CASE DestroyTransport BY <1>27 DEF DestroyTransport, Destroy
<1>28. CASE DestroySystem BY <1>28 DEF DestroySystem, Destroy
<1>29. CASE Restore BY <1>29 DEF Restore
<1>30. CASE Close BY <1>30 DEF Close
<1>31. QED
    BY <1>1, <1>2, <1>3, <1>4, <1>5, <1>6, <1>7, <1>8, <1>9, <1>10, <1>11,
       <1>12, <1>13, <1>14, <1>15, <1>16, <1>17, <1>18, <1>19, <1>20, <1>21,
       <1>22, <1>23, <1>24, <1>25, <1>26, <1>27, <1>28, <1>29, <1>30
       DEF Supervisor

\* Signals, the worker, the clocks, other programs and a crash leave every
\* stage with what it holds.
LEMMA EnvironmentStaged == IInv /\ Environment => Staging'
<1> SUFFICES ASSUME IInv, Environment PROVE Staging'
    OBVIOUS
<1> USE BridgeAssumption DEF IInv, TypeOK, Flags, Staging, Ownership, Owned, Held,
        Stages, Idle, Building, Serving, Closing, Stopping, Removing, vars,
        control, locals, removal, kernel, process, clock, NoPair, Pairs
<1>1. CASE Signal BY <1>1 DEF Signal
<1>2. CASE WorkerSend BY <1>2 DEF WorkerSend
<1>3. CASE WorkerTake BY <1>3 DEF WorkerTake
<1>4. CASE WorkerExit BY <1>4 DEF WorkerExit
<1>5. CASE ForeignCreate BY <1>5 DEF ForeignCreate
<1>6. CASE ForeignDestroy BY <1>6 DEF ForeignDestroy
<1>7. CASE DeadlinePasses BY <1>7 DEF DeadlinePasses
<1>8. CASE IntervalPasses BY <1>8 DEF IntervalPasses
<1>9. CASE LeaseChanges BY <1>9 DEF LeaseChanges
<1>10. CASE Crash BY <1>10 DEF Crash
<1>11. QED
    BY <1>1, <1>2, <1>3, <1>4, <1>5, <1>6, <1>7, <1>8, <1>9, <1>10
       DEF Environment

\* A step that touches neither interfaces nor names keeps their ownership.
LEMMA OwnershipKept ==
    ASSUME IInv, UNCHANGED <<iface, leaked, pair, taken>>,
           pc # "DestroySystem", pc' # "DestroySystem"
    PROVE  Ownership'
BY DEF IInv, Ownership, Owned, Held

\* The supervisor's interfaces are always those it holds and those it gave up.
LEMMA SupervisorOwns == IInv /\ Supervisor => Ownership'
<1> SUFFICES ASSUME IInv, Supervisor PROVE Ownership'
    OBVIOUS
<1> USE DEF locals, removal, kernel, Goto, Return, Leave
<1>1. CASE CreateSystem \/ CreateTransport
    BY <1>1, BridgeAssumption
       DEF CreateSystem, CreateTransport, Create, IInv, TypeOK, Pairs, NoPair,
           Ownership, Staging, Owned, Held, Building, Serving, Idle, Removing
<1>2. CASE TakeNames
    BY <1>2 DEF TakeNames, IInv, Ownership, Staging, Owned, Held, NoPair, Removing
<1>3. CASE DestroyTransport
    BY <1>3, BridgeAssumption
       DEF DestroyTransport, Destroy, IInv, TypeOK, Pairs, NoPair, Ownership,
           Staging, Owned, Held, Removing
<1>4. CASE DestroySystem
    BY <1>4, BridgeAssumption
       DEF DestroySystem, Destroy, IInv, TypeOK, Pairs, NoPair, Ownership,
           Staging, Owned, Held, Removing
<1>5. CASE Check \/ ProbeFound \/ ProbeMissed \/ Pause \/ TakeSnapshot \/ OpenBpf
           \/ Spawn \/ Poll \/ Wait
    BY <1>5, OwnershipKept
       DEF Check, ProbeFound, ProbeMissed, Pause, TakeSnapshot, OpenBpf, Spawn,
           Poll, Wait
<1>6. CASE ReceiveDone \/ ReceiveReady \/ Inject \/ Refuse \/ Reject
    BY <1>6, OwnershipKept
       DEF ReceiveDone, ReceiveReady, Inject, Refuse, Reject, Receiving, control
<1>7. CASE Activate \/ ActivateDhcp \/ Transmit \/ NetworkSkipped
           \/ NetworkLeased \/ NetworkUnleased
    BY <1>7, OwnershipKept
       DEF Activate, ActivateDhcp, Request, Transmit, NetworkSkipped,
           NetworkLeased, NetworkUnleased, control
<1>8. CASE StopWorker \/ CloseBpf \/ Withdraw \/ Restore \/ Close
    BY <1>8, OwnershipKept DEF StopWorker, CloseBpf, Withdraw, Restore, Close
<1>9. QED
    BY <1>1, <1>2, <1>3, <1>4, <1>5, <1>6, <1>7, <1>8 DEF Supervisor

\* Other programs take free units only, and a crash gives up whatever exists.
LEMMA EnvironmentOwns == IInv /\ Environment => Ownership'
<1> SUFFICES ASSUME IInv, Environment PROVE Ownership'
    OBVIOUS
<1>1. CASE ForeignCreate \/ ForeignDestroy
  <2>1. Owned' = Owned
    BY <1>1 DEF ForeignCreate, ForeignDestroy, Owned, IInv, TypeOK
  <2>2. Held' = Held
    BY <1>1 DEF ForeignCreate, ForeignDestroy, Held, control, locals, removal
  <2>3. QED
    BY <1>1, <2>1, <2>2
       DEF ForeignCreate, ForeignDestroy, IInv, Ownership, locals, removal
<1>2. CASE Crash
    BY <1>2 DEF Crash, Ownership, Owned, Held, NoPair
<1>3. CASE Environment /\ ~ForeignCreate /\ ~ForeignDestroy /\ ~Crash
  <2>1. UNCHANGED <<iface, leaked, pair, taken, pc>>
    BY <1>3 DEF Environment, Signal, WorkerSend, WorkerTake, WorkerExit,
           DeadlinePasses, IntervalPasses, LeaseChanges, control, locals,
           removal, kernel
  <2>2. Owned' = Owned /\ Held' = Held
    BY <2>1 DEF Owned, Held
  <2>3. QED
    BY <2>1, <2>2 DEF IInv, Ownership
<1>4. QED
    BY <1>1, <1>2, <1>3

\* The DHCP service goes before the interface that carries it.
LEMMA WithdrawnFirstKept == IInv /\ [Next]_vars => WithdrawnFirst'
<1> SUFFICES ASSUME IInv, [Next]_vars PROVE WithdrawnFirst'
    OBVIOUS
<1>1. CASE Withdraw
    BY <1>1 DEF Withdraw, WithdrawnFirst, Goto
<1>2. CASE DestroyTransport
    BY <1>2 DEF DestroyTransport, Destroy, WithdrawnFirst, IInv, Goto, removal
<1>3. CASE ForeignCreate \/ ForeignDestroy
  <2>1. taken.system # NoName => iface[taken.system] = "owned"
    BY DEF IInv, Ownership, Owned, Held
  <2>2. \A n \in service' : n \in service \/ (n \in Names /\ iface[n] = "free")
    BY <1>3 DEF ForeignCreate, ForeignDestroy
  <2>3. taken.system \in service' => taken.system \in service
    BY <2>1, <2>2, BridgeAssumption
  <2>4. UNCHANGED <<pc, taken, failure>>
    BY <1>3 DEF ForeignCreate, ForeignDestroy, control, removal
  <2>5. QED
    BY <2>3, <2>4 DEF IInv, WithdrawnFirst
<1>4. CASE \/ Supervisor /\ ~Withdraw /\ ~DestroyTransport
           \/ Crash
  <2>1. pc' \notin {"DestroyTransport", "DestroySystem"}
    BY <1>4 DEF Supervisor, Check, ProbeFound, ProbeMissed, Pause, TakeSnapshot,
           CreateSystem, CreateTransport, Create, OpenBpf, Spawn, Poll, Wait,
           ReceiveDone, ReceiveReady, Inject, Refuse, Reject, Receiving, Activate,
           ActivateDhcp, Request, Transmit, NetworkSkipped, NetworkLeased,
           NetworkUnleased, StopWorker, CloseBpf, TakeNames, DestroySystem,
           Restore, Close, Crash, Goto, Return, Leave, control
  <2>2. QED
    BY <2>1 DEF WithdrawnFirst
<1>5. CASE Environment /\ ~ForeignCreate /\ ~ForeignDestroy /\ ~Crash
  <2>1. UNCHANGED <<service, failure, taken, pc>>
    BY <1>5 DEF Environment, Signal, WorkerSend, WorkerTake, WorkerExit,
           DeadlinePasses, IntervalPasses, LeaseChanges, control, removal, kernel
  <2>2. QED
    BY <2>1 DEF IInv, WithdrawnFirst
<1>6. CASE UNCHANGED vars
    BY <1>6 DEF vars, control, removal, kernel, IInv, WithdrawnFirst
<1>7. QED
    BY <1>1, <1>2, <1>3, <1>4, <1>5, <1>6 DEF Next

\* The invariant is inductive.
THEOREM Invariance == Spec => []IInv
<1>1. Init => IInv
  <2>1. Init => TypeOK
    BY TypeInitially
  <2>2. Init => WithdrawnFirst /\ Staging
    BY DEF Init, WithdrawnFirst, Staging, Idle, Building, Serving, Closing,
           Stopping, Removing, NoPair
  <2>3. Init => Ownership
    BY DEF Init, Ownership, Owned, Held, NoPair
  <2>4. QED
    BY <2>1, <2>2, <2>3 DEF IInv
<1>2. IInv /\ [Next]_vars => IInv'
  <2> SUFFICES ASSUME IInv, [Next]_vars PROVE IInv'
    OBVIOUS
  <2>1. CASE Supervisor
    BY <2>1, SupervisorTyped, SupervisorStaged, SupervisorOwns, WithdrawnFirstKept
       DEF IInv
  <2>2. CASE Environment
    BY <2>2, EnvironmentTyped, EnvironmentStaged, EnvironmentOwns, WithdrawnFirstKept
       DEF IInv
  <2>3. CASE UNCHANGED vars
    BY <2>3 DEF IInv, TypeOK, Flags, WithdrawnFirst, Ownership, Owned, Held, Staging,
           vars, control, locals, removal, kernel, process, clock
  <2>4. QED
    BY <2>1, <2>2, <2>3 DEF Next
<1>3. QED
    BY <1>1, <1>2, PTL DEF Spec

-----------------------------------------------------------------------------
(* What follows from it.                                                    *)

\* Our interfaces are exactly those the supervisor holds or gave up on.
THEOREM OwnershipHolds == Spec => []Ownership
<1>1. IInv => Ownership
    BY DEF IInv
<1>2. QED
    BY <1>1, Invariance, PTL

\* No USB frame can arrive while IPConfiguration removes the service.
THEOREM QuietRemovalHolds == Spec => []QuietRemoval
<1>1. IInv => QuietRemoval
    BY DEF IInv, TypeOK, Staging, QuietRemoval, Serving, Stopping, Removing
<1>2. QED
    BY <1>1, Invariance, PTL

\* The DHCP service is withdrawn before its device is destroyed.
THEOREM WithdrawnFirstHolds == Spec => []WithdrawnFirst
<1>1. IInv => WithdrawnFirst
    BY DEF IInv
<1>2. QED
    BY <1>1, Invariance, PTL

\* Fallback routing starts only after the removal of the pair.
THEOREM RecoveryAfterRemovalHolds == Spec => []RecoveryAfterRemoval
<1>1. IInv => RecoveryAfterRemoval
    BY DEF IInv, Staging, Ownership, Held, RecoveryAfterRemoval, NoPair,
           Removing, Idle, Building
<1>2. QED
    BY <1>1, Invariance, PTL

\* The BPF device is bound to an interface of ours as long as it is open.
THEOREM AttachedToOwnedHolds == Spec => []AttachedToOwned
<1>1. IInv => AttachedToOwned
    BY DEF IInv, Staging, Ownership, Owned, Held, AttachedToOwned
<1>2. QED
    BY <1>1, Invariance, PTL

\* A session is taken down in the promised order.
THEOREM OrderedTeardownHolds == Spec => []OrderedTeardown
    BY QuietRemovalHolds, WithdrawnFirstHolds, RecoveryAfterRemovalHolds, AttachedToOwnedHolds,
       PTL DEF OrderedTeardown

\* Nothing of a session reaches the next one.
THEOREM CleanBetweenSessionsHolds == Spec => []CleanBetweenSessions
<1>1. IInv => CleanBetweenSessions
    BY DEF IInv, TypeOK, Staging, Ownership, Held, CleanBetweenSessions, NoPair,
           Idle, Building, Serving, Closing, Stopping, Removing
<1>2. QED
    BY <1>1, Invariance, PTL

\* No step of the supervisor destroys what another program created.
THEOREM ForeignUntouchedHolds == Spec => ForeignUntouched
<1>1. IInv /\ Supervisor =>
        \A n \in Names : iface[n] = "foreign" =>
            iface'[n] = "foreign" /\ (n \in service' <=> n \in service)
  <2> SUFFICES ASSUME IInv, Supervisor, NEW n \in Names, iface[n] = "foreign"
               PROVE  iface'[n] = "foreign" /\ (n \in service' <=> n \in service)
    OBVIOUS
  <2>1. n \notin Held
    BY DEF IInv, Ownership, Owned
  <2>2. CASE CreateSystem \/ CreateTransport
    BY <2>2 DEF CreateSystem, CreateTransport, Create, IInv, TypeOK
  <2>3. CASE ActivateDhcp \/ NetworkUnleased
    BY <2>1, <2>3, BridgeAssumption
       DEF ActivateDhcp, NetworkUnleased, Request, Held, kernel
  <2>4. CASE Withdraw
    BY <2>1, <2>4, BridgeAssumption DEF Withdraw, Held
  <2>5. CASE DestroyTransport \/ DestroySystem
    BY <2>1, <2>5, BridgeAssumption
       DEF DestroyTransport, DestroySystem, Destroy, Held, IInv, TypeOK
  <2>6. CASE /\ Supervisor /\ ~CreateSystem /\ ~CreateTransport /\ ~ActivateDhcp
             /\ ~NetworkUnleased /\ ~Withdraw /\ ~DestroyTransport /\ ~DestroySystem
    <3>1. UNCHANGED <<iface, service>>
      BY <2>6 DEF Supervisor, Check, ProbeFound, ProbeMissed, Pause, TakeSnapshot,
             OpenBpf, Spawn, Poll, Wait, ReceiveDone, ReceiveReady, Inject, Refuse,
             Reject, Activate, Transmit, NetworkSkipped, NetworkLeased, StopWorker,
             CloseBpf, TakeNames, Restore, Close, kernel
    <3>2. QED
      BY <3>1
  <2>7. QED
    BY <2>2, <2>3, <2>4, <2>5, <2>6
<1>2. QED
    BY <1>1, Invariance, PTL DEF ForeignUntouched

\* Frames cross only while the pair is fully configured.
THEOREM BridgedWhenActiveHolds == Spec => BridgedWhenActive
<1> DEFINE Active == /\ link = "up" /\ pair.system \in service \cap Owned
                     /\ pair.transport \in Owned /\ bpf = pair.transport
<1>1. IInv /\ pc \in Serving /\ ready => Active
    BY DEF IInv, Staging, Ownership, Owned, Held, Serving
<1>2. IInv /\ [Next]_vars /\ (Inject \/ toUsb' > toUsb) => pc \in Serving /\ ready
  <2> SUFFICES ASSUME IInv, [Next]_vars, Inject \/ toUsb' > toUsb
               PROVE  pc \in Serving /\ ready
    OBVIOUS
  <2>1. CASE Inject
    BY <2>1 DEF Inject, Receiving, Serving
  <2>2. CASE Transmit /\ toUsb' > toUsb
    BY <2>2 DEF Transmit, Serving, IInv, TypeOK
  <2>3. CASE Close \/ Crash \/ WorkerTake
    <3>1. ~(toUsb' > toUsb)
      BY <2>3, BridgeAssumption DEF Close, Crash, WorkerTake, IInv, TypeOK
    <3>2. CASE Inject
      BY <3>2 DEF Inject, Receiving, Serving
    <3>3. QED
      BY <3>1, <3>2
  <2>4. CASE [Next]_vars /\ ~Transmit /\ ~Close /\ ~Crash /\ ~WorkerTake
    <3>1. toUsb' = toUsb
      BY <2>4 DEF Next, Supervisor, Environment, Check, ProbeFound, ProbeMissed,
             Pause, TakeSnapshot, CreateSystem, CreateTransport, OpenBpf, Spawn,
             Poll, Wait, ReceiveDone, ReceiveReady, Inject, Refuse, Reject,
             Activate, ActivateDhcp, NetworkSkipped, NetworkLeased,
             NetworkUnleased, StopWorker, CloseBpf, TakeNames, Withdraw,
             DestroyTransport, DestroySystem, Restore, Signal, WorkerSend,
             WorkerExit, ForeignCreate, ForeignDestroy, DeadlinePasses,
             IntervalPasses, LeaseChanges, vars, process
    <3>2. CASE Inject
      BY <3>2 DEF Inject, Receiving, Serving
    <3>3. QED
      BY <3>1, <3>2 DEF IInv, TypeOK
  <2>5. QED
    BY <2>1, <2>2, <2>3, <2>4
<1>3. IInv /\ [Next]_vars => (Inject \/ toUsb' > toUsb => Active)
    BY <1>1, <1>2
<1>4. QED
    BY <1>3, Invariance, PTL DEF Spec, BridgedWhenActive

-----------------------------------------------------------------------------
(* The supervisor implements the sessions of module Session.                *)

\* The phase of each stage.
LEMMA PhaseOf ==
    ASSUME pc \in Stages
    PROVE  /\ Phase = "returned" <=> pc = "Returned"
           /\ Phase = "waiting" <=> pc \in Idle \ {"Returned"}
           /\ Phase = "building" <=> pc \in Building
           /\ Phase = "bridging" <=> pc \in Serving /\ ready
           /\ Phase = "serving" <=> pc \in Serving /\ ~ready
           /\ Phase = "recovering" <=> pc = "Restore"
           /\ Phase = "removing" <=> pc \in Closing \ {"Restore"} /\ connected
           /\ Phase = "discarding" <=> pc \in Closing \ {"Restore"} /\ ~connected
BY DEF Phase, Stages, Idle, Building, Serving, Closing, Stopping, Removing

\* The same, of the next state.
LEMMA PhaseOfNext ==
    ASSUME pc' \in Stages
    PROVE  /\ Phase' = "returned" <=> pc' = "Returned"
           /\ Phase' = "waiting" <=> pc' \in Idle \ {"Returned"}
           /\ Phase' = "building" <=> pc' \in Building
           /\ Phase' = "bridging" <=> pc' \in Serving /\ ready'
           /\ Phase' = "serving" <=> pc' \in Serving /\ ~ready'
           /\ Phase' = "recovering" <=> pc' = "Restore"
           /\ Phase' = "removing" <=> pc' \in Closing \ {"Restore"} /\ connected'
           /\ Phase' = "discarding" <=> pc' \in Closing \ {"Restore"} /\ ~connected'
BY DEF Phase, Stages, Idle, Building, Serving, Closing, Stopping, Removing

\* While it serves, a session is one of these two.
LEMMA ServingPhase ==
    ASSUME pc \in Serving
    PROVE  Phase = IF ready THEN "bridging" ELSE "serving"
BY DEF Phase, Serving, Idle, Building, Closing, Stopping, Removing

\* The same, of the next state.
LEMMA ServingPhaseNext ==
    ASSUME pc' \in Serving
    PROVE  Phase' = IF ready' THEN "bridging" ELSE "serving"
BY DEF Phase, Serving, Idle, Building, Closing, Stopping, Removing

\* A stage of the loop that neither ends the session nor announces it.
LEMMA LoopStutters ==
    ASSUME pc \in Serving, pc' \in Serving, UNCHANGED <<stop, outcome, ready>>
    PROVE  UNCHANGED Promise!vars
BY ServingPhase, ServingPhaseNext DEF Promise!vars

\* Leaving the loop is the end of a session that was built.
LEMMA LoopEnds ==
    ASSUME IInv, pc \in Serving, Leave("error") \/ (stop /\ Leave("ok")),
           UNCHANGED connected
    PROVE  Promise!End
<1>1. Phase \in {"serving", "bridging"}
    BY ServingPhase
<1>2. connected'
    BY DEF IInv, Staging
<1>3. Phase' = "removing"
    BY <1>2 DEF Leave, Phase, Serving, Idle, Building, Closing, Stopping
<1>4. QED
    BY <1>1, <1>3 DEF Promise!End, Promise!Move, Leave

\* Every step of the supervisor is a step of the abstract session, or none.
LEMMA SupervisorKeeps == IInv /\ IInv' /\ Supervisor => [Promise!Next]_Promise!vars
<1> SUFFICES ASSUME IInv, IInv', Supervisor PROVE [Promise!Next]_Promise!vars
    OBVIOUS
<1> USE DEF Goto, Return, Leave, Promise!Next, Promise!TakeDown, Promise!Move,
        Promise!vars
<1>1. pc \in Stages /\ pc' \in Stages
    BY DEF IInv, TypeOK
<1>2. CASE Check \/ ProbeFound \/ ProbeMissed \/ Pause
    BY <1>1, <1>2, PhaseOf, PhaseOfNext
       DEF Check, ProbeFound, ProbeMissed, Pause, Idle, Building, Promise!Begin,
           Promise!Return
<1>3. CASE TakeSnapshot \/ CreateSystem \/ CreateTransport \/ OpenBpf \/ Spawn
  <2>1. Phase = "building" /\ ~connected
    BY <1>1, <1>3, PhaseOf
       DEF IInv, Staging, TypeOK, Flags, TakeSnapshot, CreateSystem,
           CreateTransport, OpenBpf, Spawn, Building, Serving, Closing, Stopping,
           Removing
  <2>2. \/ pc' \in Building /\ outcome' = outcome
        \/ pc' = "Poll" /\ connected' /\ ~ready' /\ outcome' = outcome
        \/ pc' = "StopWorker" /\ ~connected' /\ outcome' = "error"
    <3>1. CASE Spawn
      BY <2>1, <3>1 DEF Spawn, IInv, Staging, Serving
    <3>2. CASE TakeSnapshot \/ CreateSystem \/ CreateTransport \/ OpenBpf
      BY <2>1, <3>2 DEF TakeSnapshot, CreateSystem, CreateTransport, Create,
             OpenBpf, locals, Building
    <3>3. QED
      BY <1>3, <3>1, <3>2
  <2>3. stop' = stop
    BY <1>3 DEF TakeSnapshot, CreateSystem, CreateTransport, Create, OpenBpf, Spawn
  <2>4. \/ Phase' = "building" /\ outcome' = outcome
        \/ Phase' = "serving" /\ outcome' = outcome
        \/ Phase' = "discarding" /\ outcome' = "error"
    BY <1>1, <2>2, PhaseOfNext DEF Serving, Closing, Stopping
  <2>5. QED
    BY <2>1, <2>3, <2>4 DEF Promise!Built, Promise!Abandon
<1>4. CASE Poll \/ Wait \/ ReceiveDone \/ ReceiveReady \/ Inject \/ Refuse \/ Reject
           \/ Activate \/ Transmit \/ NetworkSkipped \/ NetworkLeased
           \/ NetworkUnleased
  <2>1. pc \in Serving /\ UNCHANGED <<stop, connected, ready>>
    BY <1>4 DEF Poll, Wait, ReceiveDone, ReceiveReady, Inject, Refuse, Reject,
           Receiving, Activate, Transmit, NetworkSkipped, NetworkLeased,
           NetworkUnleased, Request, Serving, locals, control
  <2>2. \/ pc' \in Serving /\ outcome' = outcome
        \/ Leave("error") \/ (stop /\ Leave("ok"))
    BY <1>4 DEF Poll, Wait, ReceiveDone, ReceiveReady, Inject, Refuse, Reject,
           Receiving, Activate, Transmit, NetworkSkipped, NetworkLeased,
           NetworkUnleased, Request, Serving, locals, control
  <2>3. QED
    BY <2>1, <2>2, LoopStutters, LoopEnds
<1>5. CASE ActivateDhcp
  <2>1. pc \in Serving /\ ~ready /\ UNCHANGED <<stop, connected>>
    BY <1>5 DEF ActivateDhcp, Request, Serving, IInv, Staging
  <2>2. CASE pc' = "Receive" /\ outcome' = outcome
    <3>1. Phase = "serving" /\ Phase' = "bridging"
      BY <1>5, <2>1, <2>2, ServingPhase, ServingPhaseNext DEF ActivateDhcp, Serving
    <3>2. QED
      BY <2>1, <2>2, <3>1 DEF Promise!Announced
  <2>3. CASE Leave("error")
    BY <2>1, <2>3, LoopEnds
  <2>4. QED
    BY <1>5, <2>2, <2>3 DEF ActivateDhcp, Request
<1>6. CASE StopWorker \/ CloseBpf \/ TakeNames \/ Withdraw \/ DestroyTransport
           \/ DestroySystem \/ Restore \/ Close
  <2>1. CASE StopWorker \/ CloseBpf \/ TakeNames \/ Withdraw \/ DestroyTransport
    <3>1. /\ pc \in Closing \ {"Restore"} /\ pc' \in Closing \ {"Restore"}
          /\ UNCHANGED <<connected, stop, outcome>>
      BY <2>1 DEF StopWorker, CloseBpf, TakeNames, Withdraw, DestroyTransport,
             Closing, Stopping, Removing, locals
    <3>2. Phase' = Phase
      BY <1>1, <3>1, PhaseOf, PhaseOfNext
    <3>3. QED
      BY <3>1, <3>2
  <2>2. CASE DestroySystem
    BY <1>1, <2>2, PhaseOf, PhaseOfNext
       DEF DestroySystem, locals, Closing, Removing, Promise!Removed
  <2>3. CASE Restore
    BY <1>1, <2>3, PhaseOf, PhaseOfNext
       DEF Restore, Closing, Removing, Promise!Recovered
  <2>4. CASE Close
    <3>1. Phase = "discarding"
      BY <1>1, <2>4, PhaseOf DEF Close, IInv, Staging, Closing, Serving
    <3>2. Phase' = IF Repeat THEN "waiting" ELSE "returned"
      BY <1>1, <2>4, PhaseOfNext DEF Close, Idle
    <3>3. QED
      BY <2>4, <3>1, <3>2 DEF Close, Promise!Discarded
  <2>5. QED
    BY <1>6, <2>1, <2>2, <2>3, <2>4
<1>7. QED
    BY <1>2, <1>3, <1>4, <1>5, <1>6 DEF Supervisor

\* Its environment only requests the end, kills it, or is not seen at all.
LEMMA EnvironmentKeeps == IInv /\ IInv' /\ Environment => [Promise!Next]_Promise!vars
<1> SUFFICES ASSUME IInv, IInv', Environment PROVE [Promise!Next]_Promise!vars
    OBVIOUS
<1> USE DEF Promise!Next, Promise!vars
<1>1. CASE Signal
  <2>1. Phase' = Phase
    BY <1>1 DEF Signal, Phase, locals
  <2>2. QED
    BY <1>1, <2>1 DEF Signal, Promise!Request
<1>2. CASE Crash
  <2>1. Phase # "returned" /\ Phase' = "waiting"
    BY <1>2, PhaseOf, PhaseOfNext DEF Crash, IInv, TypeOK, Idle
  <2>2. QED
    BY <1>2, <2>1 DEF Crash, Promise!Crash
<1>3. CASE Environment /\ ~Signal /\ ~Crash
  <2>1. UNCHANGED <<stop, outcome, pc, ready, connected>>
    BY <1>3 DEF Environment, WorkerSend, WorkerTake, WorkerExit, ForeignCreate,
           ForeignDestroy, DeadlinePasses, IntervalPasses, LeaseChanges, control,
           locals
  <2>2. Phase' = Phase
    BY <2>1 DEF Phase
  <2>3. QED
    BY <2>1, <2>2
<1>4. QED
    BY <1>1, <1>2, <1>3

\* The supervisor keeps the safety part of what module Session promises.
THEOREM KeepsPromiseSafely == Spec => Promise!Safety
<1>1. Init => Promise!Init
    BY TypeInitially, PhaseOf DEF Init, TypeOK, Idle, Promise!Init
<1>2. IInv /\ IInv' /\ [Next]_vars => [Promise!Next]_Promise!vars
  <2>1. IInv /\ IInv' /\ UNCHANGED vars => UNCHANGED Promise!vars
    BY DEF vars, control, locals, Promise!vars, Phase
  <2>2. QED
    BY <2>1, SupervisorKeeps, EnvironmentKeeps DEF Next
<1>3. QED
    BY <1>1, <1>2, Invariance, PTL DEF Spec, Promise!Safety
=============================================================================
