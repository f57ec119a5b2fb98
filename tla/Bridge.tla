------------------------------- MODULE Bridge -------------------------------
(***************************************************************************)
(* One supervisor (src/service.rs): it waits for a device, builds a        *)
(* session (a pair of feth interfaces, a BPF device on one of them and a   *)
(* USB worker process behind a datagram channel), bridges frames between   *)
(* the two, and takes the session down again in a fixed order.  Around it  *)
(* run the worker, other programs that create feth interfaces, the signal  *)
(* handlers, the clocks, and a crash of the supervisor itself.             *)
(*                                                                         *)
(* Routing commands are one step here (NetworkLeased, Restore); module     *)
(* Routing models them one by one.                                         *)
(***************************************************************************)
EXTENDS Naturals, Sequences, FiniteSets

CONSTANTS
    Names,       \* the feth units the kernel can hand out
    NoName,      \* the empty String in a Pair, and a closed BPF device
    Batch,       \* datagrams received in one iteration (128 in the code)
    Failures,    \* DHCP checks without a lease that end a session (10)
    Retry,       \* DHCP is requested again at every Retry-th failure (3)
    Capacity,    \* datagrams the channel buffers in one direction
    Repeat       \* TRUE for `daemon`, FALSE for `connect`

ASSUME BridgeAssumption ==
    /\ NoName \notin Names
    /\ Batch \in Nat \ {0}
    /\ Failures \in Nat \ {0}
    /\ Retry \in Nat \ {0}
    /\ Capacity \in Nat \ {0}
    /\ Repeat \in BOOLEAN

VARIABLES
    \* Supervisor
    stop,        \* the AtomicBool the signal handlers set
    pc,          \* what the supervisor does next
    outcome,     \* the Result connect() and run() return
    \* locals of connect(), and the Connection it builds
    pair,        \* Pair: the names it owns
    connected,   \* Connection exists and its drop still has to restore routes
    bpf,         \* the interface the BPF device is bound to
    ready,       \* the worker announced itself and the pair is configured
    failures,    \* gateway_failures
    events,      \* revents of the last poll(2)
    batch,       \* datagrams received in this iteration
    \* locals of Pair::remove
    taken,       \* the names it moved out of the Pair
    failure,     \* the withdrawal failed
    \* kernel
    iface,       \* which feth units exist, and who created them
    service,     \* interfaces with an IPConfiguration DHCP service
    link,        \* how far the system interface is configured
    leaked,      \* interfaces of ours that no Pair names any more
    \* worker process and channel
    worker, stray, toHost, toUsb,
    \* clocks and the phone's DHCP server
    late, due, lease

control == <<stop, pc, outcome>>
locals  == <<pair, connected, bpf, ready, failures, events, batch>>
removal == <<taken, failure>>
kernel  == <<iface, service, link, leaked>>
process == <<worker, stray, toHost, toUsb>>
clock   == <<late, due, lease>>
vars    == <<control, locals, removal, kernel, process, clock>>

Idle     == {"Check", "Probe", "Pause", "Returned"}
Building == {"Snapshot", "CreateSystem", "CreateTransport", "OpenBpf", "Spawn"}
Serving  == {"Poll", "Wait", "Receive", "Activate", "Transmit", "Network"}
Stopping == {"StopWorker", "CloseBpf"}
Removing == {"Take", "Withdraw", "DestroyTransport", "DestroySystem"}
Closing  == Stopping \cup Removing \cup {"Restore", "Close"}
Stages   == Idle \cup Building \cup Serving \cup Closing

NoPair == [system |-> NoName, transport |-> NoName]
Pairs  == [system : Names \cup {NoName}, transport : Names \cup {NoName}]

\* What a worker datagram decodes to: the announcement, an IPv4 or ARP frame,
\* a frame of any other Ethernet type, or bytes Message::decode rejects.
Kinds == {"Ready", "Frame", "Other", "Invalid"}

Flags ==
    /\ stop \in BOOLEAN /\ connected \in BOOLEAN /\ ready \in BOOLEAN
    /\ failure \in BOOLEAN /\ stray \in BOOLEAN
    /\ late \in BOOLEAN /\ due \in BOOLEAN /\ lease \in BOOLEAN

TypeOK ==
    /\ Flags
    /\ pc \in Stages /\ outcome \in {"ok", "error"}
    /\ pair \in Pairs /\ taken \in Pairs /\ bpf \in Names \cup {NoName}
    /\ failures \in 0 .. Failures /\ (pc # "StopWorker" => failures < Failures)
    /\ events \in SUBSET {"socket", "bpf"} /\ batch \in 0 .. Batch
    /\ iface \in [Names -> {"free", "owned", "foreign"}]
    /\ service \in SUBSET (Names \cup {NoName}) /\ leaked \in SUBSET Names
    /\ link \in {"plain", "addressed", "peered", "up"}
    /\ worker \in {"none", "live", "zombie"}
    /\ toHost \in Seq(Kinds) /\ Len(toHost) \in 0 .. Capacity
    /\ toUsb \in 0 .. Capacity

Init ==
    /\ stop = FALSE /\ pc = "Check" /\ outcome = "ok"
    /\ pair = NoPair /\ connected = FALSE /\ bpf = NoName
    /\ ready = FALSE /\ failures = 0 /\ events = {} /\ batch = 0
    /\ taken = NoPair /\ failure = FALSE
    /\ iface \in [Names -> {"free", "foreign"}]
    /\ service = {} /\ link = "plain" /\ leaked = {}
    /\ worker = "none" /\ stray = FALSE /\ toHost = <<>> /\ toUsb = 0
    /\ late = FALSE /\ due = FALSE /\ lease = FALSE

-----------------------------------------------------------------------------
(* run(): the retry loop.                                                   *)

Goto(stage) == pc' = stage /\ UNCHANGED <<stop, outcome>>

Return(result) == pc' = "Returned" /\ outcome' = result /\ UNCHANGED stop

Check ==
    /\ pc = "Check"
    /\ IF stop THEN Return("ok") ELSE Goto("Probe")
    /\ UNCHANGED <<locals, removal, kernel, process, clock>>

\* Worker::probe found exactly one device.
ProbeFound ==
    /\ pc = "Probe"
    /\ Goto("Snapshot")
    /\ UNCHANGED <<locals, removal, kernel, process, clock>>

\* Stopping a child succeeds, or gives up on one that survives SIGKILL.
LeaveBehind == UNCHANGED stray \/ stray' = TRUE

\* No unique device, or the probe failed; a probe that outlives its own
\* cleanup deadline is left behind.
ProbeMissed ==
    /\ pc = "Probe"
    /\ IF Repeat THEN Goto("Pause") ELSE Return("error")
    /\ LeaveBehind
    /\ UNCHANGED <<locals, removal, kernel, worker, toHost, toUsb, clock>>

\* Thirty sleeps of 100 ms, with the flag checked before each.
Pause ==
    /\ pc = "Pause"
    /\ IF stop THEN Return("ok") ELSE Goto("Check")
    /\ UNCHANGED <<locals, removal, kernel, process, clock>>

-----------------------------------------------------------------------------
(* connect(): building the session.                                         *)

\* `?` and `return Err`: the locals built so far are dropped.
Leave(result) ==
    /\ pc' = "StopWorker"
    /\ outcome' = result
    /\ UNCHANGED stop

\* Snapshot::read of the default to fall back to.
TakeSnapshot ==
    /\ pc = "Snapshot"
    /\ \/ Goto("CreateSystem")
       \/ Leave("error")
    /\ UNCHANGED <<locals, removal, kernel, process, clock>>

\* `ifconfig feth create` picks a free unit.  The command can also fail, with
\* or without a unit created; then no Pair names that unit.
Create(end, next) ==
    \/ \E n \in Names :
        /\ iface[n] = "free"
        /\ iface' = [iface EXCEPT ![n] = "owned"]
        /\ \/ pair' = [pair EXCEPT ![end] = n] /\ Goto(next) /\ UNCHANGED leaked
           \/ leaked' = leaked \cup {n} /\ Leave("error") /\ UNCHANGED pair
    \/ Leave("error") /\ UNCHANGED <<pair, iface, leaked>>

CreateSystem ==
    /\ pc = "CreateSystem"
    /\ Create("system", "CreateTransport")
    /\ UNCHANGED <<connected, bpf, ready, failures, events, batch,
                   removal, service, link, process, clock>>

CreateTransport ==
    /\ pc = "CreateTransport"
    /\ Create("transport", "OpenBpf")
    /\ UNCHANGED <<connected, bpf, ready, failures, events, batch,
                   removal, service, link, process, clock>>

\* The last commands of Pair::create, Device::open and Channel::create: a
\* failure of the channel leaves the BPF device open.
OpenBpf ==
    /\ pc = "OpenBpf"
    /\ \/ bpf' = pair.transport /\ Goto("Spawn")
       \/ bpf' \in {NoName, pair.transport} /\ Leave("error")
    /\ UNCHANGED <<pair, connected, ready, failures, events, batch,
                   removal, kernel, process, clock>>

\* Worker::spawn, then the Connection and the loop's locals.  A child that
\* started but could not be adopted is stopped there, or left behind.
Spawn ==
    /\ pc = "Spawn"
    /\ \/ /\ worker' = "live" /\ connected' = TRUE /\ Goto("Poll")
          /\ UNCHANGED stray
       \/ /\ Leave("error") /\ LeaveBehind
          /\ UNCHANGED <<worker, connected>>
    /\ UNCHANGED <<pair, bpf, ready, failures, events, batch,
                   removal, kernel, toHost, toUsb, clock>>

-----------------------------------------------------------------------------
(* connect(): one iteration of the loop.                                    *)

\* Mutant: the worker's exit status is not asked for.
PollBlind ==
    /\ pc = "Poll"
    /\ \/ stop /\ Leave("ok")
       \/ ~stop /\ Leave("error")
       \/ ~stop /\ (ready \/ ~late) /\ Goto("Wait")
    /\ UNCHANGED <<locals, removal, kernel, process, clock>>

\* The loop's condition, Worker::poll and the initialization deadline, in
\* the order the code tests them.  Worker::poll also fails when the worker
\* wrote more than 8 KiB of diagnostics.
Poll ==
    /\ pc = "Poll"
    /\ \/ stop /\ Leave("ok") /\ UNCHANGED worker
       \/ ~stop /\ Leave("error") /\ UNCHANGED worker
       \/ ~stop /\ worker = "zombie" /\ worker' = "none" /\ Leave("error")
       \/ /\ ~stop /\ worker = "live" /\ (ready \/ ~late)
          /\ Goto("Wait") /\ UNCHANGED worker
    /\ UNCHANGED <<locals, removal, kernel, stray, toHost, toUsb, clock>>

\* poll(2) on the channel and the BPF device, for 100 ms at most.  Only the
\* signals that set `stop` have handlers, so only they interrupt it.
Wait ==
    /\ pc = "Wait"
    /\ \/ stop /\ Goto("Poll") /\ UNCHANGED <<events, batch>>   \* EINTR
       \/ Leave("error") /\ UNCHANGED <<events, batch>>         \* ERR, HUP, NVAL
       \/ /\ \E readable \in SUBSET {"bpf"} :
                events' = readable \cup (IF toHost = <<>> THEN {} ELSE {"socket"})
          /\ batch' = 0
          /\ Goto("Receive")
    /\ UNCHANGED <<pair, connected, bpf, ready, failures,
                   removal, kernel, process, clock>>

Receiving == /\ pc = "Receive" /\ "socket" \in events /\ batch < Batch
             /\ toHost # <<>>

\* Mutant: the batch is not counted, so a worker that keeps sending is
\* received for ever.
Receive1Uncounted == toHost' = Tail(toHost) /\ batch' = batch

Receive1 == toHost' = Tail(toHost) /\ batch' = batch + 1

\* Nothing (more) to receive, or the batch is full.
ReceiveDone ==
    /\ pc = "Receive" /\ ~Receiving
    /\ \/ Goto("Transmit")
       \/ worker # "live" /\ Leave("error")      \* recv fails on a closed peer
    /\ UNCHANGED <<locals, removal, kernel, process, clock>>

ReceiveReady ==
    /\ Receiving /\ Head(toHost) = "Ready" /\ ~ready
    /\ Receive1 /\ Goto("Activate")
    /\ UNCHANGED <<pair, connected, bpf, ready, failures, events,
                   removal, kernel, worker, stray, toUsb, clock>>

\* bpf.write: written, dropped under backpressure, or failed.
Inject ==
    /\ Receiving /\ Head(toHost) = "Frame" /\ ready
    /\ Receive1
    /\ \/ UNCHANGED control
       \/ Leave("error")
    /\ UNCHANGED <<pair, connected, bpf, ready, failures, events,
                   removal, kernel, worker, stray, toUsb, clock>>

\* Frame::permits refuses the frame: it is dropped and the loop continues.
Refuse ==
    /\ Receiving /\ Head(toHost) = "Other" /\ ready
    /\ Receive1
    /\ UNCHANGED <<control, pair, connected, bpf, ready, failures, events,
                   removal, kernel, worker, stray, toUsb, clock>>

\* A datagram the session's state does not allow, or one that is malformed.
Reject ==
    /\ Receiving
    /\ \/ Head(toHost) = "Invalid"
       \/ Head(toHost) = "Ready" /\ ready
       \/ Head(toHost) \in {"Frame", "Other"} /\ ~ready
    /\ Receive1 /\ Leave("error")
    /\ UNCHANGED <<pair, connected, bpf, ready, failures, events,
                   removal, kernel, worker, stray, toUsb, clock>>

\* Pair::activate runs its three commands in this order; any may fail.
Configured == [plain |-> "addressed", addressed |-> "peered", peered |-> "up"]

Activate ==
    /\ pc = "Activate" /\ link # "up"
    /\ link' \in {link, Configured[link]}
    /\ \/ link' # link /\ UNCHANGED control
       \/ Leave("error")
    /\ UNCHANGED <<locals, removal, iface, service, leaked, process, clock>>

\* Pair::dhcp: IPConfiguration may have started the service although the
\* command failed.
Request(stage) ==
    \/ service' = service \cup {pair.system} /\ Goto(stage)
    \/ service' \in {service, service \cup {pair.system}} /\ Leave("error")

\* Mutant: DHCP is requested before the interfaces are up.
ActivateDhcpEarly ==
    /\ pc = "Activate" /\ link = "peered"
    /\ Request("Receive")
    /\ ready' = (pc' = "Receive")
    /\ UNCHANGED <<pair, connected, bpf, failures, events, batch,
                   removal, iface, link, leaked, process, clock>>

ActivateDhcp ==
    /\ pc = "Activate" /\ link = "up"
    /\ Request("Receive")
    /\ ready' = (pc' = "Receive")
    /\ UNCHANGED <<pair, connected, bpf, failures, events, batch,
                   removal, iface, link, leaked, process, clock>>

\* Frames read from the BPF device go to the worker once it is ready, each
\* sent or dropped under backpressure; before that they are discarded.
Transmit ==
    /\ pc = "Transmit"
    /\ \/ Goto("Network")
          /\ toUsb' \in IF ready /\ "bpf" \in events THEN toUsb .. Capacity
                                                      ELSE {toUsb}
       \/ "bpf" \in events /\ Leave("error") /\ UNCHANGED toUsb
    /\ UNCHANGED <<locals, removal, kernel, worker, stray, toHost, clock>>

NetworkSkipped ==
    /\ pc = "Network" /\ ~(ready /\ due)
    /\ Goto("Poll")
    /\ UNCHANGED <<locals, removal, kernel, process, clock>>

\* Snapshot::dhcp found a lease; inspecting or writing the route may fail.
NetworkLeased ==
    /\ pc = "Network" /\ ready /\ due /\ lease
    /\ \/ failures' = 0 /\ due' = FALSE /\ Goto("Poll")
       \/ Leave("error") /\ UNCHANGED <<failures, due>>
    /\ UNCHANGED <<pair, connected, bpf, ready, events, batch,
                   removal, kernel, process, late, lease>>

\* Mutant: a renewed request starts the count again.
NetworkUnleasedForgets ==
    /\ pc = "Network" /\ ready /\ due
    /\ IF failures + 1 >= Failures THEN Leave("error") /\ UNCHANGED service
       ELSE IF (failures + 1) % Retry = 0 THEN Request("Poll")
       ELSE Goto("Poll") /\ UNCHANGED service
    /\ failures' = IF (failures + 1) % Retry = 0 THEN 0 ELSE failures + 1
    /\ due' = (pc' # "Poll")
    /\ UNCHANGED <<pair, connected, bpf, ready, events, batch, removal,
                   iface, link, leaked, process, late, lease>>

\* No lease, or a failed ipconfig, which the code reads the same way.
NetworkUnleased ==
    /\ pc = "Network" /\ ready /\ due
    /\ failures' = failures + 1
    /\ IF failures' >= Failures THEN Leave("error") /\ UNCHANGED service
       ELSE IF failures' % Retry = 0 THEN Request("Poll")
       ELSE Goto("Poll") /\ UNCHANGED service
    /\ due' = (pc' # "Poll")
    /\ UNCHANGED <<pair, connected, bpf, ready, events, batch, removal,
                   iface, link, leaked, process, late, lease>>

-----------------------------------------------------------------------------
(* Dropping what connect() built.  Connection::drop stops the worker, closes *)
(* BPF, removes the pair and restores the fallback route; its Pair is then   *)
(* dropped like the Pair of a session that never became a Connection.        *)

\* Mutant: a worker that could not be stopped is served on.
StopWorkerServed ==
    /\ pc = "StopWorker"
    /\ worker' \in {worker, "none"}
    /\ ready' = FALSE /\ failures' = 0 /\ events' = {} /\ batch' = 0
    /\ late' = FALSE /\ due' = FALSE /\ lease' = FALSE
    /\ Goto("CloseBpf")
    /\ UNCHANGED <<pair, connected, bpf, removal, kernel, stray, toHost, toUsb>>

\* Worker::stop.  The loop's own locals are out of scope.
StopWorker ==
    /\ pc = "StopWorker"
    /\ worker' = "none"
    /\ IF worker = "live" THEN LeaveBehind ELSE UNCHANGED stray
    /\ ready' = FALSE /\ failures' = 0 /\ events' = {} /\ batch' = 0
    /\ late' = FALSE /\ due' = FALSE /\ lease' = FALSE
    /\ Goto("CloseBpf")
    /\ UNCHANGED <<pair, connected, bpf, removal, kernel, toHost, toUsb>>

\* Mutant: the BPF device is left to the drop of the fields.
CloseBpfLate ==
    /\ pc = "CloseBpf"
    /\ Goto("Take")
    /\ UNCHANGED <<locals, removal, kernel, process, clock>>

\* Mutant: routes are restored before the pair is removed.
CloseBpfThenRestore ==
    /\ pc = "CloseBpf"
    /\ bpf' = NoName
    /\ Goto(IF connected THEN "Restore" ELSE "Take")
    /\ UNCHANGED <<pair, connected, ready, failures, events, batch,
                   removal, kernel, process, clock>>

CloseBpf ==
    /\ pc = "CloseBpf"
    /\ bpf' = NoName
    /\ Goto("Take")
    /\ UNCHANGED <<pair, connected, ready, failures, events, batch,
                   removal, kernel, process, clock>>

\* Mutant: the names stay in the Pair, so its drop removes them once more.
TakeNamesTwice ==
    /\ pc = "Take"
    /\ taken' = pair /\ failure' = FALSE
    /\ Goto("Withdraw")
    /\ UNCHANGED <<locals, kernel, process, clock>>

\* Mutant: the DHCP service is not withdrawn.
TakeNamesOnly ==
    /\ pc = "Take"
    /\ taken' = pair /\ pair' = NoPair /\ failure' = FALSE
    /\ Goto("DestroyTransport")
    /\ UNCHANGED <<connected, bpf, ready, failures, events, batch,
                   kernel, process, clock>>

\* Pair::remove moves the names out before it runs any command.
TakeNames ==
    /\ pc = "Take"
    /\ taken' = pair /\ pair' = NoPair /\ failure' = FALSE
    /\ Goto("Withdraw")
    /\ UNCHANGED <<connected, bpf, ready, failures, events, batch,
                   kernel, process, clock>>

\* `ipconfig set <system> NONE`; a failure is remembered, and removal goes on.
Withdraw ==
    /\ pc = "Withdraw"
    /\ \/ service' = service \ {taken.system} /\ UNCHANGED failure
       \/ /\ taken.system # NoName /\ failure' = TRUE
          /\ service' \in {service, service \ {taken.system}}
    /\ Goto("DestroyTransport")
    /\ UNCHANGED <<taken, locals, iface, link, leaked, process, clock>>

\* `ifconfig <name> destroy`, which fails with or without effect.  The name
\* was taken already, so nothing ever tries again.
Destroy(n) ==
    \/ n = NoName /\ UNCHANGED <<iface, service, leaked>>
    \/ /\ n # NoName
       /\ iface' = [iface EXCEPT ![n] = "free"]
       /\ service' = service \ {n}
       /\ UNCHANGED leaked
    \/ /\ n # NoName
       /\ leaked' = leaked \cup {n}
       /\ UNCHANGED <<iface, service>>

DestroyTransport ==
    /\ pc = "DestroyTransport"
    /\ Destroy(taken.transport)
    /\ Goto("DestroySystem")
    /\ UNCHANGED <<locals, removal, link, process, clock>>

\* Mutant: the transport interface is destroyed twice, the other never.
DestroySystemMistaken ==
    /\ pc = "DestroySystem"
    /\ UNCHANGED <<iface, service, leaked>>
    /\ taken' = NoPair /\ failure' = FALSE /\ link' = "plain"
    /\ Goto(IF connected THEN "Restore" ELSE "Close")
    /\ UNCHANGED <<locals, process, clock>>

\* Mutant: routes are restored for a session that was never built, too.
DestroySystemThenRestore ==
    /\ pc = "DestroySystem"
    /\ Destroy(taken.system)
    /\ taken' = NoPair /\ failure' = FALSE /\ link' = "plain"
    /\ Goto("Restore")
    /\ UNCHANGED <<locals, process, clock>>

DestroySystem ==
    /\ pc = "DestroySystem"
    /\ Destroy(taken.system)
    /\ taken' = NoPair /\ failure' = FALSE /\ link' = "plain"
    /\ Goto(IF connected THEN "Restore" ELSE "Close")
    /\ UNCHANGED <<locals, process, clock>>

\* Recovery::restore, up to four seconds of it; then the fields of the
\* Connection are dropped, its Pair among them.
Restore ==
    /\ pc = "Restore"
    /\ connected' = FALSE
    /\ Goto("Take")
    /\ UNCHANGED <<pair, bpf, ready, failures, events, batch,
                   removal, kernel, process, clock>>

\* Mutant: the channel outlives its session.
CloseQueued ==
    /\ pc = "Close"
    /\ IF Repeat THEN Goto("Pause") ELSE Return(outcome)
    /\ UNCHANGED <<locals, removal, kernel, process, clock>>

\* The supervisor's end of the channel goes last, and with it what is queued.
Close ==
    /\ pc = "Close"
    /\ toHost' = <<>> /\ toUsb' = 0
    /\ IF Repeat THEN Goto("Pause") ELSE Return(outcome)
    /\ UNCHANGED <<locals, removal, kernel, worker, stray, clock>>

Supervisor ==
    \/ Check \/ ProbeFound \/ ProbeMissed \/ Pause
    \/ TakeSnapshot \/ CreateSystem \/ CreateTransport \/ OpenBpf \/ Spawn
    \/ Poll \/ Wait
    \/ ReceiveDone \/ ReceiveReady \/ Inject \/ Refuse \/ Reject
    \/ Activate \/ ActivateDhcp \/ Transmit
    \/ NetworkSkipped \/ NetworkLeased \/ NetworkUnleased
    \/ StopWorker \/ CloseBpf \/ TakeNames \/ Withdraw
    \/ DestroyTransport \/ DestroySystem \/ Restore \/ Close

-----------------------------------------------------------------------------
(* Everyone else.                                                           *)

\* SIGINT, SIGTERM or SIGHUP.
Signal ==
    /\ ~stop /\ stop' = TRUE
    /\ UNCHANGED <<pc, outcome, locals, removal, kernel, process, clock>>

\* The worker parses device input: the supervisor assumes nothing about what
\* it sends or when it exits.  A full channel loses the datagram.
WorkerSend ==
    /\ worker = "live" /\ Len(toHost) < Capacity
    /\ \E kind \in Kinds : toHost' = Append(toHost, kind)
    /\ UNCHANGED <<control, locals, removal, kernel, worker, stray, toUsb, clock>>

WorkerTake ==
    /\ worker = "live" /\ toUsb > 0
    /\ toUsb' = toUsb - 1
    /\ UNCHANGED <<control, locals, removal, kernel, worker, stray, toHost, clock>>

WorkerExit ==
    /\ \/ worker = "live" /\ worker' = "zombie" /\ UNCHANGED stray
       \/ stray /\ stray' = FALSE /\ UNCHANGED worker
    /\ UNCHANGED <<control, locals, removal, kernel, toHost, toUsb, clock>>

\* Other programs create and destroy feth interfaces of their own, some with
\* a DHCP service.
ForeignCreate ==
    /\ \E n \in Names :
        /\ iface[n] = "free"
        /\ iface' = [iface EXCEPT ![n] = "foreign"]
        /\ service' \in {service, service \cup {n}}
    /\ UNCHANGED <<control, locals, removal, link, leaked, process, clock>>

ForeignDestroy ==
    /\ \E n \in Names :
        /\ iface[n] = "foreign"
        /\ iface' = [iface EXCEPT ![n] = "free"]
        /\ service' = service \ {n}
    /\ UNCHANGED <<control, locals, removal, link, leaked, process, clock>>

\* Ten seconds since the Connection was built.
DeadlinePasses ==
    /\ pc \in Serving /\ ~ready /\ ~late
    /\ late' = TRUE
    /\ UNCHANGED <<control, locals, removal, kernel, process, due, lease>>

\* Three seconds since the last network check.
IntervalPasses ==
    /\ pc \in Serving /\ ready /\ ~due
    /\ due' = TRUE
    /\ UNCHANGED <<control, locals, removal, kernel, process, late, lease>>

\* The phone answers DHCP on the system interface, or its lease goes away.
LeaseChanges ==
    /\ pc \in Serving
    /\ lease' = (~lease /\ pair.system \in service)
    /\ UNCHANGED <<control, locals, removal, kernel, process, late, due>>

\* The supervisor is killed: no destructor runs, the kernel closes its
\* descriptors and gives up its lock, and launchd starts it again.
Crash ==
    /\ Repeat /\ pc # "Returned"
    /\ stop' = FALSE /\ pc' = "Check" /\ outcome' = "ok"
    /\ pair' = NoPair /\ connected' = FALSE /\ bpf' = NoName
    /\ ready' = FALSE /\ failures' = 0 /\ events' = {} /\ batch' = 0
    /\ taken' = NoPair /\ failure' = FALSE
    /\ leaked' = {n \in Names : iface[n] = "owned"}
    /\ worker' = "none"
    /\ IF worker = "live" THEN stray' = TRUE ELSE UNCHANGED stray
    /\ toHost' = <<>> /\ toUsb' = 0
    /\ late' = FALSE /\ due' = FALSE /\ lease' = FALSE
    /\ link' = "plain"
    /\ UNCHANGED <<iface, service>>

Environment ==
    \/ Signal \/ WorkerSend \/ WorkerTake \/ WorkerExit
    \/ ForeignCreate \/ ForeignDestroy
    \/ DeadlinePasses \/ IntervalPasses \/ LeaseChanges \/ Crash

Next == Supervisor \/ Environment

\* The supervisor is one thread whose calls are all bounded, and the clocks
\* advance.  Nothing is assumed of the worker, the phone or other programs.
Fairness ==
    /\ WF_vars(Supervisor)
    /\ WF_vars(DeadlinePasses)
    /\ WF_vars(IntervalPasses)

Spec == Init /\ [][Next]_vars /\ Fairness

-----------------------------------------------------------------------------
(* Properties.                                                              *)

Owned == {n \in Names : iface[n] = "owned"}

\* "No more USB frames may arrive while IPConfiguration removes the temporary
\* service" (service.rs): while the pair is removed and routes are restored,
\* the BPF device is closed and no worker of this session is served.
QuietRemoval ==
    pc \in Removing \cup {"Restore"} => bpf = NoName /\ worker = "none"

\* The DHCP service is withdrawn before the device that owns it is destroyed
\* (interface.rs), unless the withdrawal itself failed.
WithdrawnFirst ==
    pc \in {"DestroyTransport", "DestroySystem"} =>
        taken.system \notin service \/ failure

\* "Restore fallback routes only after that removal" (service.rs): the only
\* interfaces of ours that still exist then are those whose removal failed.
RecoveryAfterRemoval == pc = "Restore" => Owned = leaked /\ pair = NoPair

\* The BPF device never outlives the interface it is bound to: a unit another
\* program creates under the same name receives none of our frames.
AttachedToOwned == bpf # NoName => iface[bpf] = "owned"

\* A session is taken down in the promised order.
OrderedTeardown == QuietRemoval /\ WithdrawnFirst /\ RecoveryAfterRemoval /\ AttachedToOwned

\* Whatever way a session ended, nothing of it reaches the next one, except
\* interfaces whose removal failed and a worker that survived SIGKILL.
CleanBetweenSessions ==
    pc \in Idle =>
        /\ Owned = leaked /\ pair = NoPair /\ bpf = NoName
        /\ worker = "none" /\ toHost = <<>> /\ toUsb = 0
        /\ ~ready /\ ~connected

\* The names the supervisor still holds, and has not destroyed.
Held == ({pair.system, pair.transport, taken.system}
            \cup (IF pc = "DestroySystem" THEN {} ELSE {taken.transport})) \ {NoName}

\* Why: our interfaces are those it holds and those it gave up on, so a held
\* name is never another program's.
Ownership ==
    /\ Owned = leaked \cup Held /\ leaked \cap Held = {}
    /\ \A p \in {pair, taken} : p.system = p.transport => p = NoPair

\* Why: what exists at each stage.
Staging ==
    /\ pc \in Idle \cup {"Snapshot", "CreateSystem", "Restore", "Close"}
              \cup (Removing \ {"Take"}) => pair = NoPair
    /\ pc \notin Removing \ {"Take"} => taken = NoPair
    /\ pc = "CreateTransport" => pair.system # NoName /\ pair.transport = NoName
    /\ pc \in Serving \cup {"OpenBpf", "Spawn"} =>
           pair.system # NoName /\ pair.transport # NoName
    /\ pc \in Serving \cup {"Spawn"} => bpf = pair.transport
    /\ bpf # NoName => /\ pc \in Serving \cup Stopping \cup {"Spawn"}
                       /\ bpf = pair.transport
    /\ connected => pc \in (Serving \cup Closing) \ {"Close"}
    /\ pc \in Serving \cup {"Restore"} => connected
    /\ worker # "none" => pc \in Serving \cup {"StopWorker"}
    /\ ready => pc \in (Serving \cup {"StopWorker"}) \ {"Activate"}
    /\ pc \in Serving /\ ready => link = "up" /\ pair.system \in service
    /\ pc \in Idle \cup Building => toHost = <<>> /\ toUsb = 0

\* A name released by the removal may be reused at once; no later step of the
\* supervisor destroys another program's interface or its DHCP service.
ForeignUntouched ==
    [][Supervisor => \A n \in Names : iface[n] = "foreign" =>
            iface'[n] = "foreign" /\ (n \in service' <=> n \in service)]_vars

\* Frames cross in either direction only while the pair is configured to the
\* end (MAC, peer, up), DHCP was requested on it and BPF is bound to it.
BridgedWhenActive ==
    [][Inject \/ toUsb' > toUsb =>
            /\ link = "up" /\ pair.system \in service \cap Owned
            /\ pair.transport \in Owned /\ bpf = pair.transport]_vars

\* The supervisor keeps what module Session promises.
Phase ==
    CASE pc = "Returned" -> "returned"
      [] pc \in Idle \ {"Returned"} -> "waiting"
      [] pc \in Building -> "building"
      [] pc \in Serving -> IF ready THEN "bridging" ELSE "serving"
      [] pc = "Restore" -> "recovering"
      [] pc \in Closing \ {"Restore"} ->
             IF connected THEN "removing" ELSE "discarding"

Promise == INSTANCE Session WITH phase <- Phase

KeepsPromise == Promise!Spec

\* A request to stop ends the run, whatever the worker sends meanwhile; only
\* a crash, which forgets the request, can prevent it.
StopReturns == stop ~> (pc = "Returned" \/ ~stop)

\* Device loss: a session whose worker exited does not go on.
WorkerLossEnds == (pc \in Serving /\ worker = "zombie") ~> pc \notin Serving

\* What must end a session ends it.
SessionEnds == StopReturns /\ WorkerLossEnds

\* A session goes on for ever only with a worker that announced itself in
\* time and a lease that is seen again and again.
ServedMeansLeased == <>[](pc \in Serving) => []<>(ready /\ lease)
=============================================================================
