# GalaxyBridge in TLA+

GalaxyBridge is a user-space RNDIS driver: a root *supervisor* creates a pair of
`feth` interfaces, a sandboxed *USB worker* speaks RNDIS to a phone, and frames
cross between a BPF device on one interface of the pair and the worker over a
bounded datagram channel. This directory models the program's control: who may
do what in which order, what failures and crashes leave behind, and what must
eventually happen. Names of definitions follow the source where TLA+ allows it;
`PROJECT.json` maps every definition to its lines.

## Inventory

| Component (source) | State | Operations | Hard behaviour |
| --- | --- | --- | --- |
| `service` | stop flag, the `Connection` (worker, BPF device, pair, previous route), `ready`, `gateway_failures`, clocks | `run`, `connect`, `Connection::drop` | order of teardown on every exit path; datagrams in any protocol state; stop, worker exit and timeouts racing each other; crash and restart by launchd |
| `macos::interface` | the two names a `Pair` owns | `create`, `activate`, `dhcp`, `remove`, `drop` | commands that fail half-way; names reused by other programs after removal |
| `macos::route` | default read, route applied, confirmations, deadline | `read`, `dhcp`, `apply`, `write`, `Recovery::restore` | check-then-act across separate commands while macOS and VPN clients change the table |
| `worker` | shared stop flag, two threads, 8 bulk-in transfers, 1 bulk-out transfer | `run` | three threads that must all end when any of them fails; orphaned worker; mute device |
| `ipc` | two bounded datagram queues | `create`, `inherit`, `decode`, `encode`, `Backpressure` | lost datagrams |
| `macos::process` | child, diagnostics allowance | `spawn`, `probe`, `poll`, `stop`, `drop` | SIGTERM/SIGKILL escalation, a child that survives, PID reuse |
| `macos::command` | child, two pipes, output allowance | `Runner::capture`, `drop` | descendants that keep pipes open, deadlines, output limit |
| `macos::bpf`, `native/bpf.c` | descriptor, record layout | `open`, `read`, `write`, `frames` | record alignment at the end of the buffer |
| `usb::session`, `rndis::control` | request id, notification transfer, limits | `open`, `exchange`, `keepalive`, `drop` | indications before a completion, late and empty answers, id wraparound |
| `rndis::packet` | none | `encode`, `decode` | boundary lengths, padding, packed transfers |
| `usb::layout`, `usb::devices` | none | `parse`, `select` | ambiguous or truncated descriptors |
| `native` descriptors, `macos::access` | descriptor table of the child | `gb_worker_descriptors`, `gb_worker_prepare` | order of close-on-exec marking and `dup2` |
| `install.sh`, `uninstall.sh`, `scripts/identity.sh` | files, account, receipt, launchd job | transaction, rollback, identity lifecycle | a signal or failure between any two steps |
| `macos::context` | process id and bootstrap context | `enter` | a program that executes itself through another |
| `macos::identity` | the receipt and the account's records | `load`, `validate`, `lookup` | must accept exactly what the installer makes |
| `macos::worker_app`, `usb::confinement`, `cli` | none, or read once at start | checks | none that a model checker reaches |

Interactions: the supervisor calls system commands synchronously and changes
kernel state (interfaces, DHCP services, routes) that other programs change too;
it spawns, signals and reaps the worker; both exchange datagrams; signal
handlers set a flag in each process; launchd restarts the supervisor.

What makes the components correct:

* *service, interface*: a session is taken down completely and in one order on
  every path; nothing of it reaches the next session or another program's
  interface; frames cross only a fully configured pair; a stop request, a lost
  worker, a missing announcement and a lost lease each end the session.
* *route*: a VPN or an independently selected default is not overridden;
  recovery writes the gateway the network has now, and confirms it.
* *usb::session*: a completion is taken for the request it answers and for no
  other; the host never waits on an endpoint with nothing submitted; a conforming
  device is never rejected; every exchange ends.
* *process*: signals go to the helper only; when the supervisor is done with a
  helper it is gone, or the failure was reported; diagnostics stay within a
  lifetime allowance; `probe` and `stop` end.
* *layout, packet, bpf*: one function of the device is chosen, whole and
  unambiguous; frames never overlap or leave their buffer; nothing that a sound
  device or the kernel writes is refused; every transfer ends with a short packet.
* *command*: the output returned is complete; the call is bounded whatever the
  command and its descendants do; the signal reaches the command or nobody.
* *context, native descriptors*: the worker starts with the channel and nothing
  else of root's; a program that did not start is not taken for one that did.
* *installer, identity*: an installation that goes through loads; one that does
  not is undone, or keeps the receipt that lets it be undone; nothing foreign is
  changed; no home or account is removed under a running worker.
* *worker*: frames keep their order; transfers stay within their limits; the
  worker ends with its supervisor, its device and its threads, and says whether
  it failed.

## Modules

**`Session`** is the abstract specification: phases of a run (waiting, building,
serving, bridging, removing, recovering, discarding, returned) and the moves
between them. It says that fallback routing is checked exactly once for every
session that was built, after its interfaces were removed and before the next
session; that a session which was never built changes no route; that frames are
bridged only after the announcement; that `daemon` returns only on request; and
(`WF`) that a session once ended is taken down completely.

**`Bridge`** is the supervisor with its environment. `pc` is the next call of
`run`, `connect` or `drop`; each action is one call, or one loop iteration of
calls without an effect outside the process. The locals of `connect` and the
fields of `Connection` and `Pair` are variables; `taken` and `failure` are the
locals of `Pair::remove`. Rust's drops are steps: `Leave` is `?`/`return Err` (or
the end of the loop) and leads through `StopWorker`, `CloseBpf`, the removal of
the pair, `Restore` and the second drop of the (now empty) pair to `Close`, the
end of the channel. The kernel is `iface` (each feth unit is free, ours or
foreign), `service`, `link` and `leaked`: interfaces of ours that no `Pair`
names any more, because a command failed or the supervisor was killed. `leaked`
and `outcome` restrict no step. Other actors: signals, a worker that sends any
datagrams and exits at any time, a worker left behind by `Worker::stop`, other
programs that create and destroy feth interfaces, the two clocks, the phone's
lease, and `Crash`, after which launchd starts a new supervisor that knows
nothing of the old one. Other programs do not destroy our interfaces.

**`Routing`** is the default route: the network check of `connect` and
`Recovery::restore`, one `route`, `netstat`, `ifconfig` or `ipconfig` command per
action; only the two reads with which a session asks for the phone's lease
(`AskLease`) are one, since the second finds nothing without what the first
found. Between commands a VPN comes and goes, configd selects another default,
links, addresses and routers change, the lease changes, any command fails and the
recovery deadline passes. Recovery asks for the link once (`CheckActive`), for the
address twice (`CheckAddress`, `AskAddress`), then for the router of the lease or
of the scoped default (`AskRouter`, `AskScoped`); it writes without asking again.
The removed interface's own default may linger (`Remove`). `raced`, `moved` and
`disturbed` are history variables: no step reads them. `raced` says that the
default or the table changed since the decision's first look at them, `moved` that
a link, an address or a router changed since recovery asked for the link. They
are the windows the code has, and `HonestWrites` claims nothing across its own: a
link lost after `ifconfig` has answered is written, and so is a router that was
replaced after `ipconfig` has. In `Bridge` the same code is one step
(`NetworkLeased`, `Restore`), which no property there depends on.

**`UsbWorker`** is the worker process: the main thread, the receiving and the
transmitting thread, each a `pc` of its own over the shared flag `stop`, the
bulk endpoints, the two directions of the channel, a device that is well, mute
or gone, and a supervisor that takes and sends datagrams, asks it to stop, dies,
or kills it. Datagrams to the host are numbered (the announcement is 1), which
is how order, loss and repetition become visible: `InOrder` judges every reception
(`SupervisorTakes`), so the last datagram taken a second time is a violation too. A failing
`recv` or `send` ends its thread whether the supervisor lives or not. A wait with a timeout is a
step that is always enabled and then looks at the flag again. The control
exchange of the keepalive is one step.

**`RndisControl`** is that control exchange (`Session::open`, `exchange`,
`keepalive`, `drop`) with the device behind it. `pc` is the host's place in
`exchange`; `doing`, `id`, `responses` and `expired` are its locals and fields,
`note` is the notification transfer. The device queues completions and indications and notifies the host; the constant
`Faults` says what else it may do: answer twice, lose requests and notifications or send
spurious ones, send what the parsers reject, disappear. Messages have a kind, a
request id, and whether they are sound; the byte layout behind that is left
out. `own` in a message (it answers the request that was sent last) and
`tainted` are history: no step of the host depends on them. Workers are killed at any point and followed by new ones, which
begin with id 1 again. The device is taken to start afresh at INITIALIZE; one
that kept a completion for a killed worker through it would deliver the very id
the next worker uses (listed among the hazards).

**`WorkerProcess`** is the supervisor's hold on one helper, worker or probe: the
diagnostics pipe with its allowance, `poll` with the reads after the exit,
`probe`'s deadline, and `stop` with its two signals, called once or twice before
`drop`'s last drain. Every signal is judged when it is sent (`Signals`), a second
SIGTERM like the first. The helper writes, exits or gets stuck in the kernel at any
point; once reaped, its PID may be anyone's. Bytes are counted, not kept. A read
of the non-blocking pipe is not interrupted by signals.

**`UsbLayout`** is `Layout::parse`. A configuration is a sequence of descriptors
(interfaces, endpoints, unions, associations, and *malformed* for one whose
length is wrong), and the device is any that differs from a template by `Edits`
insertions, replacements and removals. `Visible` is what nusb's iterators show:
they stop at the first malformed descriptor.

**`FramePath`** is the way of a frame in byte positions: `packet::decode`, one
message per step; `Message`; `Batch::decode`, one record per step; and
`packet::encode`. An input is its length and, if its writer is sound, the
headers by offset; anywhere else a decoder may read any of `PacketHeads` or
`RecordHeads`. So a decoder that stands at a wrong offset of a sound buffer
reads garbage, as it would.

**`UsbPath`** composes the two: the packet size of the layout that was chosen,
and the transfer limit that was negotiated, bound what `encode` makes.

**`CommandRunner`** is `Runner::capture` with `Process::drop`. Each turn of
`Capture::drain`, `try_wait` and `poll` is a step. The command may write to both
pipes, close them, leave a process behind that holds them, exit, or not be
killable.

**`Launch`** is how the supervisor comes up and starts a worker: `Context::enter`
with launchctl's re-execution, the lock, a probe, the session's BPF device and
channel, then fork, `gb_worker_prepare` step by step, and exec. The descriptor
table is a function from numbers to what is open there, with up to `Strays`
inherited descriptors anywhere, also above the limit. The library's error pipe
is one of the descriptors: a child that dies without it looks like a success.

**`Installer`** is the transaction of `install.sh` (one command of `Script` per
step, the assignment after it a step of its own, `Note`; `made` says that the
first half of such a pair is done), its rollback in the
EXIT trap, `identity.sh` and `uninstall.sh`, which share `DeleteInstallation`.
The account is what `identity::account::create` has written so far (`step`) with
the nonces of its two records; the supervisor's `Account::load` is `Loads`, over
the same attributes. A failing command, a signal (`Abort`, `Interrupt`), loss of
power, launchd and an administrator are actions. The administrator acts at any
point, also between a script's last look at a record and the command that changes
it: between `names::check` and the `dscl -create` commands (`Account`), and between
the nonce read again and `dscl -delete` (`Reread`, `Delete`). `late` is the history
of that: the records that changed in such a window.

**`Bridge_proofs`**, **`UsbWorker_proofs`**, **`RndisControl_proofs`**,
**`CommandRunner_proofs`**, **`WorkerProcess_proofs`**, **`Launch_proofs`**,
**`Routing_proofs`**, **`UsbPath_proofs`** hold the theorems; **`MCBridge`**, **`MCRouting`**, **`MCUsbWorker`**,
**`MCRndisControl`**, **`MCWorkerProcess`**, **`MCUsbPath`**,
**`MCCommandRunner`**, **`MCLaunch`**, **`MCInstaller`** the instances for TLC.
Definitions called *mutant* in a comment are wrong variants of the definition
that follows them; each shows that a property can fail.

## Runs

| Run | Instance | Shows |
| --- | --- | --- |
| `bridge` | 2 units, batch 2, 3 failures, retry at 2, channel 1, `daemon` | `OrderedTeardown`, `CleanBetweenSessions`, `Ownership`, `ForeignUntouched`, `BridgedWhenActive`; `KeepsPromise` (refinement of `Session`), `SessionEnds`, `ServedMeansLeased` |
| `routing` | 2 physical interfaces, one of them steady, 2 gateways, a VPN, a stale feth | `HonestWrites`, `QuietRecovery`, `RecoveryEnds` |
| `routing_wins` | as `routing`, neither steady | violated: `IndependentDefaultWins`, see Findings |
| `worker` | 2 bulk-in transfers of up to 2 frames, 2 frames after the announcement, channel 1 | `InOrder`, `TransferLimits`, `QuietHalt`, `HonestOutcome`, `WorkerEnds` |
| `rndis` | 4 ids, 2 responses per request, 2 queued, all faults | `Listening`, `OwnAnswers`, `ExchangeEnds` |
| `rndis_fair` | 3 responses, 3 queued, no faults, `NotifyingSpec` | `NeverRejected`, `DisconnectEnds` |
| `process` | allowance 8, reads of 2, 2 reads a drain, 3 drains, 10 bytes | `NoHiddenOverflow`, `NoneLeft`, `SignalsOwn`, `AlwaysEnds` |
| `usb_path` | 3 sound devices and all within 2 edits of one; transfers and buffers of up to 3 frames with lengths at the boundaries; unsound ones | `WholeFunction`, `SoundChosen`, `FramesApart`, `SoundServed`, `ShortPacketEnds` |
| `command` | limit 3, reads of 2, 2 reads a turn, pipes of 3, 4 bytes written | `WholeOutput`, `CaptureEnds`, `KillsOwn` |
| `launch` | descriptors 3 to 12, 3 inherited, limits 3 to 20 | `Confined`, `HonestSpawn`, `LaunchEnds` |
| `installer` | nothing bounded | `Recoverable`, `CommittedLoads`, `OnlyOwn`, `QuietDeletion` |
| `installer_signal` | as `installer` | violated: `ReceiptsIntact`, see Findings |

Bounds. Two feth units are a pair; other programs take and give back the same
names before, between and after our sessions, which is what name reuse needs
(the proofs cover any number). A batch of 2 and a channel of 1 already make the
channel full, empty, and the batch end early or late; 3 failures with a retry at
the second make the retry and the end different checks. `connect`
(`Repeat = FALSE`) differs from `daemon` in returning after its session; that it
too refines `Session` is proved, not run. Two gateways and two physical
interfaces let a route differ from another in either field; in
`routing` one of the interfaces keeps its link, address and router (`MCSpec`), since
recovery asks about none but `previous.interface`, which may be either, and of the
other needs only that it can be selected; the theorems have no such limit. In
`routing_wins` both change, and are interchangeable (`MCSymmetry`). Two transfers of two
frames keep frames in the endpoint, the thread and the channel at once. The
process run keeps the proportions of the source (4 reads of 1024 and 3 drains
are more than the allowance of 8192, two drains are not), with room in the pipe
for an overflow. `usb_path` uses the real limits (1514, 44, 16384, 18): a frame's
length is only ever compared, aligned and taken modulo the packet size, so
lengths on both sides of each boundary are enough; its devices have a union and
an association, neither, or an association only. `command` can write one byte
more than its limit and more to a pipe than a turn takes from it. In `launch`
the supervisor and its child use up to seven descriptors, so three strays leave
every number from 3 to 10 free in one state and taken in another. `installer`
has one installation, then uninstallations as often as they are possible, and
one act of an administrator. `CHECK_DEADLOCK FALSE` stands where a program
really ends.

Fairness. The supervisor is one thread and every call it makes is bounded by a
deadline of its own (`Runner::capture`, `Worker::stop`, `poll(2)`), so `WF` of
its next step; the clocks advance. The same holds for each thread of the worker,
whose waits all have timeouts, and for the supervisor in `WorkerProcess` and the
caller in `CommandRunner`, whose waits are sleeps and polls of 20 ms. In `Launch`
both processes are scheduled: none of the calls between fork and exec waits for
another process. In
`RndisControl` the host and its deadlines are fair; `NotifyingSpec` adds a device
that sends the notifications for what it queued, and is used only for what a
working device can expect. Nothing is assumed of the worker in `Bridge`, of
the device and the supervisor in `UsbWorker`, of the host in `Routing`, or of
other programs.

## Proofs

`Bridge_proofs` proves for every set of units and all bounds that the
supervisor's invariants hold, and that its steps are those of `Session`
(`KeepsPromiseSafely`). The inductive invariant is

    IInv == TypeOK /\ WithdrawnFirst /\ Ownership /\ Staging

`Ownership` says that the interfaces of ours that exist are exactly those the
supervisor still holds (in its `Pair` or in the locals of `remove`) and, apart
from them, those it gave up on: therefore a name it holds is never another
program's, and a destroy never hits one. `Staging` says what exists at each
stage, e.g. that BPF is open only from `Spawn` to `CloseBpf`, on the transport
of the pair, and that `ready` implies a configured pair with DHCP requested.
None of the checked properties is inductive alone. The proofs go action by
action; Boolean flags have a lemma of their own, since the rest of the type
invariant then needs no case analysis on them. The only assumption is
`BridgeAssumption`.

`UsbWorker_proofs` proves types and the worker's invariants for any number
of transfers, channel size and packing. Its inductive invariant adds three parts:
`Threads` (which threads exist, and for whom the main thread has waited),
`Buffers` (every bulk-in buffer is in flight, completed, or in the receiving
thread's hands: 8 = pending + completed + at most 1) and `Causes` (the flag is
raised only for a request, an orphaned worker or a recorded failure, and a
failure is recorded before its thread ends). `TransferLimits` combines a
case of `Buffers` with the pc of the transmitting thread; `HonestOutcome` needs `Causes` and that both threads were joined. The
type invariant is proved in parts, since what a completion does to the queue is
a fact about sequences of sequences. `InOrder` has an invariant of its own,
`OneLine` (the theorem judges each step that takes a datagram, whether it changes
`received` or not): the channel, the decoded frames that wait and the completions that
were not reaped, read in this order, are one line of rising numbers between the
last datagram received and the last frame produced; `Announced` adds that the
announcement is in the channel before the receiving thread exists. The
assumption is `WorkerAssumption`.

`RndisControl_proofs` proves types, `Listening` and `OwnAnswers` for any number
of ids above two and any set of faults. `OwnAnswers` is not inductive: what
protects an exchange is that completions of earlier requests which are still
queued carry another id (`Freshness`) and come before those of the request in
progress (`Order`), so that sending a new request cannot make an old one match.
With two ids, one stale completion is enough to fail. `NeverRejected` is proved
for devices whose `Faults` are among "silent" and "gone" (the run has none): what
they send is sound (`Sound`), and between exchanges no completion is left, so
that each exchange finds at most its own (`Settled`). For a device that sends
unsound messages it is false, as it should be.

`CommandRunner_proofs` proves types, `WholeOutput` and `KillsOwn` for every output
limit, read size, pipe and number of bytes. Its invariant is

    IInv == TypeOK /\ Conserved /\ Closing /\ Reaped

`Conserved`: until the call fails, every byte written was taken or is still in
the pipe. `Closing`: a stream counts as closed only when nobody can write to it
and its pipe is empty. `Reaped`: output is returned only for a command that was
reaped, with both streams closed. Together they give `WholeOutput`, which alone
says nothing of bytes in a pipe. The assumption is `CommandAssumption`.

`WorkerProcess_proofs` proves types, `NoHiddenOverflow`, `NoneLeft` and
`SignalsOwn` for every allowance, pipe and number of bytes. Its invariant is

    IInv == TypeOK /\ Held /\ Gone /\ Relayed /\ Emptying /\ Answered

`Held` ties the PID to the helper until it is reaped, from which `SignalsOwn`
follows for each sending of SIGTERM and SIGKILL, in the first stop or a later
one; `Gone` says what a stop
leaves, `Relayed` where every byte is. `Emptying` is what `NoHiddenOverflow`
needs: after the exit each read is a full one until the pipe is empty, so that
`Done` bytes were read when it is not; after the last read that exceeds every
allowance (`DoneAll`). This uses `Surplus * Reads * Chunk > Allowance` of
`ProcessAssumption`, which the code's 3 * 4 * 1024 > 8192 satisfies.

`Launch_proofs` proves types, `Confined` and `HonestSpawn` for every descriptor
table, limit and set of inherited descriptors. Its invariant follows the child:
what is kept is below the ceiling until it is marked, then the channel only
(`Sweep`); the credentials that were looked at stay (`Dropping`); and there is a
report pipe on a descriptor that is not 3 (`Reports`), because the lock, which is
opened first, takes 3 unless something inherited is there (`Entered`). That the
sweep reaches every descriptor, and that the least free number is taken, are
lemmas on finite sets of numbers. The assumption is `LaunchAssumption`.

`Routing_proofs` proves types, `HonestWrites` and `QuietRecovery` for any set of
physical interfaces and routers. Its invariant says what the check (`Checked`)
and recovery (`Recovered`, `Aimed`, `Quiet`) know while the host does not change,
and that time runs out in recovery only. `Recovered` is what the two looks at the
default and the table say until `raced`; `Aimed` what `ifconfig` and `ipconfig`
said until `moved`: that the interface has its link, then an address, and that the
target is its router. Each part of `HonestWrites` follows from one of the two. The assumptions are `RoutingAssumption` and
`NoRouteAssumption`.

`UsbPath_proofs` proves all five properties of its run. The invariant is

    IInv == Standing /\ FramesApart /\ Chosen /\ ShortPacketEnds /\ Serving /\ Selected

`FramesApart` holds for inputs of any length with any headers, from where the
decoder stands (`Standing`); `ShortPacketEnds` for every layout, since the packet
size that `Layout::parse` accepts is above one (`Chosen`, `ParsedSize`).
`SoundServed` needs `Serving`: in the input of a sound writer the decoder stands
at a header or at the end, never between, and has found the frame of every
header before it; and the limit is at least 1558 bytes, which no packet size
divides, so that the largest frame fits even where shorter ones are padded.
`WholeFunction` holds for chains of any length of any descriptors (`Selected`):
associations are disjoint, so the one that holds the data interface is the one
that the control interface opens; and the three endpoints differ because the
bulk ones have different directions and neither is the notification's. For
`SoundChosen` the templates must be sound, and the theorem says what that means:
a `SoundDevice` declares as many interfaces as it has and contains, anywhere among
its descriptors, a function of one of the three shapes of the run (association and
union, `Joined`; neither, with an idle setting, `Bare`; association only, `Bound`),
with any interface numbers, endpoint addresses and packet sizes. What stands
before and behind it is any number of sound functions of other kinds (`Others`):
no second RNDIS interface, no interface of the same numbers, no association over
the same numbers, settings with the endpoints they declare. The proof shows for
each shape that it is a whole function (`FunctionIn`) and once for all three that
`Layout::parse` accepts it (`FunctionAccepted`). Functions with further
descriptors or settings inside are covered neither by the run's templates nor by
the theorem. The assumptions are `InputAssumption` and `HeadAssumption`, which say
what a sound writer's headers look like (one behind the other, none inside
another's message), and `DescriptorAssumption`, which gives the fields of a
descriptor their widths.

Only model-checked: liveness (`SessionEnds`, `ServedMeansLeased`, `RecoveryEnds`,
`WorkerEnds`, `ExchangeEnds`, `DisconnectEnds`, `AlwaysEnds`, `CaptureEnds`,
`LaunchEnds`, and the fairness of `Session` within `KeepsPromise`), which the
provers cannot do; and everything in `Installer`, which has no constants: its
run is exhaustive, and a proof would say nothing more.

## Findings

`routing_wins`: a comment in `route.rs` says that an independently selected
default always wins. Recovery looks at the default and at the table and then
runs `route` as a separate command, so a default selected in between is
replaced and then confirmed. `HonestWrites` is what does hold: nothing is
overridden that was there when the decision's first look was taken. The same
window exists in the network check, where the default replaced may also differ
from the one saved for recovery; `HonestWrites` claims that only without that race.

`installer_signal`: `identity.sh` says that a rollback which cannot prove what it
may remove leaves the recovery receipts intact, and `install.sh` prints where
they are. Between `mv` and `identity_receipt="$destination/IDENTITY"` a signal
makes the EXIT trap look for the receipt where it no longer is; the account's
cleanup is skipped as if no receipt had been made, and the installation
directory is deleted with the receipt in it. What does hold is `Recoverable`: a
copy with the same nonces remains in the data directory, for an administrator.

Three smaller observations, without a run. A record of the worker's name that
another administrator makes or replaces between the scripts' last look at it
(`identity.sh:119`, `:286`) and the `dscl` command after it is overwritten or
deleted, which the comment at `:285` ("immediately before") concedes; `OnlyOwn`
claims what holds, that the look comes directly before the deletion and that a
record seen by it is left alone. A signal between `mkdir` of the data
directory and `identity_home_created=1` (`identity.sh:322-323`) leaves an empty
directory that the next installation refuses. And an uninstallation that is
interrupted once a record is deleted cannot be finished by running it again,
since `identity::session::stop` demands complete records.

## Not modelled

Contents of frames; the layout of control messages and descriptors below the
fields the parsers compare; file metadata, signatures and entitlements, which
are checked once and keep no state (`macos::access` apart from the descriptor
ceiling, `worker_app`, `usb::confinement`); argument parsing and escaping;
`Worker::inspect`, which is a command under `Runner::capture`; the selection of
exactly one device; the installer's checks of its bundle, the choice of a
numeric id, `setup.sh`; release scripts and tests. Times are flags that clock
actions set, so durations are not compared; that SIGKILL follows SIGTERM after
two seconds while a control exchange may take longer is listed among the
hazards. Interruption of `poll` by signals other than those with a handler does
not occur. An administrator who destroys the supervisor's interfaces by hand is
left out, and so is one who starts `connect` while a script runs.

## Plan

Modelled and checked: `Session`, `Bridge`, `Routing`, `UsbWorker`,
`RndisControl`, `WorkerProcess`, `UsbPath`, `CommandRunner`, `Launch`,
`Installer`; proved about: all of them but `Session` and `Installer`. Left:

1. `SoundChosen` for functions with further descriptors and settings inside
   them; what stands around them is already arbitrary.
2. `System`: `Bridge` composed with `UsbWorker` over one channel: the real worker
   never meets "unexpected worker protocol state".
