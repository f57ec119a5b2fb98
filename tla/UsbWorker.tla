----------------------------- MODULE UsbWorker ------------------------------
(***************************************************************************)
(* The USB worker (src/worker.rs): a receiving thread moves frames from    *)
(* bulk-in transfers to the supervisor's channel, a transmitting thread    *)
(* moves datagrams to one bulk-out transfer at a time, and the main thread *)
(* watches the supervisor, the two threads and the device.  They share     *)
(* one flag, which anyone sets and nobody clears.                          *)
(*                                                                         *)
(* Every wait in the code has a timeout: where it may expire, the thread's *)
(* step is always enabled.                                                 *)
(***************************************************************************)
EXTENDS Naturals, Sequences

CONSTANTS
    Transfers,   \* bulk-in transfers kept in flight (8)
    Capacity,    \* datagrams the channel buffers in one direction
    Packed,      \* frames the device packs in one transfer, at most
    LastFrame    \* bound: the device sends frames 2 .. LastFrame

ASSUME WorkerAssumption ==
    /\ Transfers \in Nat \ {0} /\ Capacity \in Nat \ {0}
    /\ Packed \in Nat /\ LastFrame \in Nat \ {0}

VARIABLES
    stop,        \* the AtomicBool shared by the signal handlers and threads
    \* main thread
    main,        \* what it does next
    due,         \* three seconds since last_check
    failure,     \* the keepalive failed
    outcome,     \* how the process ended
    \* receiving thread
    rx, rxFailed,
    batch,       \* decoded frames still to be sent
    \* transmitting thread
    tx, txFailed,
    \* bulk endpoints
    pending,     \* bulk-in transfers in flight
    completed,   \* completions the receiving thread has not taken
    flying,      \* bulk-out transfers in flight
    answer,      \* completion of a bulk-out transfer
    \* channel
    toHost,      \* datagrams: Ready, and the numbers of frames
    toUsb,       \* how many frames wait for the device
    \* supervisor and device
    supervisor,  \* "alive" or "dead"
    asked,       \* it sent SIGTERM
    received,    \* the last datagram it took
    device,      \* "well", "mute" (answers nothing) or "gone"
    produced     \* the last frame the device sent

thread   == <<main, due, failure, outcome>>
receive  == <<rx, rxFailed, batch>>
transmit == <<tx, txFailed>>
bulkIn   == <<pending, completed>>
bulkOut  == <<flying, answer>>
channel  == <<toHost, toUsb>>
parent   == <<supervisor, asked, received>>
phone    == <<device, produced>>
vars     == <<stop, thread, receive, transmit, bulkIn, bulkOut, channel, parent, phone>>

Running == {"Stop", "Parent", "Threads", "Keepalive"}
Ending  == {"Finish", "JoinRx", "JoinTx"}

Ready   == 1
Frames  == 2 .. LastFrame

\* A transfer with its frames, or one that failed or packet::decode rejects.
Completions == [ok : BOOLEAN, frames : Seq(Frames)]
Broken      == [ok |-> FALSE, frames |-> <<>>]

Flags ==
    /\ stop \in BOOLEAN /\ due \in BOOLEAN /\ failure \in BOOLEAN
    /\ rxFailed \in BOOLEAN /\ txFailed \in BOOLEAN /\ asked \in BOOLEAN

TypeOK ==
    /\ Flags
    /\ main \in {"Open", "Announce", "Start", "Halt", "Exited"} \cup Running \cup Ending
    /\ outcome \in {"none", "ok", "error", "killed"}
    /\ rx \in {"Idle", "Stop", "Wait", "Next", "Send", "Leave", "Ended"}
    /\ tx \in {"Idle", "Stop", "Receive", "Await", "Leave", "Ended"}
    /\ batch \in Seq(Frames) /\ Len(batch) \in 0 .. Packed
    /\ pending \in 0 .. Transfers
    /\ completed \in Seq(Completions) /\ Len(completed) \in 0 .. Transfers
    /\ \A i \in DOMAIN completed : Len(completed[i].frames) \in 0 .. Packed
    /\ flying \in Nat /\ answer \in {"none", "ok", "bad"}
    /\ toHost \in Seq({Ready} \cup Frames) /\ Len(toHost) \in 0 .. Capacity
    /\ toUsb \in 0 .. Capacity
    /\ supervisor \in {"alive", "dead"} /\ device \in {"well", "mute", "gone"}
    /\ received \in 0 .. LastFrame /\ produced \in 1 .. LastFrame

Init ==
    /\ stop = FALSE
    /\ main = "Open" /\ due = FALSE /\ failure = FALSE /\ outcome = "none"
    /\ rx = "Idle" /\ rxFailed = FALSE /\ batch = <<>>
    /\ tx = "Idle" /\ txFailed = FALSE
    /\ pending = 0 /\ completed = <<>> /\ flying = 0 /\ answer = "none"
    /\ toHost = <<>> /\ toUsb = 0
    /\ supervisor = "alive" /\ asked = FALSE /\ received = 0
    /\ device \in {"well", "mute", "gone"} /\ produced = 1

-----------------------------------------------------------------------------
(* The main thread.                                                         *)

\* Session::open: claims and three bounded control exchanges.  Its failure
\* drops the Session, which sends HALT, once there is one.
Open ==
    /\ main = "Open"
    /\ \/ device = "well" /\ main' = "Announce" /\ UNCHANGED outcome
       \/ main' \in {"Halt", "Exited"} /\ outcome' = "error"
    /\ UNCHANGED <<stop, due, failure, receive, transmit, bulkIn, bulkOut,
                   channel, parent, phone>>

\* The announcement; here any failure of the send ends the worker.
Announce ==
    /\ main = "Announce"
    /\ \/ /\ supervisor = "alive" /\ Len(toHost) < Capacity
          /\ toHost' = Append(toHost, Ready)
          /\ main' = "Start" /\ UNCHANGED outcome
       \/ main' = "Halt" /\ outcome' = "error" /\ UNCHANGED toHost
    /\ UNCHANGED <<stop, due, failure, receive, transmit, bulkIn, bulkOut,
                   toUsb, parent, phone>>

\* All bulk-in transfers are submitted before the threads start.
Start ==
    /\ main = "Start"
    /\ \/ /\ pending' = Transfers /\ rx' = "Stop" /\ tx' = "Stop"
          /\ main' = "Stop" /\ UNCHANGED outcome
       \/ /\ main' = "Halt" /\ outcome' = "error"
          /\ UNCHANGED <<pending, rx, tx>>
    /\ UNCHANGED <<stop, due, failure, rxFailed, batch, txFailed, completed,
                   bulkOut, channel, parent, phone>>

Go(from, to) ==
    /\ main = from /\ main' = to
    /\ UNCHANGED <<due, outcome, receive, transmit, bulkIn, bulkOut, channel,
                   parent, phone>>

CheckStop == Go("Stop", IF stop THEN "Finish" ELSE "Parent") /\ UNCHANGED <<stop, failure>>

\* Mutant: the worker does not look for its supervisor.
CheckParentBlind == Go("Parent", "Threads") /\ UNCHANGED <<stop, failure>>

\* getppid() names another process once the supervisor is dead.
CheckParent ==
    Go("Parent", IF supervisor = "dead" THEN "Finish" ELSE "Threads")
        /\ UNCHANGED <<stop, failure>>

\* Mutant: no keepalive.
CheckThreadsOnly ==
    /\ Go("Threads", IF rx = "Ended" \/ tx = "Ended" THEN "Finish" ELSE "Stop")
    /\ UNCHANGED <<stop, failure>>

CheckThreads ==
    /\ Go("Threads", IF rx = "Ended" \/ tx = "Ended" THEN "Finish"
                     ELSE IF due THEN "Keepalive" ELSE "Stop")
    /\ UNCHANGED <<stop, failure>>

\* One control exchange, of two seconds and a half at most.
Keepalive ==
    /\ main = "Keepalive"
    /\ \/ device = "well" /\ due' = FALSE /\ main' = "Stop" /\ UNCHANGED failure
       \/ failure' = TRUE /\ main' = "Finish" /\ UNCHANGED due
    /\ UNCHANGED <<stop, outcome, receive, transmit, bulkIn, bulkOut, channel,
                   parent, phone>>

\* Mutant: the threads are not joined.
FinishAtOnce ==
    /\ main = "Finish" /\ main' = "Halt" /\ outcome' = "ok" /\ stop' = TRUE
    /\ UNCHANGED <<due, failure, receive, transmit, bulkIn, bulkOut, channel,
                   parent, phone>>

Finish == Go("Finish", "JoinRx") /\ stop' = TRUE /\ UNCHANGED failure

JoinRx == rx = "Ended" /\ Go("JoinRx", "JoinTx") /\ UNCHANGED <<stop, failure>>

\* Mutant: the result of the receiving thread is dropped.
JoinTxOnly ==
    /\ main = "JoinTx" /\ tx = "Ended"
    /\ main' = "Halt"
    /\ outcome' = IF failure \/ txFailed THEN "error" ELSE "ok"
    /\ UNCHANGED <<stop, due, failure, receive, transmit, bulkIn, bulkOut,
                   channel, parent, phone>>

JoinTx ==
    /\ main = "JoinTx" /\ tx = "Ended"
    /\ main' = "Halt"
    /\ outcome' = IF failure \/ rxFailed \/ txFailed THEN "error" ELSE "ok"
    /\ UNCHANGED <<stop, due, failure, receive, transmit, bulkIn, bulkOut,
                   channel, parent, phone>>

\* Session::drop; a failed HALT is ignored.
Halt == Go("Halt", "Exited") /\ UNCHANGED <<stop, failure>>

Main ==
    \/ Open \/ Announce \/ Start
    \/ CheckStop \/ CheckParent \/ CheckThreads \/ Keepalive
    \/ Finish \/ JoinRx \/ JoinTx \/ Halt

-----------------------------------------------------------------------------
(* The receiving thread.                                                    *)

RxStop ==
    /\ rx = "Stop"
    /\ rx' = IF stop THEN "Leave" ELSE "Wait"
    /\ UNCHANGED <<stop, thread, rxFailed, batch, transmit, bulkIn, bulkOut,
                   channel, parent, phone>>

\* A completion, in the order of submission, or 100 ms without one.
RxWait ==
    /\ rx = "Wait"
    /\ IF completed = <<>>
       THEN rx' = "Stop" /\ UNCHANGED <<rxFailed, batch, completed>>
       ELSE /\ completed' = Tail(completed)
            /\ batch' = Head(completed).frames
            /\ rx' = IF Head(completed).ok THEN "Next" ELSE "Leave"
            /\ rxFailed' = ~Head(completed).ok
    /\ UNCHANGED <<stop, thread, transmit, pending, bulkOut, channel, parent, phone>>

\* Mutant: the buffer of an empty transfer is not submitted again.
RxNextLost ==
    /\ rx = "Next"
    /\ IF batch = <<>> \/ stop
       THEN rx' = "Stop" /\ batch' = <<>> /\ UNCHANGED pending
       ELSE rx' = "Send" /\ UNCHANGED <<batch, pending>>
    /\ UNCHANGED <<stop, thread, rxFailed, transmit, completed, bulkOut,
                   channel, parent, phone>>

\* The flag is checked before every frame; then the buffer is submitted again.
RxNext ==
    /\ rx = "Next"
    /\ IF batch = <<>> \/ stop
       THEN rx' = "Stop" /\ batch' = <<>> /\ pending' = pending + 1
       ELSE rx' = "Send" /\ UNCHANGED <<batch, pending>>
    /\ UNCHANGED <<stop, thread, rxFailed, transmit, completed, bulkOut,
                   channel, parent, phone>>

\* Mutant: a frame that meets backpressure is tried again after the others.
RxSendLater ==
    /\ rx = "Send"
    /\ \/ /\ Len(toHost) < Capacity
          /\ toHost' = Append(toHost, Head(batch))
          /\ batch' = Tail(batch)
       \/ /\ batch' = Append(Tail(batch), Head(batch))
          /\ UNCHANGED toHost
    /\ rx' = "Next"
    /\ UNCHANGED <<stop, thread, rxFailed, transmit, bulkIn, bulkOut, toUsb,
                   parent, phone>>

\* Mutant: a datagram that was queued is sent again.
RxSendTwice ==
    /\ rx = "Send" /\ rx' = "Next"
    /\ supervisor = "alive" /\ Len(toHost) < Capacity
    /\ toHost' = Append(toHost, Head(batch))
    /\ batch' \in {batch, Tail(batch)}
    /\ UNCHANGED <<stop, thread, rxFailed, transmit, bulkIn, bulkOut, toUsb,
                   parent, phone>>

\* Sent, dropped under backpressure, or refused: the peer is gone, or send
\* fails for another reason.
RxSend ==
    /\ rx = "Send"
    /\ \/ /\ supervisor = "alive" /\ Len(toHost) < Capacity
          /\ toHost' = Append(toHost, Head(batch))
          /\ batch' = Tail(batch) /\ rx' = "Next" /\ UNCHANGED rxFailed
       \/ /\ batch' = Tail(batch) /\ rx' = "Next"
          /\ UNCHANGED <<rxFailed, toHost>>
       \/ /\ rx' = "Leave" /\ rxFailed' = TRUE /\ UNCHANGED <<batch, toHost>>
    /\ UNCHANGED <<stop, thread, transmit, bulkIn, bulkOut, toUsb, parent, phone>>

\* cancel_all, and the end of the thread, which drops the endpoint.
RxLeave ==
    /\ rx = "Leave"
    /\ pending' = 0 /\ completed' = <<>> /\ batch' = <<>>
    /\ stop' = TRUE /\ rx' = "Ended"
    /\ UNCHANGED <<thread, rxFailed, transmit, bulkOut, channel, parent, phone>>

Rx == RxStop \/ RxWait \/ RxNext \/ RxSend \/ RxLeave

-----------------------------------------------------------------------------
(* The transmitting thread.                                                 *)

\* Mutant: the transmitting thread does not look at the flag.
TxStopDeaf ==
    /\ tx = "Stop" /\ tx' = "Receive"
    /\ UNCHANGED <<stop, thread, receive, txFailed, bulkIn, bulkOut, channel,
                   parent, phone>>

TxStop ==
    /\ tx = "Stop"
    /\ tx' = IF stop THEN "Leave" ELSE "Receive"
    /\ UNCHANGED <<stop, thread, receive, txFailed, bulkIn, bulkOut, channel,
                   parent, phone>>

\* A frame is submitted, or refused by decode or encode; nothing arrives for
\* 100 ms; or recv fails otherwise, since the peer is gone or for any reason.
TxReceive ==
    /\ tx = "Receive"
    /\ \/ toUsb = 0 /\ tx' = "Stop" /\ UNCHANGED <<txFailed, flying, toUsb>>
       \/ /\ toUsb > 0 /\ toUsb' = toUsb - 1
          /\ flying' = flying + 1 /\ tx' = "Await" /\ UNCHANGED txFailed
       \/ /\ toUsb > 0 /\ toUsb' = toUsb - 1
          /\ tx' = "Leave" /\ txFailed' = TRUE /\ UNCHANGED flying
       \/ /\ tx' = "Leave" /\ txFailed' = TRUE /\ UNCHANGED <<flying, toUsb>>
    /\ UNCHANGED <<stop, thread, receive, bulkIn, answer, toHost, parent, phone>>

\* Mutant: a transfer that timed out is given up, and the next one submitted.
TxAwaitRetry ==
    /\ tx = "Await"
    /\ answer' = "none"
    /\ tx' = IF answer = "bad" THEN "Leave" ELSE "Stop"
    /\ txFailed' = (answer = "bad")
    /\ UNCHANGED <<stop, thread, receive, bulkIn, flying, channel, parent, phone>>

\* The completion, or 500 ms without one.
TxAwait ==
    /\ tx = "Await"
    /\ answer' = "none"
    /\ tx' = IF answer = "ok" THEN "Stop" ELSE "Leave"
    /\ txFailed' = (answer # "ok")
    /\ UNCHANGED <<stop, thread, receive, bulkIn, flying, channel, parent, phone>>

\* The end of the thread, which drops the endpoint and what is in flight.
TxLeave ==
    /\ tx = "Leave"
    /\ flying' = 0 /\ answer' = "none"
    /\ stop' = TRUE /\ tx' = "Ended"
    /\ UNCHANGED <<thread, receive, txFailed, bulkIn, channel, parent, phone>>

Tx == TxStop \/ TxReceive \/ TxAwait \/ TxLeave

-----------------------------------------------------------------------------
(* Everyone else.                                                           *)

\* The device completes the oldest bulk-in transfer: with some frames, or
\* with bytes that are no RNDIS packets; a lost device fails it.
Complete ==
    /\ pending > 0 /\ pending' = pending - 1
    /\ \/ /\ device = "well"
          /\ \E n \in 0 .. Packed :
                /\ produced' = produced + n /\ produced' <= LastFrame
                /\ completed' = Append(completed,
                       [ok |-> TRUE, frames |-> [i \in 1 .. n |-> produced + i]])
       \/ device \in {"well", "gone"}
          /\ completed' = Append(completed, Broken) /\ UNCHANGED produced
    /\ UNCHANGED <<stop, thread, receive, transmit, bulkOut, channel, parent, device>>

\* A bulk-out transfer completes in full, short, or with an error.
Acknowledge ==
    /\ flying > 0 /\ flying' = flying - 1
    /\ \/ device = "well" /\ answer' = "ok"
       \/ device \in {"well", "gone"} /\ answer' = "bad"
    /\ UNCHANGED <<stop, thread, receive, transmit, bulkIn, channel, parent, phone>>

DeviceChanges ==
    /\ device # "gone" /\ device' \in {"well", "mute", "gone"} \ {device}
    /\ UNCHANGED <<stop, thread, receive, transmit, bulkIn, bulkOut, channel,
                   parent, produced>>

IntervalPasses ==
    /\ main \in Running /\ ~due /\ due' = TRUE
    /\ UNCHANGED <<stop, main, failure, outcome, receive, transmit, bulkIn,
                   bulkOut, channel, parent, phone>>

SupervisorTakes ==
    /\ supervisor = "alive" /\ toHost # <<>>
    /\ received' = Head(toHost) /\ toHost' = Tail(toHost)
    /\ UNCHANGED <<stop, thread, receive, transmit, bulkIn, bulkOut, toUsb,
                   supervisor, asked, phone>>

SupervisorSends ==
    /\ supervisor = "alive" /\ main # "Exited" /\ toUsb < Capacity
    /\ toUsb' = toUsb + 1
    /\ UNCHANGED <<stop, thread, receive, transmit, bulkIn, bulkOut, toHost,
                   parent, phone>>

\* SIGTERM, which the worker's handler turns into the flag.
SupervisorStops ==
    /\ supervisor = "alive" /\ main # "Exited" /\ ~asked
    /\ asked' = TRUE /\ stop' = TRUE
    /\ UNCHANGED <<thread, receive, transmit, bulkIn, bulkOut, channel,
                   supervisor, received, phone>>

SupervisorDies ==
    /\ supervisor = "alive" /\ supervisor' = "dead"
    /\ toHost' = <<>>
    /\ UNCHANGED <<stop, thread, receive, transmit, bulkIn, bulkOut, toUsb,
                   asked, received, phone>>

\* SIGKILL: the threads end where they are.
Kill ==
    /\ main # "Exited" /\ main' = "Exited" /\ outcome' = "killed"
    /\ rx' = "Ended" /\ tx' = "Ended" /\ batch' = <<>>
    /\ pending' = 0 /\ completed' = <<>> /\ flying' = 0 /\ answer' = "none"
    /\ UNCHANGED <<stop, due, failure, rxFailed, txFailed, channel, parent, phone>>

Environment ==
    \/ Complete \/ Acknowledge \/ DeviceChanges \/ IntervalPasses
    \/ SupervisorTakes \/ SupervisorSends \/ SupervisorStops \/ SupervisorDies
    \/ Kill

Next == Main \/ Rx \/ Tx \/ Environment

\* Threads are scheduled, their waits are bounded, and time passes.  Nothing
\* is assumed of the device or the supervisor.
Fairness == WF_vars(Main) /\ WF_vars(Rx) /\ WF_vars(Tx) /\ WF_vars(IntervalPasses)

Spec == Init /\ [][Next]_vars /\ Fairness

-----------------------------------------------------------------------------
(* Properties.                                                              *)

\* Each datagram the supervisor takes is later than all it took before: the
\* announcement first and once, then frames of the device, some lost but none
\* invented, repeated (also at once) or overtaken.
InOrder ==
    [][SupervisorTakes =>
            /\ received' \in received + 1 .. produced
            /\ received = 0 => received' = Ready]_vars

\* "Eight pending RX transfers" (architecture.md): whenever the receiving
\* thread waits, each buffer is in flight or completed, so it never waits on
\* an endpoint that nothing was submitted to.
AllInFlight == rx = "Wait" => pending + Len(completed) = Transfers

\* "One TX transfer at a time" (architecture.md), also after a timeout.
OneTransfer ==
    /\ flying <= 1 /\ (flying = 1 => answer = "none")
    /\ tx \notin {"Await", "Leave"} => flying = 0 /\ answer = "none"

\* Both endpoints carry what their thread was given, and no more.
TransferLimits == AllInFlight /\ OneTransfer

\* HALT is sent when no transfer is in flight and no thread can start one.
QuietHalt ==
    main = "Halt" => /\ pending = 0 /\ flying = 0
                     /\ rx \in {"Idle", "Ended"} /\ tx \in {"Idle", "Ended"}

\* The worker reports success only when it was asked to stop, or lost its
\* supervisor, and neither thread nor the keepalive failed.
HonestOutcome ==
    outcome = "ok" => /\ asked \/ supervisor = "dead"
                      /\ ~failure /\ ~rxFailed /\ ~txFailed

\* The worker ends once anyone has raised the flag, once its supervisor is dead
\* ("do not retain USB ownership if the supervisor is force-killed", worker.rs),
\* and once its device is lost or stays mute.
WorkerEnds == <>[](stop \/ supervisor = "dead" \/ device # "well") => <>(main = "Exited")
=============================================================================
