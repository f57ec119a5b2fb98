-------------------------- MODULE UsbWorker_proofs --------------------------
(***************************************************************************)
(* Theorems about the USB worker, for any number of transfers, any channel *)
(* and any number of frames.                                               *)
(***************************************************************************)
EXTENDS UsbWorker, SequenceTheorems, TLAPS

-----------------------------------------------------------------------------
(* Parts of the invariant.                                                  *)

\* Why: which threads exist, and what the main thread waited for.
Threads ==
    /\ main \in {"Open", "Announce", "Start"} => rx = "Idle" /\ tx = "Idle"
    /\ main \in Running \cup Ending => rx # "Idle" /\ tx # "Idle"
    /\ main = "JoinTx" => rx = "Ended"
    /\ main \in {"Halt", "Exited"} =>
           rx \in {"Idle", "Ended"} /\ tx \in {"Idle", "Ended"}

\* Why: every buffer is in flight, completed, or in the receiver's hands.
Buffers ==
    /\ rx \in {"Stop", "Wait"} => pending + Len(completed) = Transfers
    /\ rx \in {"Next", "Send"} => pending + Len(completed) + 1 = Transfers
    /\ rx = "Leave" => pending + Len(completed) <= Transfers
    /\ rx \in {"Idle", "Ended"} => pending = 0 /\ completed = <<>>
    /\ rx = "Send" => batch # <<>>

\* Why: who raised the flag, and which failures are known by then.
Causes ==
    /\ rxFailed => rx \in {"Leave", "Ended"}
    /\ txFailed => tx \in {"Leave", "Ended"}
    /\ failure => main \in Ending \cup {"Halt", "Exited"}
    /\ rx = "Leave" => stop \/ rxFailed
    /\ tx = "Leave" => stop \/ txFailed
    /\ (rx = "Ended" \/ tx = "Ended") /\ main # "Exited" => stop
    /\ main \in {"JoinRx", "JoinTx"} => stop
    /\ stop \/ main = "Finish" =>
           asked \/ supervisor = "dead" \/ failure \/ rxFailed \/ txFailed
    /\ outcome = "ok" => main \in {"Halt", "Exited"}

IInv == TypeOK /\ Threads /\ Buffers /\ Causes /\ OneTransfer /\ HonestOutcome

-----------------------------------------------------------------------------
(* What the steps do to sequences.                                          *)

\* Taking the oldest completion, and adding one.
LEMMA TakeCompletion ==
    ASSUME TypeOK, completed # <<>>
    PROVE  /\ Len(completed) \in Nat \ {0}
           /\ Tail(completed) \in Seq(Completions)
           /\ Len(Tail(completed)) = Len(completed) - 1
           /\ Head(completed) \in Completions
           /\ Head(completed).frames \in Seq(Frames)
           /\ Head(completed).ok \in BOOLEAN
           /\ Len(Head(completed).frames) \in 0 .. Packed
           /\ \A i \in DOMAIN Tail(completed) :
                  Len(Tail(completed)[i].frames) \in 0 .. Packed
<1>1. completed \in Seq(Completions)
    BY DEF TypeOK
<1>2. /\ Len(completed) \in Nat \ {0}
      /\ Tail(completed) \in Seq(Completions)
      /\ Len(Tail(completed)) = Len(completed) - 1
      /\ Head(completed) \in Completions
      /\ \A i \in 1 .. Len(Tail(completed)) : Tail(completed)[i] = completed[i + 1]
    BY <1>1, HeadTailProperties, EmptySeq
<1>3. Head(completed).frames \in Seq(Frames) /\ Head(completed).ok \in BOOLEAN
    BY <1>2 DEF Completions
<1>4. DOMAIN completed = 1 .. Len(completed) /\ Head(completed) = completed[1]
    BY <1>1
<1>5. Len(Head(completed).frames) \in 0 .. Packed
    BY <1>2, <1>4 DEF TypeOK
<1>6. ASSUME NEW i \in DOMAIN Tail(completed)
      PROVE  Len(Tail(completed)[i].frames) \in 0 .. Packed
    <2>1. i \in 1 .. Len(completed) - 1
        BY <1>2
    <2>2. i + 1 \in DOMAIN completed /\ Tail(completed)[i] = completed[i + 1]
        BY <1>2, <1>4, <2>1
    <2>3. QED
        BY <2>2 DEF TypeOK
<1>7. QED
    BY <1>2, <1>3, <1>5, <1>6

\* Adding a completion keeps the queue's type and adds one to its length.
LEMMA AddCompletion ==
    ASSUME completed \in Seq(Completions), NEW c \in Completions,
           Len(c.frames) \in 0 .. Packed,
           \A i \in DOMAIN completed : Len(completed[i].frames) \in 0 .. Packed
    PROVE  /\ Append(completed, c) \in Seq(Completions)
           /\ Len(Append(completed, c)) = Len(completed) + 1
           /\ \A i \in DOMAIN Append(completed, c) :
                  Len(Append(completed, c)[i].frames) \in 0 .. Packed
<1> DEFINE longer == Append(completed, c)
<1>1. /\ longer \in Seq(Completions) /\ Len(longer) = Len(completed) + 1
      /\ \A i \in 1 .. Len(completed) : longer[i] = completed[i]
      /\ longer[Len(completed) + 1] = c
    BY AppendProperties
<1>2. Len(completed) \in Nat /\ DOMAIN completed = 1 .. Len(completed)
      /\ DOMAIN longer = 1 .. Len(longer)
    BY <1>1
<1> HIDE DEF longer
<1>3. ASSUME NEW i \in DOMAIN longer PROVE Len(longer[i].frames) \in 0 .. Packed
    <2>1. CASE i = Len(completed) + 1
        BY <1>1, <2>1
    <2>2. CASE i # Len(completed) + 1
        BY <1>1, <1>2, <2>2
    <2>3. QED
        BY <2>1, <2>2
<1>4. QED
    BY <1>1, <1>3 DEF longer

\* The frames of a transfer continue those of the one before.
LEMMA Packing ==
    ASSUME NEW n \in 0 .. Packed, produced \in 1 .. LastFrame,
           produced + n <= LastFrame
    PROVE  /\ [ok |-> TRUE, frames |-> [i \in 1 .. n |-> produced + i]] \in Completions
           /\ Len([i \in 1 .. n |-> produced + i]) = n
           /\ produced + n \in 1 .. LastFrame
<1> USE WorkerAssumption
<1> DEFINE f == [i \in 1 .. n |-> produced + i]
<1>1. \A i \in 1 .. n : produced + i \in Frames
    BY DEF Frames
<1>2. f \in [1 .. n -> Frames]
    BY <1>1
<1>3. n \in Nat /\ DOMAIN f = 1 .. n
    OBVIOUS
<1>4. f \in Seq(Frames) /\ Len(f) = n
    BY <1>2, <1>3
<1>5. produced + n \in 1 .. LastFrame
    OBVIOUS
<1> HIDE DEF f
<1>6. [ok |-> TRUE, frames |-> f] \in Completions
    BY <1>4 DEF Completions
<1>7. QED
    BY <1>4, <1>5, <1>6 DEF f

\* What a completing transfer does to the queue and to the frame counter.
LEMMA CompletedGrows ==
    ASSUME TypeOK, Complete
    PROVE  /\ completed' \in Seq(Completions)
           /\ Len(completed') = Len(completed) + 1
           /\ \A i \in DOMAIN completed' : Len(completed'[i].frames) \in 0 .. Packed
           /\ produced' \in 1 .. LastFrame
<1> USE WorkerAssumption
<1>1. /\ completed \in Seq(Completions) /\ produced \in 1 .. LastFrame
      /\ \A i \in DOMAIN completed : Len(completed[i].frames) \in 0 .. Packed
    BY DEF TypeOK
<1>2. ASSUME NEW n \in 0 .. Packed, produced' = produced + n, produced' <= LastFrame,
             completed' = Append(completed,
                 [ok |-> TRUE, frames |-> [i \in 1 .. n |-> produced + i]])
      PROVE  /\ completed' \in Seq(Completions)
             /\ Len(completed') = Len(completed) + 1
             /\ \A i \in DOMAIN completed' : Len(completed'[i].frames) \in 0 .. Packed
             /\ produced' \in 1 .. LastFrame
    <2> DEFINE f == [i \in 1 .. n |-> produced + i]
    <2>1. /\ [ok |-> TRUE, frames |-> f] \in Completions /\ Len(f) = n
          /\ produced' \in 1 .. LastFrame
        BY <1>1, <1>2, Packing
    <2> DEFINE c == [ok |-> TRUE, frames |-> f]
    <2>2. c \in Completions /\ c.frames = f /\ completed' = Append(completed, c)
        BY <1>2, <2>1
    <2>3. Len(c.frames) \in 0 .. Packed
        BY <2>1, <2>2
    <2> HIDE DEF c
    <2>4. QED
        BY <1>1, <2>1, <2>2, <2>3, AddCompletion
<1>3. ASSUME completed' = Append(completed, Broken), produced' = produced
      PROVE  /\ completed' \in Seq(Completions)
             /\ Len(completed') = Len(completed) + 1
             /\ \A i \in DOMAIN completed' : Len(completed'[i].frames) \in 0 .. Packed
             /\ produced' \in 1 .. LastFrame
    <2>1. Broken \in Completions /\ Len(Broken.frames) = 0
        BY DEF Broken, Completions
    <2>2. Len(Broken.frames) \in 0 .. Packed
        BY <2>1
    <2>3. QED
        BY <1>1, <1>3, <2>1, <2>2, AddCompletion
<1>4. QED
    BY <1>2, <1>3 DEF Complete

-----------------------------------------------------------------------------
(* The type invariant, in parts.                                            *)

\* Why: where each thread is, and what the devices and the process report.
Modes ==
    /\ main \in {"Open", "Announce", "Start", "Halt", "Exited"} \cup Running \cup Ending
    /\ outcome \in {"none", "ok", "error", "killed"}
    /\ rx \in {"Idle", "Stop", "Wait", "Next", "Send", "Leave", "Ended"}
    /\ tx \in {"Idle", "Stop", "Receive", "Await", "Leave", "Ended"}
    /\ answer \in {"none", "ok", "bad"}
    /\ supervisor \in {"alive", "dead"} /\ device \in {"well", "mute", "gone"}

\* Why: what arrives from the device.
Incoming ==
    /\ batch \in Seq(Frames) /\ Len(batch) \in 0 .. Packed
    /\ pending \in 0 .. Transfers
    /\ completed \in Seq(Completions) /\ Len(completed) \in 0 .. Transfers
    /\ \A i \in DOMAIN completed : Len(completed[i].frames) \in 0 .. Packed
    /\ produced \in 1 .. LastFrame

\* Why: what waits in the channel and on the bulk-out endpoint.
Exchanged ==
    /\ flying \in Nat
    /\ toHost \in Seq({Ready} \cup Frames) /\ Len(toHost) \in 0 .. Capacity
    /\ toUsb \in 0 .. Capacity
    /\ received \in 0 .. LastFrame

\* The parts are the whole.
LEMMA TypeParts == TypeOK <=> Flags /\ Modes /\ Incoming /\ Exchanged
    BY DEF TypeOK, Modes, Incoming, Exchanged

\* Threads move between the steps of their loops.
LEMMA ModesKept == Modes /\ [Next]_vars => Modes'
<1> SUFFICES ASSUME Modes, [Next]_vars PROVE Modes'
    OBVIOUS
<1>1. CASE Open \/ Announce \/ Start \/ CheckStop \/ CheckParent \/
            CheckThreads \/ Keepalive \/ Finish \/ JoinRx \/ JoinTx \/ Halt
    BY <1>1 DEF Open, Announce, Start, CheckStop, CheckParent, CheckThreads,
        Keepalive, Finish, JoinRx, JoinTx, Halt, Go, Modes, Running, Ending,
        thread, receive, transmit, bulkIn, bulkOut, channel, parent, phone
<1>2. CASE RxStop \/ RxWait \/ RxNext \/ RxSend \/ RxLeave
    BY <1>2 DEF RxStop, RxWait, RxNext, RxSend, RxLeave, Modes, Running,
        Ending, thread, receive, transmit, bulkIn, bulkOut, channel, parent,
        phone
<1>3. CASE TxStop \/ TxReceive \/ TxAwait \/ TxLeave
    BY <1>3 DEF TxStop, TxReceive, TxAwait, TxLeave, Modes, Running, Ending,
        thread, receive, transmit, bulkIn, bulkOut, channel, parent, phone
<1>4. CASE Complete \/ Acknowledge \/ DeviceChanges \/ IntervalPasses \/
            SupervisorTakes \/ SupervisorSends \/ SupervisorStops \/
            SupervisorDies \/ Kill
    BY <1>4 DEF Complete, Acknowledge, DeviceChanges, IntervalPasses,
        SupervisorTakes, SupervisorSends, SupervisorStops, SupervisorDies,
        Kill, Modes, Running, Ending, thread, receive, transmit, bulkIn,
        bulkOut, channel, parent, phone
<1>5. CASE UNCHANGED vars
    BY <1>5 DEF Modes, Running, Ending, vars, thread, receive, transmit,
        bulkIn, bulkOut, channel, parent, phone
<1>6. QED
    BY <1>1, <1>2, <1>3, <1>4, <1>5
       DEF Next, Main, Rx, Tx, Environment

\* Transfers, completions and decoded frames stay within their bounds.
LEMMA IncomingKept == IInv /\ [Next]_vars => Incoming'
<1> SUFFICES ASSUME IInv, [Next]_vars PROVE Incoming'
    OBVIOUS
<1> USE WorkerAssumption DEF IInv
<1>1. CASE Start
    <2>1. Incoming /\ Transfers \in 0 .. Transfers
        BY TypeParts
    <2>2. QED
        BY <1>1, <2>1 DEF Start, Incoming, receive, phone
<1>2. CASE RxWait
    <2>1. Incoming /\ pending' = pending /\ produced' = produced
        BY <1>2, TypeParts DEF RxWait, phone
    <2>2. CASE completed = <<>>
        BY <1>2, <2>1, <2>2 DEF RxWait, Incoming
    <2>3. CASE completed # <<>>
        <3>1. completed' = Tail(completed) /\ batch' = Head(completed).frames
            BY <1>2, <2>3 DEF RxWait
        <3>2. /\ completed' \in Seq(Completions)
              /\ Len(completed') = Len(completed) - 1 /\ Len(completed) \in Nat \ {0}
              /\ \A i \in DOMAIN completed' : Len(completed'[i].frames) \in 0 .. Packed
              /\ batch' \in Seq(Frames) /\ Len(batch') \in 0 .. Packed
            BY <2>3, <3>1, TakeCompletion
        <3>3. Len(completed') \in 0 .. Transfers
            BY <2>1, <3>2 DEF Incoming
        <3>4. QED
            BY <2>1, <3>2, <3>3 DEF Incoming
    <2>4. QED
        BY <2>2, <2>3
<1>3. CASE RxNext
    <2>1. Incoming /\ completed' = completed /\ produced' = produced
        BY <1>3, TypeParts DEF RxNext, phone
    <2>2. CASE batch = <<>> \/ stop
        <3>1. pending + Len(completed) + 1 = Transfers
            BY <1>3 DEF RxNext, Buffers
        <3>2. pending' = pending + 1 /\ pending' \in 0 .. Transfers
            BY <1>3, <2>1, <2>2, <3>1 DEF RxNext, Incoming
        <3>3. batch' = <<>>
            BY <1>3, <2>2 DEF RxNext
        <3>4. batch' \in Seq(Frames) /\ Len(batch') = 0
            BY <3>3, EmptySeq
        <3>5. QED
            BY <2>1, <3>2, <3>4 DEF Incoming
    <2>3. CASE ~(batch = <<>> \/ stop)
        BY <1>3, <2>1, <2>3 DEF RxNext, Incoming
    <2>4. QED
        BY <2>2, <2>3
<1>4. CASE RxSend
    <2>1. /\ Incoming /\ pending' = pending /\ completed' = completed
          /\ produced' = produced /\ batch # <<>>
        BY <1>4, TypeParts DEF RxSend, bulkIn, phone, Buffers
    <2>2. Tail(batch) \in Seq(Frames) /\ Len(Tail(batch)) \in 0 .. Packed
        BY <2>1, HeadTailProperties, EmptySeq DEF Incoming
    <2>3. batch' = Tail(batch) \/ batch' = batch
        BY <1>4 DEF RxSend
    <2>4. batch' \in Seq(Frames) /\ Len(batch') \in 0 .. Packed
        <3>1. batch \in Seq(Frames) /\ Len(batch) \in 0 .. Packed
            BY <2>1 DEF Incoming
        <3>2. QED
            BY <2>2, <2>3, <3>1, Zenon
    <2>5. QED
        BY <2>1, <2>4 DEF Incoming
<1>5. CASE RxLeave \/ Kill
    <2>1. Incoming /\ produced' = produced
        BY <1>5, TypeParts DEF RxLeave, Kill, phone
    <2>2. pending' = 0 /\ completed' = <<>> /\ batch' = <<>>
        BY <1>5 DEF RxLeave, Kill
    <2>3. /\ completed' \in Seq(Completions) /\ Len(completed') = 0
          /\ batch' \in Seq(Frames) /\ Len(batch') = 0 /\ DOMAIN completed' = {}
        BY <2>2, EmptySeq
    <2>4. QED
        BY <2>1, <2>2, <2>3 DEF Incoming
<1>6. CASE Complete
    <2>1. /\ Incoming /\ pending > 0 /\ pending' = pending - 1 /\ batch' = batch
        BY <1>6, TypeParts DEF Complete, receive
    <2>2. /\ completed' \in Seq(Completions)
          /\ Len(completed') = Len(completed) + 1 /\ produced' \in 1 .. LastFrame
          /\ \A i \in DOMAIN completed' : Len(completed'[i].frames) \in 0 .. Packed
        BY <1>6, CompletedGrows
    <2>3. pending' + Len(completed') <= Transfers
        <3>1. pending' + Len(completed') = pending + Len(completed)
            BY <2>1, <2>2 DEF Incoming
        <3>2. pending + Len(completed) <= Transfers
            BY <2>1 DEF Buffers, Incoming, TypeOK
        <3>3. QED
            BY <3>1, <3>2
    <2>4. pending' \in 0 .. Transfers /\ Len(completed') \in 0 .. Transfers
        BY <2>1, <2>2, <2>3 DEF Incoming
    <2>5. QED
        BY <2>1, <2>2, <2>4 DEF Incoming
<1>7. CASE Open \/ Announce \/ CheckStop \/ CheckParent \/ CheckThreads \/
            Keepalive \/ Finish \/ JoinRx \/ JoinTx \/ Halt \/ RxStop \/
            TxStop \/ TxReceive \/ TxAwait \/ TxLeave \/ Acknowledge \/
            DeviceChanges \/ IntervalPasses \/ SupervisorTakes \/
            SupervisorSends \/ SupervisorStops \/ SupervisorDies
    <2>1. batch' = batch /\ pending' = pending /\ completed' = completed
          /\ produced' = produced
        BY <1>7 DEF Open, Announce, CheckStop, CheckParent, CheckThreads,
            Keepalive, Finish, JoinRx, JoinTx, Halt, RxStop, TxStop, TxReceive,
            TxAwait, TxLeave, Acknowledge, DeviceChanges, IntervalPasses,
            SupervisorTakes, SupervisorSends, SupervisorStops, SupervisorDies,
            Go, thread, receive, transmit, bulkIn, bulkOut, channel, parent, phone
    <2>2. QED
        BY <2>1, TypeParts DEF Incoming
<1>8. CASE UNCHANGED vars
    BY <1>8 DEF Incoming, TypeOK, vars, thread, receive, transmit, bulkIn,
        bulkOut, channel, parent, phone
<1>9. QED
    BY <1>1, <1>2, <1>3, <1>4, <1>5, <1>6, <1>7, <1>8
       DEF Next, Main, Rx, Tx, Environment

\* The channel never holds more than its capacity.
LEMMA ExchangedKept == IInv /\ [Next]_vars => Exchanged'
<1> SUFFICES ASSUME IInv, [Next]_vars PROVE Exchanged'
    OBVIOUS
<1> USE WorkerAssumption DEF IInv
<1>1. CASE Announce
    <2>1. Exchanged /\ flying' = flying /\ toUsb' = toUsb /\ received' = received
        BY <1>1, TypeParts DEF Announce, bulkOut, parent
    <2>2. CASE toHost' = toHost
        BY <2>1, <2>2 DEF Exchanged
    <2>3. CASE toHost' = Append(toHost, Ready) /\ Len(toHost) < Capacity
        BY <2>1, <2>3, AppendProperties DEF Exchanged
    <2>4. QED
        BY <1>1, <2>2, <2>3 DEF Announce
<1>2. CASE RxSend
    <2>1. /\ Exchanged /\ Incoming /\ batch # <<>>
          /\ flying' = flying /\ toUsb' = toUsb /\ received' = received
        BY <1>2, TypeParts DEF RxSend, bulkOut, parent, Buffers
    <2>2. CASE toHost' = toHost
        BY <2>1, <2>2 DEF Exchanged
    <2>3. CASE toHost' = Append(toHost, Head(batch)) /\ Len(toHost) < Capacity
        <3>1. Head(batch) \in {Ready} \cup Frames
            BY <2>1, HeadTailProperties DEF Incoming
        <3>2. QED
            BY <2>1, <2>3, <3>1, AppendProperties DEF Exchanged
    <2>4. QED
        BY <1>2, <2>2, <2>3 DEF RxSend
<1>3. CASE TxReceive \/ TxLeave \/ Acknowledge \/ SupervisorSends
    <2>1. Exchanged /\ toHost' = toHost /\ received' = received
        BY <1>3, TypeParts
           DEF TxReceive, TxLeave, Acknowledge, SupervisorSends, channel, parent
    <2>2. flying' \in Nat
        BY <1>3, <2>1
           DEF Exchanged, TxReceive, TxLeave, Acknowledge, SupervisorSends, bulkOut
    <2>3. toUsb' \in 0 .. Capacity
        BY <1>3, <2>1
           DEF Exchanged, TxReceive, TxLeave, Acknowledge, SupervisorSends, channel
    <2>4. QED
        BY <2>1, <2>2, <2>3 DEF Exchanged
<1>4. CASE SupervisorTakes
    <2>1. /\ Exchanged /\ toHost # <<>> /\ flying' = flying /\ toUsb' = toUsb
          /\ received' = Head(toHost) /\ toHost' = Tail(toHost)
        BY <1>4, TypeParts DEF SupervisorTakes, bulkOut
    <2>2. /\ Head(toHost) \in {Ready} \cup Frames
          /\ Tail(toHost) \in Seq({Ready} \cup Frames)
          /\ Len(Tail(toHost)) \in 0 .. Capacity
        BY <2>1, HeadTailProperties, EmptySeq DEF Exchanged
    <2>3. received' \in 0 .. LastFrame
        BY <2>1, <2>2 DEF Ready, Frames, TypeOK
    <2>4. QED
        BY <2>1, <2>2, <2>3 DEF Exchanged
<1>5. CASE SupervisorDies \/ Kill
    <2>1. /\ Exchanged /\ flying' \in Nat /\ toUsb' = toUsb /\ received' = received
          /\ toHost' = <<>> \/ toHost' = toHost
        BY <1>5, TypeParts DEF SupervisorDies, Kill, bulkOut, channel, parent, Exchanged
    <2>2. CASE toHost' = <<>>
        <3>1. toHost' \in Seq({Ready} \cup Frames) /\ Len(toHost') = 0
            BY <2>2, EmptySeq
        <3>2. QED
            BY <2>1, <3>1 DEF Exchanged
    <2>3. CASE toHost' = toHost
        BY <2>1, <2>3 DEF Exchanged
    <2>4. QED
        BY <2>1, <2>2, <2>3
<1>6. CASE Open \/ Start \/ CheckStop \/ CheckParent \/ CheckThreads \/
            Keepalive \/ Finish \/ JoinRx \/ JoinTx \/ Halt \/ RxStop \/
            RxWait \/ RxNext \/ RxLeave \/ TxStop \/ TxAwait \/ Complete \/
            DeviceChanges \/ IntervalPasses \/ SupervisorStops
    BY <1>6 DEF Open, Start, CheckStop, CheckParent, CheckThreads,
        Keepalive, Finish, JoinRx, JoinTx, Halt, RxStop, RxWait, RxNext,
        RxLeave, TxStop, TxAwait, Complete, DeviceChanges, IntervalPasses,
        SupervisorStops, Go, Exchanged, TypeOK, thread, receive, transmit,
        bulkIn, bulkOut, channel, parent, phone
<1>7. CASE UNCHANGED vars
    BY <1>7 DEF Exchanged, TypeOK, vars, thread, receive, transmit, bulkIn,
        bulkOut, channel, parent, phone
<1>8. QED
    BY <1>1, <1>2, <1>3, <1>4, <1>5, <1>6, <1>7
       DEF Next, Main, Rx, Tx, Environment

-----------------------------------------------------------------------------
(* The other parts of the invariant.                                        *)

\* Every step assigns truth values to the flags.
LEMMA FlagsKept == Flags /\ [Next]_vars => Flags'
<1> SUFFICES ASSUME Flags, [Next]_vars PROVE Flags'
    OBVIOUS
<1>1. CASE CheckStop \/ CheckParent \/ CheckThreads \/ Keepalive \/ Finish
    BY <1>1 DEF CheckStop, CheckParent, CheckThreads, Keepalive, Finish, Go,
        Flags, thread, receive, transmit, bulkIn, bulkOut, channel, parent,
        phone
<1>2. CASE RxStop \/ RxWait \/ RxNext \/ RxSend \/ RxLeave
    BY <1>2 DEF RxStop, RxWait, RxNext, RxSend, RxLeave, Flags, thread,
        receive, transmit, bulkIn, bulkOut, channel, parent, phone
<1>3. CASE TxStop \/ TxReceive \/ TxAwait \/ TxLeave
    BY <1>3 DEF TxStop, TxReceive, TxAwait, TxLeave, Flags, thread, receive,
        transmit, bulkIn, bulkOut, channel, parent, phone
<1>4. CASE Open \/ Announce \/ Start \/ JoinRx \/ JoinTx \/ Halt \/ Complete
            \/ Acknowledge \/ DeviceChanges \/ IntervalPasses \/
            SupervisorTakes \/ SupervisorSends \/ SupervisorStops \/
            SupervisorDies \/ Kill
    BY <1>4 DEF Open, Announce, Start, JoinRx, JoinTx, Halt, Complete,
        Acknowledge, DeviceChanges, IntervalPasses, SupervisorTakes,
        SupervisorSends, SupervisorStops, SupervisorDies, Kill, Go, Flags,
        thread, receive, transmit, bulkIn, bulkOut, channel, parent, phone
<1>5. CASE UNCHANGED vars
    BY <1>5 DEF Flags, vars, thread, receive, transmit, bulkIn, bulkOut,
        channel, parent, phone
<1>6. QED
    BY <1>1, <1>2, <1>3, <1>4, <1>5
       DEF Next, Main, Rx, Tx, Environment

\* Threads start after Start, and the main thread waits for both.
LEMMA ThreadsKept == IInv /\ [Next]_vars => Threads'
<1> SUFFICES ASSUME IInv, [Next]_vars PROVE Threads'
    OBVIOUS
<1> USE DEF IInv
<1>1. CASE Open \/ Announce \/ Start \/ CheckStop \/ CheckParent \/
            CheckThreads \/ Keepalive \/ Finish \/ JoinRx \/ JoinTx \/ Halt
    BY <1>1 DEF Open, Announce, Start, CheckStop, CheckParent, CheckThreads,
        Keepalive, Finish, JoinRx, JoinTx, Halt, Go, Threads, Running,
        Ending, thread, receive, transmit, bulkIn, bulkOut, channel, parent,
        phone
<1>2. CASE RxStop \/ RxWait \/ RxNext \/ RxSend \/ RxLeave
    BY <1>2 DEF RxStop, RxWait, RxNext, RxSend, RxLeave, Threads, Running,
        Ending, thread, receive, transmit, bulkIn, bulkOut, channel, parent,
        phone
<1>3. CASE TxStop \/ TxReceive \/ TxAwait \/ TxLeave
    BY <1>3 DEF TxStop, TxReceive, TxAwait, TxLeave, Threads, Running,
        Ending, thread, receive, transmit, bulkIn, bulkOut, channel, parent,
        phone
<1>4. CASE Complete \/ Acknowledge \/ DeviceChanges \/ IntervalPasses \/
            SupervisorTakes \/ SupervisorSends \/ SupervisorStops \/
            SupervisorDies \/ Kill
    BY <1>4 DEF Complete, Acknowledge, DeviceChanges, IntervalPasses,
        SupervisorTakes, SupervisorSends, SupervisorStops, SupervisorDies,
        Kill, Threads, Running, Ending, thread, receive, transmit, bulkIn,
        bulkOut, channel, parent, phone
<1>5. CASE UNCHANGED vars
    BY <1>5 DEF Threads, Running, Ending, vars, thread, receive, transmit,
        bulkIn, bulkOut, channel, parent, phone
<1>6. QED
    BY <1>1, <1>2, <1>3, <1>4, <1>5
       DEF Next, Main, Rx, Tx, Environment

\* No step loses a buffer while the receiving thread is in its loop.
LEMMA BuffersKept == IInv /\ [Next]_vars => Buffers'
<1> SUFFICES ASSUME IInv, [Next]_vars PROVE Buffers'
    OBVIOUS
<1> USE WorkerAssumption DEF IInv
<1>1. CASE Start
    <2>1. pending = 0 /\ completed = <<>> /\ rx = "Idle" /\ Len(completed) = 0
        BY <1>1 DEF Start, Threads, Buffers
    <2>2. QED
        BY <1>1, <2>1 DEF Start, Buffers, bulkIn, receive
<1>2. CASE RxStop
    BY <1>2 DEF RxStop, Buffers, thread, receive, transmit, bulkIn, bulkOut,
        channel, parent, phone
<1>3. CASE RxWait
    <2>1. pending \in 0 .. Transfers /\ pending + Len(completed) = Transfers
        BY <1>3 DEF RxWait, Buffers, TypeOK
    <2>2. CASE completed = <<>>
        BY <1>3, <2>1, <2>2 DEF RxWait, Buffers, bulkIn
    <2>3. CASE completed # <<>>
        <3>1. /\ Len(completed) \in Nat \ {0}
              /\ Len(Tail(completed)) = Len(completed) - 1
            BY <2>3, TakeCompletion
        <3>2. /\ completed' = Tail(completed) /\ pending' = pending
              /\ rx' \in {"Next", "Leave"}
            BY <1>3, <2>3 DEF RxWait
        <3>3. pending' + Len(completed') + 1 = Transfers
            BY <2>1, <3>1, <3>2
        <3>4. pending' + Len(completed') <= Transfers
            BY <2>1, <3>1, <3>2
        <3>5. QED
            BY <3>2, <3>3, <3>4 DEF Buffers
    <2>4. QED
        BY <2>2, <2>3
<1>4. CASE RxNext
    <2>1. /\ pending \in 0 .. Transfers /\ Len(completed) \in 0 .. Transfers
          /\ pending + Len(completed) + 1 = Transfers
        BY <1>4 DEF RxNext, Buffers, TypeOK
    <2>2. CASE batch = <<>> \/ stop
        BY <1>4, <2>1, <2>2 DEF RxNext, Buffers
    <2>3. CASE ~(batch = <<>> \/ stop)
        BY <1>4, <2>1, <2>3 DEF RxNext, Buffers
    <2>4. QED
        BY <2>2, <2>3
<1>5. CASE RxSend
    <2>1. /\ pending \in 0 .. Transfers /\ Len(completed) \in 0 .. Transfers
          /\ pending + Len(completed) + 1 = Transfers
        BY <1>5 DEF RxSend, Buffers, TypeOK
    <2>2. pending' = pending /\ completed' = completed /\ rx' \in {"Next", "Leave"}
        BY <1>5 DEF RxSend, bulkIn
    <2>3. QED
        BY <2>1, <2>2 DEF Buffers
<1>6. CASE RxLeave
    BY <1>6 DEF RxLeave, Buffers, thread, receive, transmit, bulkIn,
        bulkOut, channel, parent, phone
<1>7. CASE Complete
    <2>1. /\ pending \in 0 .. Transfers /\ pending > 0 /\ pending' = pending - 1
          /\ rx' = rx /\ batch' = batch
        BY <1>7 DEF Complete, TypeOK, receive
    <2>2. Len(completed') = Len(completed) + 1 /\ Len(completed) \in Nat
        BY <1>7, CompletedGrows DEF TypeOK
    <2>3. rx \notin {"Idle", "Ended"}
        BY <2>1 DEF Buffers
    <2>4. QED
        BY <2>1, <2>2, <2>3 DEF Buffers
<1>8. CASE Kill
    BY <1>8 DEF Kill, Buffers, thread, receive, transmit, bulkIn, bulkOut,
        channel, parent, phone
<1>9. CASE Open \/ Announce \/ CheckStop \/ CheckParent \/ CheckThreads \/
            Keepalive \/ Finish \/ JoinRx \/ JoinTx \/ Halt \/ TxStop \/
            TxReceive \/ TxAwait \/ TxLeave \/ Acknowledge \/ DeviceChanges
            \/ IntervalPasses \/ SupervisorTakes \/ SupervisorSends \/
            SupervisorStops \/ SupervisorDies
    BY <1>9 DEF Open, Announce, CheckStop, CheckParent, CheckThreads,
        Keepalive, Finish, JoinRx, JoinTx, Halt, TxStop, TxReceive, TxAwait,
        TxLeave, Acknowledge, DeviceChanges, IntervalPasses,
        SupervisorTakes, SupervisorSends, SupervisorStops, SupervisorDies,
        Go, Buffers, thread, receive, transmit, bulkIn, bulkOut, channel,
        parent, phone
<1>10. CASE UNCHANGED vars
    BY <1>10 DEF Buffers, vars, thread, receive, transmit, bulkIn, bulkOut,
        channel, parent, phone
<1>11. QED
    BY <1>1, <1>2, <1>3, <1>4, <1>5, <1>6, <1>7, <1>8, <1>9, <1>10
       DEF Next, Main, Rx, Tx, Environment

\* The flag is never raised without a cause.
LEMMA CausesKept == IInv /\ [Next]_vars => Causes'
<1> SUFFICES ASSUME IInv, [Next]_vars PROVE Causes'
    OBVIOUS
<1> USE DEF IInv
<1>1. CASE Open \/ Announce \/ Start \/ CheckStop \/ CheckParent \/
            CheckThreads \/ Keepalive \/ Finish \/ JoinRx \/ JoinTx \/ Halt
    BY <1>1 DEF Open, Announce, Start, CheckStop, CheckParent, CheckThreads,
        Keepalive, Finish, JoinRx, JoinTx, Halt, Go, Causes, Threads,
        Running, Ending, TypeOK, thread, receive, transmit, bulkIn, bulkOut,
        channel, parent, phone
<1>2. CASE RxStop
    BY <1>2 DEF RxStop, Causes, thread, receive, transmit, bulkIn, bulkOut,
        channel, parent, phone
<1>3. CASE RxWait
    BY <1>3 DEF RxWait, Causes, thread, receive, transmit, bulkIn, bulkOut,
        channel, parent, phone
<1>4. CASE RxNext
    BY <1>4 DEF RxNext, Causes, thread, receive, transmit, bulkIn, bulkOut,
        channel, parent, phone
<1>5. CASE RxSend
    BY <1>5 DEF RxSend, Causes, thread, receive, transmit, bulkIn, bulkOut,
        channel, parent, phone
<1>6. CASE RxLeave
    BY <1>6 DEF RxLeave, Causes, thread, receive, transmit, bulkIn, bulkOut,
        channel, parent, phone
<1>7. CASE TxStop
    BY <1>7 DEF TxStop, Causes, thread, receive, transmit, bulkIn, bulkOut,
        channel, parent, phone
<1>8. CASE TxReceive
    BY <1>8 DEF TxReceive, Causes, thread, receive, transmit, bulkIn,
        bulkOut, channel, parent, phone
<1>9. CASE TxAwait
    BY <1>9 DEF TxAwait, Causes, thread, receive, transmit, bulkIn, bulkOut,
        channel, parent, phone
<1>10. CASE TxLeave
    BY <1>10 DEF TxLeave, Causes, thread, receive, transmit, bulkIn,
        bulkOut, channel, parent, phone
<1>11. CASE SupervisorStops
    BY <1>11 DEF SupervisorStops, Causes, thread, receive, transmit, bulkIn,
        bulkOut, channel, parent, phone
<1>12. CASE SupervisorDies
    BY <1>12 DEF SupervisorDies, Causes, thread, receive, transmit, bulkIn,
        bulkOut, channel, parent, phone
<1>13. CASE IntervalPasses
    BY <1>13 DEF IntervalPasses, Causes, thread, receive, transmit, bulkIn,
        bulkOut, channel, parent, phone
<1>14. CASE Kill
    BY <1>14 DEF Kill, Causes, Threads, Running, Ending, thread, receive,
        transmit, bulkIn, bulkOut, channel, parent, phone
<1>15. CASE Complete \/ Acknowledge \/ DeviceChanges \/ SupervisorTakes \/
            SupervisorSends
    BY <1>15 DEF Complete, Acknowledge, DeviceChanges, SupervisorTakes,
        SupervisorSends, Causes, thread, receive, transmit, bulkIn, bulkOut,
        channel, parent, phone
<1>16. CASE UNCHANGED vars
    BY <1>16 DEF Causes, vars, thread, receive, transmit, bulkIn, bulkOut,
        channel, parent, phone
<1>17. QED
    BY <1>1, <1>2, <1>3, <1>4, <1>5, <1>6, <1>7, <1>8, <1>9, <1>10, <1>11,
        <1>12, <1>13, <1>14, <1>15, <1>16
       DEF Next, Main, Rx, Tx, Environment

\* No second transfer is submitted.
LEMMA OneTransferKept == IInv /\ [Next]_vars => OneTransfer'
<1> SUFFICES ASSUME IInv, [Next]_vars PROVE OneTransfer'
    OBVIOUS
<1> USE DEF IInv
<1>1. CASE TxReceive
    BY <1>1 DEF TxReceive, OneTransfer, TypeOK, thread, receive, transmit,
        bulkIn, bulkOut, channel, parent, phone
<1>2. CASE TxAwait
    BY <1>2 DEF TxAwait, OneTransfer, TypeOK, thread, receive, transmit,
        bulkIn, bulkOut, channel, parent, phone
<1>3. CASE Acknowledge
    BY <1>3 DEF Acknowledge, OneTransfer, TypeOK, thread, receive, transmit,
        bulkIn, bulkOut, channel, parent, phone
<1>4. CASE Start
    BY <1>4 DEF Start, OneTransfer, Threads, thread, receive, transmit,
        bulkIn, bulkOut, channel, parent, phone
<1>5. CASE TxStop \/ TxLeave \/ Kill
    BY <1>5 DEF TxStop, TxLeave, Kill, OneTransfer, thread, receive,
        transmit, bulkIn, bulkOut, channel, parent, phone
<1>6. CASE Open \/ Announce \/ CheckStop \/ CheckParent \/ CheckThreads \/
            Keepalive \/ Finish \/ JoinRx \/ JoinTx \/ Halt \/ RxStop \/
            RxWait \/ RxNext \/ RxSend \/ RxLeave \/ Complete \/
            DeviceChanges \/ IntervalPasses \/ SupervisorTakes \/
            SupervisorSends \/ SupervisorStops \/ SupervisorDies
    BY <1>6 DEF Open, Announce, CheckStop, CheckParent, CheckThreads,
        Keepalive, Finish, JoinRx, JoinTx, Halt, RxStop, RxWait, RxNext,
        RxSend, RxLeave, Complete, DeviceChanges, IntervalPasses,
        SupervisorTakes, SupervisorSends, SupervisorStops, SupervisorDies,
        Go, OneTransfer, thread, receive, transmit, bulkIn, bulkOut,
        channel, parent, phone
<1>7. CASE UNCHANGED vars
    BY <1>7 DEF OneTransfer, vars, thread, receive, transmit, bulkIn,
        bulkOut, channel, parent, phone
<1>8. QED
    BY <1>1, <1>2, <1>3, <1>4, <1>5, <1>6, <1>7
       DEF Next, Main, Rx, Tx, Environment

\* Once the threads were joined, no failure is added.
LEMMA HonestOutcomeKept == IInv /\ [Next]_vars => HonestOutcome'
<1> SUFFICES ASSUME IInv, [Next]_vars PROVE HonestOutcome'
    OBVIOUS
<1> USE DEF IInv
<1>1. CASE Open \/ Announce \/ Start \/ CheckStop \/ CheckParent \/
            CheckThreads \/ Keepalive \/ Finish \/ JoinRx \/ JoinTx \/ Halt
    BY <1>1 DEF Open, Announce, Start, CheckStop, CheckParent, CheckThreads,
        Keepalive, Finish, JoinRx, JoinTx, Halt, Go, HonestOutcome, Causes,
        Threads, Ending, TypeOK, thread, receive, transmit, bulkIn, bulkOut,
        channel, parent, phone
<1>2. CASE RxStop \/ RxWait \/ RxNext \/ RxSend \/ RxLeave
    BY <1>2 DEF RxStop, RxWait, RxNext, RxSend, RxLeave, HonestOutcome,
        Causes, Threads, Ending, TypeOK, thread, receive, transmit, bulkIn,
        bulkOut, channel, parent, phone
<1>3. CASE TxStop \/ TxReceive \/ TxAwait \/ TxLeave
    BY <1>3 DEF TxStop, TxReceive, TxAwait, TxLeave, HonestOutcome, Causes,
        Threads, Ending, TypeOK, thread, receive, transmit, bulkIn, bulkOut,
        channel, parent, phone
<1>4. CASE Complete \/ Acknowledge \/ DeviceChanges \/ IntervalPasses \/
            SupervisorTakes \/ SupervisorSends \/ SupervisorStops \/
            SupervisorDies \/ Kill
    BY <1>4 DEF Complete, Acknowledge, DeviceChanges, IntervalPasses,
        SupervisorTakes, SupervisorSends, SupervisorStops, SupervisorDies,
        Kill, HonestOutcome, Causes, Threads, Ending, TypeOK, thread,
        receive, transmit, bulkIn, bulkOut, channel, parent, phone
<1>5. CASE UNCHANGED vars
    BY <1>5 DEF HonestOutcome, Causes, Threads, Ending, TypeOK, vars,
        thread, receive, transmit, bulkIn, bulkOut, channel, parent, phone
<1>6. QED
    BY <1>1, <1>2, <1>3, <1>4, <1>5
       DEF Next, Main, Rx, Tx, Environment

-----------------------------------------------------------------------------
(* The invariant, and what follows from it.                                 *)

\* The worker starts with nothing submitted, held or failed.
LEMMA InitInvariant == Init => IInv
<1> SUFFICES ASSUME Init PROVE IInv
    OBVIOUS
<1> USE WorkerAssumption
<1>1. Flags
    BY DEF Init, Flags
<1>2. Modes
    BY DEF Init, Modes
<1>3. Incoming /\ Exchanged
    BY EmptySeq DEF Init, Incoming, Exchanged
<1>4. Threads /\ Buffers
    BY EmptySeq DEF Init, Threads, Buffers, Running, Ending
<1>5. Causes /\ OneTransfer /\ HonestOutcome
    BY DEF Init, Causes, OneTransfer, HonestOutcome, Ending
<1>6. QED
    BY <1>1, <1>2, <1>3, <1>4, <1>5, TypeParts DEF IInv

\* Every step keeps the invariant.
LEMMA StepInvariant == IInv /\ [Next]_vars => IInv'
<1> SUFFICES ASSUME IInv, [Next]_vars PROVE IInv'
    OBVIOUS
<1>1. Flags' /\ Modes' /\ Incoming' /\ Exchanged'
    BY TypeParts, FlagsKept, ModesKept, IncomingKept, ExchangedKept DEF IInv
<1>2. TypeOK'
    BY <1>1 DEF TypeOK, Flags, Modes, Incoming, Exchanged
<1>3. QED
    BY <1>2, ThreadsKept, BuffersKept, CausesKept, OneTransferKept,
       HonestOutcomeKept DEF IInv

\* The inductive invariant of the worker (worker.rs, run).
THEOREM Invariance == Spec => []IInv
<1>1. Init => IInv
    BY InitInvariant
<1>2. QED
    BY <1>1, StepInvariant, PTL DEF Spec

\* Every variable keeps its type; in particular a thread never resubmits more
\* buffers than the endpoint was given, and the channel never overflows.
THEOREM TypeCorrect == Spec => []TypeOK
    BY Invariance, PTL DEF IInv

\* The receiving thread waits only on an endpoint that holds every buffer it
\* does not find completed.
THEOREM AllInFlightHolds == Spec => []AllInFlight
<1>1. IInv => AllInFlight
    BY DEF IInv, Buffers, AllInFlight
<1>2. QED
    BY <1>1, Invariance, PTL

\* One bulk-out transfer at a time, and its answer is never taken for the
\* next one's.
THEOREM OneTransferHolds == Spec => []OneTransfer
    BY Invariance, PTL DEF IInv

\* Both endpoints carry what their thread was given, and no more.
THEOREM TransferLimitsHolds == Spec => []TransferLimits
    BY AllInFlightHolds, OneTransferHolds, PTL DEF TransferLimits

\* HALT follows the last transfer of either thread.
THEOREM QuietHaltHolds == Spec => []QuietHalt
<1>1. IInv => QuietHalt
    BY DEF IInv, Threads, Buffers, OneTransfer, QuietHalt
<1>2. QED
    BY <1>1, Invariance, PTL

\* Success is reported only for a requested or orphaned end without failures.
THEOREM HonestOutcomeHolds == Spec => []HonestOutcome
    BY Invariance, PTL DEF IInv

-----------------------------------------------------------------------------
(* The order of the datagrams.                                              *)

\* Numbers that rise from above lo, to hi at most.
Rising(s, lo, hi) ==
    /\ \A i, j \in DOMAIN s : i < j => s[i] < s[j]
    /\ \A i \in DOMAIN s : lo < s[i] /\ s[i] <= hi

Before(s, t) == \A i \in DOMAIN s, j \in DOMAIN t : s[i] < t[j]

\* Frames that have not reached the channel: newer than all that did.
Waiting(f) == Rising(f, received, produced) /\ Before(toHost, f)

\* Why: the channel, the decoded frames and the completions in their order are
\* one rising line between what was received and what was produced.
OneLine ==
    /\ received <= produced /\ Rising(toHost, received, produced)
    /\ Waiting(batch)
    /\ \A i \in DOMAIN completed :
           Waiting(completed[i].frames) /\ Before(batch, completed[i].frames)
    /\ \A i, j \in DOMAIN completed :
           i < j => Before(completed[i].frames, completed[j].frames)

\* Why: the announcement is in the channel before the receiving thread is.
Announced ==
    /\ main \in {"Open", "Announce"} => received = 0 /\ toHost = <<>>
    /\ received = 0 /\ toHost # <<>> => Head(toHost) = Ready
    /\ rx \notin {"Idle", "Ended"} \/ main = "Start" =>
           supervisor = "dead" \/ received > 0 \/ toHost # <<>>

\* Taking the oldest of a rising line leaves a line that rises above it.
LEMMA RisingTail ==
    ASSUME NEW s \in Seq(Nat), s # <<>>, NEW lo \in Nat, NEW hi \in Nat,
           Rising(s, lo, hi)
    PROVE  /\ Rising(Tail(s), Head(s), hi) /\ Rising(Tail(s), lo, hi)
           /\ Head(s) \in lo + 1 .. hi
           /\ \A i \in DOMAIN Tail(s) : Head(s) < Tail(s)[i]
<1>1. /\ Tail(s) \in Seq(Nat) /\ Len(Tail(s)) = Len(s) - 1
      /\ \A i \in 1 .. Len(Tail(s)) : Tail(s)[i] = s[i + 1]
      /\ Len(s) \in Nat \ {0} /\ Head(s) = s[1]
    BY HeadTailProperties, EmptySeq
<1>2. /\ DOMAIN s = 1 .. Len(s) /\ DOMAIN Tail(s) = 1 .. Len(s) - 1
      /\ \A i \in DOMAIN s : s[i] \in Nat
    BY <1>1
<1>3. ASSUME NEW i \in DOMAIN Tail(s)
      PROVE  /\ i + 1 \in DOMAIN s /\ Tail(s)[i] = s[i + 1]
             /\ s[1] < s[i + 1] /\ s[i + 1] <= hi /\ lo < s[i + 1]
    <2>1. /\ i \in 1 .. Len(s) - 1 /\ 1 \in DOMAIN s /\ i + 1 \in DOMAIN s /\ 1 < i + 1
          /\ Tail(s)[i] = s[i + 1]
        BY <1>1, <1>2
    <2>2. QED
        BY <2>1 DEF Rising
<1>4. \A i, j \in DOMAIN Tail(s) : i < j => Tail(s)[i] < Tail(s)[j]
    BY <1>2, <1>3 DEF Rising
<1>5. Head(s) \in lo + 1 .. hi
    BY <1>1, <1>2 DEF Rising
<1>6. QED
    BY <1>1, <1>3, <1>4, <1>5 DEF Rising

\* What comes before, or after, a sequence does so for its tail.
LEMMA BeforeTail ==
    ASSUME NEW s \in Seq(Nat), s # <<>>, NEW t
    PROVE  /\ Before(s, t) => Before(Tail(s), t) /\ \A j \in DOMAIN t : Head(s) < t[j]
           /\ Before(t, s) => Before(t, Tail(s))
<1>1. /\ \A i \in DOMAIN Tail(s) : i + 1 \in DOMAIN s /\ Tail(s)[i] = s[i + 1]
      /\ 1 \in DOMAIN s /\ Head(s) = s[1]
    BY HeadTailProperties, EmptySeq
<1>2. QED
    BY <1>1 DEF Before

\* Adding a number above all others keeps the line, and its place before t.
LEMMA RisingAppend ==
    ASSUME NEW s \in Seq(Nat), NEW e \in Nat, NEW lo \in Nat, NEW hi \in Nat,
           Rising(s, lo, hi), lo < e, e <= hi, \A i \in DOMAIN s : s[i] < e
    PROVE  Rising(Append(s, e), lo, hi)
<1> DEFINE r == Append(s, e)
<1>1. /\ r \in Seq(Nat) /\ Len(r) = Len(s) + 1 /\ Len(s) \in Nat
      /\ \A i \in 1 .. Len(s) : r[i] = s[i]
      /\ r[Len(s) + 1] = e
    BY AppendProperties
<1>2. DOMAIN s = 1 .. Len(s) /\ DOMAIN r = 1 .. Len(s) + 1
    BY <1>1
<1> HIDE DEF r
<1>3. ASSUME NEW i \in DOMAIN r
      PROVE  /\ lo < r[i] /\ r[i] <= hi
             /\ \A j \in DOMAIN r : i < j => r[i] < r[j]
    <2>1. CASE i = Len(s) + 1
        BY <1>1, <1>2, <2>1
    <2>2. CASE i \in 1 .. Len(s)
        <3>1. lo < r[i] /\ r[i] <= hi /\ r[i] < e
            BY <1>1, <1>2, <2>2 DEF Rising
        <3>2. \A j \in 1 .. Len(s) : i < j => r[i] < r[j]
            BY <1>1, <1>2, <2>2 DEF Rising
        <3>3. QED
            BY <1>1, <1>2, <3>1, <3>2
    <2>3. QED
        BY <1>1, <1>2, <2>1, <2>2
<1>4. QED
    BY <1>3 DEF Rising, r

\* What lies before the old elements and the new one lies before both together.
LEMMA BeforeAppend ==
    ASSUME NEW s \in Seq(Nat), NEW e \in Nat, NEW t,
           Before(s, t), \A j \in DOMAIN t : e < t[j]
    PROVE  Before(Append(s, e), t)
<1> DEFINE r == Append(s, e)
<1>1. /\ r \in Seq(Nat) /\ Len(r) = Len(s) + 1 /\ Len(s) \in Nat
      /\ \A i \in 1 .. Len(s) : r[i] = s[i]
      /\ r[Len(s) + 1] = e
    BY AppendProperties
<1>2. \A i \in DOMAIN r : (i \in DOMAIN s /\ r[i] = s[i]) \/ r[i] = e
    BY <1>1
<1> HIDE DEF r
<1>3. QED
    BY <1>2 DEF Before, r

\* The queues hold numbers.
LEMMA Numbers ==
    ASSUME TypeOK
    PROVE  /\ toHost \in Seq(Nat) /\ batch \in Seq(Nat) /\ completed \in Seq(Completions)
           /\ \A i \in DOMAIN completed : completed[i].frames \in Seq(Nat)
           /\ received \in Nat /\ produced \in Nat
           /\ \A i \in DOMAIN toHost : toHost[i] \in Nat
           /\ \A i \in DOMAIN batch : batch[i] \in Frames
           /\ \A i \in DOMAIN completed : \A j \in DOMAIN completed[i].frames :
                  completed[i].frames[j] \in Frames
<1> USE WorkerAssumption
<1>1. Frames \subseteq Nat /\ {Ready} \cup Frames \subseteq Nat
    BY DEF Frames, Ready
<1>2. toHost \in Seq({Ready} \cup Frames) /\ batch \in Seq(Frames)
      /\ completed \in Seq(Completions)
    BY DEF TypeOK
<1>3. ASSUME NEW i \in DOMAIN completed PROVE completed[i].frames \in Seq(Frames)
    <2>1. completed[i] \in Completions
        BY <1>2
    <2>2. QED
        BY <2>1 DEF Completions
<1>4. /\ toHost \in Seq(Nat) /\ batch \in Seq(Nat)
      /\ \A i \in DOMAIN completed : completed[i].frames \in Seq(Nat)
    BY <1>1, <1>2, <1>3, SeqMonotonic
<1>5. \A i \in DOMAIN completed : \A j \in DOMAIN completed[i].frames :
          completed[i].frames[j] \in Frames
    BY <1>3
<1>6. received \in Nat /\ produced \in Nat
    BY DEF TypeOK
<1>7. QED
    BY <1>2, <1>4, <1>5, <1>6

\* The channel takes the announcement, which precedes every frame.
LEMMA LineAnnounce ==
    ASSUME IInv, OneLine, Announced, Announce
    PROVE  OneLine'
<1> USE WorkerAssumption DEF IInv
<1>1. /\ completed' = completed /\ batch' = batch /\ received' = received
      /\ produced' = produced /\ completed = <<>> /\ received = 0 /\ toHost = <<>>
      /\ produced \in 1 .. LastFrame
    BY DEF Announce, bulkIn, receive, parent, phone, Threads, Buffers, Announced, TypeOK
<1>2. CASE toHost' = toHost
    BY <1>1, <1>2 DEF OneLine, Waiting
<1>3. CASE toHost' = Append(toHost, Ready)
    <2>1. toHost' = <<1>> /\ DOMAIN toHost' = {1} /\ toHost'[1] = 1
        BY <1>1, <1>3 DEF Ready
    <2>2. Rising(toHost', received', produced')
        BY <1>1, <2>1 DEF Rising
    <2>3. Before(toHost', batch')
        BY <1>1, <2>1, Numbers DEF Before, Frames
    <2>4. QED
        BY <1>1, <2>2, <2>3 DEF OneLine, Waiting
<1>4. QED
    BY <1>2, <1>3 DEF Announce

\* The receiving thread takes the oldest completion.
LEMMA LineWait ==
    ASSUME IInv, OneLine, RxWait
    PROVE  OneLine'
<1> USE DEF IInv
<1>1. toHost' = toHost /\ received' = received /\ produced' = produced
    BY DEF RxWait, channel, parent, phone
<1>2. CASE completed = <<>>
    BY <1>1, <1>2 DEF RxWait, OneLine, Waiting
<1>3. CASE completed # <<>>
    <2>1. completed' = Tail(completed) /\ batch' = completed[1].frames
          /\ completed \in Seq(Completions)
        BY <1>3 DEF RxWait, TypeOK
    <2>2. /\ 1 \in DOMAIN completed
          /\ \A i \in DOMAIN completed' :
                 i + 1 \in DOMAIN completed /\ completed'[i] = completed[i + 1] /\ 1 < i + 1
        BY <1>3, <2>1, HeadTailProperties, EmptySeq
    <2>3. Waiting(batch)'
        <3>1. Waiting(completed[1].frames)
            BY <2>2 DEF OneLine
        <3>2. QED
            BY <1>1, <2>1, <3>1 DEF Waiting
    <2>4. ASSUME NEW i \in DOMAIN completed'
          PROVE  Waiting(completed[i].frames)' /\ Before(batch', completed'[i].frames)
        <3>1. Waiting(completed[i + 1].frames)
              /\ Before(completed[1].frames, completed[i + 1].frames)
            BY <2>2 DEF OneLine
        <3>2. QED
            BY <1>1, <2>1, <2>2, <3>1 DEF Waiting
    <2>5. \A i, j \in DOMAIN completed' : i < j => i + 1 < j + 1
        BY <2>1, <2>2
    <2>6. \A i, j \in DOMAIN completed' :
              i < j => Before(completed'[i].frames, completed'[j].frames)
        BY <2>2, <2>5 DEF OneLine
    <2>7. QED
        BY <1>1, <2>3, <2>4, <2>6 DEF OneLine
<1>4. QED
    BY <1>2, <1>3

\* A frame leaves the batch, and enters the channel or is dropped.
LEMMA LineSend ==
    ASSUME IInv, OneLine, RxSend
    PROVE  OneLine'
<1> USE DEF IInv
<1>1. /\ completed' = completed /\ received' = received /\ produced' = produced
      /\ batch # <<>>
    BY DEF RxSend, bulkIn, parent, phone, Buffers
<1>2. /\ toHost \in Seq(Nat) /\ batch \in Seq(Nat) /\ received \in Nat /\ produced \in Nat
    BY Numbers
<1>3. /\ Rising(batch, received, produced) /\ Before(toHost, batch)
      /\ Rising(toHost, received, produced)
    BY DEF OneLine, Waiting
<1>4. /\ Rising(Tail(batch), received, produced) /\ Head(batch) \in received + 1 .. produced
      /\ \A i \in DOMAIN Tail(batch) : Head(batch) < Tail(batch)[i]
    BY <1>1, <1>2, <1>3, RisingTail
<1>5. /\ Before(toHost, Tail(batch))
      /\ \A i \in DOMAIN completed :
             /\ Before(Tail(batch), completed[i].frames)
             /\ \A j \in DOMAIN completed[i].frames : Head(batch) < completed[i].frames[j]
    BY <1>1, <1>2, <1>3, BeforeTail DEF OneLine
<1>6. \A i \in DOMAIN toHost : toHost[i] < Head(batch)
    <2>1. 1 \in DOMAIN batch /\ Head(batch) = batch[1]
        BY <1>1, <1>2, EmptySeq
    <2>2. QED
        BY <1>3, <2>1 DEF Before
<1>7. CASE toHost' = Append(toHost, Head(batch)) /\ batch' = Tail(batch)
    <2> DEFINE e == Head(batch)
    <2>0. e \in Nat /\ received < e /\ e <= produced
        BY <1>2, <1>4
    <2>1. Rising(toHost', received, produced)
        <3>1. \A i \in DOMAIN toHost : toHost[i] < e
            BY <1>6
        <3> HIDE DEF e
        <3>2. Rising(Append(toHost, e), received, produced)
            BY <1>2, <1>3, <2>0, <3>1, RisingAppend
        <3>3. QED
            BY <1>7, <3>2 DEF e
    <2>2. Before(toHost', batch')
        <3>1. \A i \in DOMAIN Tail(batch) : e < Tail(batch)[i]
            BY <1>4
        <3> HIDE DEF e
        <3>2. Before(Append(toHost, e), Tail(batch))
            BY <1>2, <1>5, <2>0, <3>1, BeforeAppend
        <3>3. QED
            BY <1>7, <3>2 DEF e
    <2>3. \A i \in DOMAIN completed : Before(toHost', completed[i].frames)
        <3> SUFFICES ASSUME NEW i \in DOMAIN completed
                     PROVE  Before(toHost', completed[i].frames)
            OBVIOUS
        <3>1. Before(toHost, completed[i].frames)
            BY DEF OneLine, Waiting
        <3>2. QED
            BY <1>2, <1>4, <1>5, <1>7, <3>1, BeforeAppend
    <2>4. QED
        BY <1>1, <1>4, <1>5, <1>7, <2>1, <2>2, <2>3 DEF OneLine, Waiting
<1>8. CASE toHost' = toHost /\ batch' = Tail(batch)
    BY <1>1, <1>4, <1>5, <1>8 DEF OneLine, Waiting
<1>9. CASE toHost' = toHost /\ batch' = batch
    BY <1>1, <1>9 DEF OneLine, Waiting
<1>10. QED
    BY <1>7, <1>8, <1>9 DEF RxSend

\* The device adds frames newer than any.
LEMMA LineComplete ==
    ASSUME IInv, OneLine, Complete
    PROVE  OneLine'
<1> USE WorkerAssumption DEF IInv
<1>1. /\ toHost' = toHost /\ received' = received /\ batch' = batch
      /\ received \in Nat /\ produced \in Nat /\ completed \in Seq(Completions)
    BY Numbers DEF Complete, channel, parent, receive
<1>2. PICK n \in Nat :
          /\ produced' = produced + n
          /\ \E c \in Completions :
                 /\ completed' = Append(completed, c)
                 /\ c.frames = [i \in 1 .. n |-> produced + i]
    <2>1. ASSUME NEW n \in 0 .. Packed, produced' = produced + n, produced' <= LastFrame,
                 completed' = Append(completed,
                     [ok |-> TRUE, frames |-> [i \in 1 .. n |-> produced + i]])
          PROVE  \E c \in Completions :
                     /\ completed' = Append(completed, c)
                     /\ c.frames = [i \in 1 .. n |-> produced + i]
        <3> DEFINE c == [ok |-> TRUE, frames |-> [i \in 1 .. n |-> produced + i]]
        <3>1. c \in Completions
            BY <2>1, Packing DEF TypeOK
        <3>2. completed' = Append(completed, c) /\ c.frames = [i \in 1 .. n |-> produced + i]
            BY <2>1
        <3> HIDE DEF c
        <3>3. QED
            BY <3>1, <3>2, Zenon
    <2>2. ASSUME completed' = Append(completed, Broken), produced' = produced
          PROVE  /\ produced' = produced + 0
                 /\ \E c \in Completions :
                        /\ completed' = Append(completed, c)
                        /\ c.frames = [i \in 1 .. 0 |-> produced + i]
        <3>1. <<>> = [i \in 1 .. 0 |-> produced + i]
            OBVIOUS
        <3>2. Broken \in Completions /\ Broken.frames = [i \in 1 .. 0 |-> produced + i]
            BY <3>1 DEF Broken, Completions
        <3>3. produced' = produced + 0
            BY <1>1, <2>2
        <3>4. QED
            BY <2>2, <3>2, <3>3
    <2>3. ASSUME NEW n \in 0 .. Packed, produced' = produced + n, produced' <= LastFrame,
                 completed' = Append(completed,
                     [ok |-> TRUE, frames |-> [i \in 1 .. n |-> produced + i]])
          PROVE  n \in Nat /\ produced' = produced + n
        BY <2>3
    <2>4. CASE produced' = produced /\ completed' = Append(completed, Broken)
        BY <2>2, <2>4
    <2>5. CASE \E n \in 0 .. Packed :
                   /\ produced' = produced + n /\ produced' <= LastFrame
                   /\ completed' = Append(completed,
                          [ok |-> TRUE, frames |-> [i \in 1 .. n |-> produced + i]])
        BY <2>1, <2>3, <2>5
    <2>6. QED
        BY <2>4, <2>5 DEF Complete
<1>3. PICK c \in Completions :
          completed' = Append(completed, c) /\ c.frames = [i \in 1 .. n |-> produced + i]
    BY <1>2
<1>4. /\ DOMAIN c.frames = 1 .. n
      /\ \A j \in DOMAIN c.frames : c.frames[j] = produced + j /\ j \in 1 .. n
    BY <1>3
<1>5. /\ Len(completed) \in Nat /\ Len(completed') = Len(completed) + 1
      /\ DOMAIN completed = 1 .. Len(completed)
      /\ DOMAIN completed' = 1 .. Len(completed) + 1
      /\ \A i \in DOMAIN completed : completed'[i] = completed[i]
      /\ completed'[Len(completed) + 1] = c
    BY <1>1, <1>3, AppendProperties
<1>6. produced' \in Nat /\ produced <= produced'
    BY <1>1, <1>2
<1>7. ASSUME NEW s \in Seq(Nat), Rising(s, received, produced)
      PROVE  Rising(s, received', produced') /\ Before(s, c.frames)
    <2>1. \A i \in DOMAIN s : s[i] \in Nat /\ s[i] <= produced /\ received < s[i]
        BY <1>7 DEF Rising
    <2>2. Rising(s, received', produced')
        BY <1>1, <1>6, <1>7, <2>1 DEF Rising
    <2>3. Before(s, c.frames)
        BY <1>1, <1>4, <2>1 DEF Before
    <2>4. QED
        BY <2>2, <2>3
<1>8. Rising(c.frames, received', produced')
    <2>1. received <= produced
        BY DEF OneLine
    <2>2. QED
        BY <1>1, <1>2, <1>4, <2>1 DEF Rising
<1>9. /\ received' <= produced' /\ Rising(toHost', received', produced')
      /\ Rising(batch', received', produced') /\ Before(toHost', batch')
      /\ Before(toHost', c.frames) /\ Before(batch', c.frames)
    BY <1>1, <1>6, <1>7, Numbers DEF OneLine, Waiting
<1>10. ASSUME NEW i \in DOMAIN completed
       PROVE  /\ Rising(completed[i].frames, received', produced')
              /\ Before(toHost', completed[i].frames) /\ Before(batch', completed[i].frames)
              /\ Before(completed[i].frames, c.frames)
    BY <1>1, <1>7, Numbers DEF OneLine, Waiting
<1>11. ASSUME NEW i \in DOMAIN completed'
       PROVE  /\ Waiting(completed[i].frames)' /\ Before(batch', completed'[i].frames)
              /\ \A j \in DOMAIN completed' :
                     i < j => Before(completed'[i].frames, completed'[j].frames)
    <2>1. CASE i = Len(completed) + 1
        BY <1>5, <1>8, <1>9, <2>1 DEF Waiting
    <2>2. CASE i \in DOMAIN completed
        <3>1. completed'[i] = completed[i]
            BY <1>5, <2>2
        <3>2. \A j \in DOMAIN completed' :
                  i < j => Before(completed[i].frames, completed'[j].frames)
            BY <1>5, <1>10, <2>2 DEF OneLine
        <3>3. QED
            BY <1>10, <2>2, <3>1, <3>2 DEF Waiting
    <2>3. QED
        BY <1>5, <2>1, <2>2
<1>12. QED
    BY <1>9, <1>11 DEF OneLine, Waiting

\* Every step keeps the line.
LEMMA OneLineKept == IInv /\ OneLine /\ Announced /\ [Next]_vars => OneLine'
<1> SUFFICES ASSUME IInv, OneLine, Announced, [Next]_vars PROVE OneLine'
    OBVIOUS
<1> USE WorkerAssumption DEF IInv
<1>1. CASE Announce
    BY <1>1, LineAnnounce
<1>2. CASE RxWait
    BY <1>2, LineWait
<1>3. CASE RxSend
    BY <1>3, LineSend
<1>4. CASE Complete
    BY <1>4, LineComplete
<1>5. CASE RxNext
    <2>1. /\ toHost' = toHost /\ completed' = completed /\ received' = received
          /\ produced' = produced /\ batch' \in {batch, <<>>}
        BY <1>5 DEF RxNext, channel, parent, phone
    <2>2. CASE batch' = <<>>
        <3>1. DOMAIN batch' = {}
            BY <2>2
        <3>2. Waiting(batch)' /\ \A t : Before(batch', t)
            BY <3>1 DEF Waiting, Rising, Before
        <3>3. QED
            BY <2>1, <3>2 DEF OneLine, Waiting
    <2>3. CASE batch' = batch
        BY <2>1, <2>3 DEF OneLine, Waiting
    <2>4. QED
        BY <2>1, <2>2, <2>3
<1>6. CASE RxLeave \/ Kill
    <2>1. /\ toHost' = toHost /\ completed' = <<>> /\ received' = received
          /\ produced' = produced /\ batch' = <<>>
        BY <1>6 DEF RxLeave, Kill, channel, parent, phone
    <2>2. DOMAIN batch' = {} /\ DOMAIN completed' = {}
        BY <2>1
    <2>3. Waiting(batch)'
        BY <2>2 DEF Waiting, Rising, Before
    <2>4. QED
        BY <2>1, <2>2, <2>3 DEF OneLine
<1>7. CASE SupervisorTakes
    <2>1. /\ toHost # <<>> /\ received' = Head(toHost) /\ toHost' = Tail(toHost)
          /\ batch' = batch /\ completed' = completed /\ produced' = produced
        BY <1>7 DEF SupervisorTakes, receive, bulkIn, phone
    <2>2. /\ toHost \in Seq(Nat) /\ received \in Nat /\ produced \in Nat
          /\ Rising(toHost, received, produced)
        BY Numbers DEF OneLine
    <2>3. received' <= produced' /\ Rising(toHost', received', produced')
        BY <2>1, <2>2, RisingTail
    <2>4. ASSUME NEW f, Waiting(f)
          PROVE  Rising(f, received', produced') /\ Before(toHost', f)
        <3>1. Before(toHost', f) /\ \A j \in DOMAIN f : received' < f[j]
            BY <2>1, <2>2, <2>4, BeforeTail DEF Waiting
        <3>2. QED
            BY <2>1, <2>4, <3>1 DEF Waiting, Rising
    <2>5. QED
        BY <2>1, <2>3, <2>4 DEF OneLine, Waiting
<1>8. CASE SupervisorDies
    <2>1. /\ toHost' = <<>> /\ completed' = completed /\ received' = received
          /\ produced' = produced /\ batch' = batch
        BY <1>8 DEF SupervisorDies, receive, bulkIn, phone
    <2>2. DOMAIN toHost' = {}
        BY <2>1
    <2>3. Rising(toHost', received', produced') /\ \A t : Before(toHost', t)
        BY <2>2 DEF Rising, Before
    <2>4. QED
        BY <2>1, <2>3 DEF OneLine, Waiting
<1>9. CASE Open \/ Start \/ CheckStop \/ CheckParent \/ CheckThreads \/ Keepalive \/
           Finish \/ JoinRx \/ JoinTx \/ Halt \/ RxStop \/ TxStop \/ TxReceive \/
           TxAwait \/ TxLeave \/ Acknowledge \/ DeviceChanges \/ IntervalPasses \/
           SupervisorSends \/ SupervisorStops \/ UNCHANGED vars
    <2>1. /\ toHost' = toHost /\ completed' = completed /\ received' = received
          /\ produced' = produced /\ batch' = batch
        BY <1>9 DEF Open, Start, CheckStop, CheckParent, CheckThreads, Keepalive,
            Finish, JoinRx, JoinTx, Halt, Go, RxStop, TxStop, TxReceive, TxAwait,
            TxLeave, Acknowledge, DeviceChanges, IntervalPasses, SupervisorSends,
            SupervisorStops, vars, receive, bulkIn, channel, parent, phone
    <2>2. QED
        BY <2>1 DEF OneLine, Waiting
<1>10. QED
    BY <1>1, <1>2, <1>3, <1>4, <1>5, <1>6, <1>7, <1>8, <1>9
       DEF Next, Main, Rx, Tx, Environment

\* The announcement stays in front until the supervisor takes it.
LEMMA AnnouncedKept == IInv /\ OneLine /\ Announced /\ [Next]_vars => Announced'
<1> SUFFICES ASSUME IInv, OneLine, Announced, [Next]_vars PROVE Announced'
    OBVIOUS
<1> USE DEF IInv
<1>1. CASE Announce
    <2>1. CASE toHost' = Append(toHost, Ready) /\ main' = "Start"
        <3>1. toHost' = <<Ready>> /\ Head(toHost') = Ready /\ toHost' # <<>>
            BY <1>1, <2>1 DEF Announce, Announced
        <3>2. QED
            BY <2>1, <3>1 DEF Announced
    <2>2. CASE toHost' = toHost /\ main' = "Halt"
        BY <1>1, <2>2 DEF Announce, Announced, Threads, receive, parent
    <2>3. QED
        BY <1>1, <2>1, <2>2 DEF Announce
<1>2. CASE Open
    BY <1>2 DEF Open, Announced, receive, channel, parent
<1>3. CASE Start
    BY <1>3 DEF Start, Announced, channel, parent
<1>4. CASE RxSend
    <2>1. CASE toHost' = toHost
        BY <1>4, <2>1 DEF RxSend, Announced, thread, parent
    <2>2. CASE supervisor = "alive" /\ toHost' = Append(toHost, Head(batch))
        <3>1. /\ received' = received /\ main' = main /\ supervisor' = supervisor
              /\ received > 0 \/ toHost # <<>>
            BY <1>4, <2>2 DEF RxSend, Announced, thread, parent
        <3>2. /\ toHost' # <<>> /\ (toHost # <<>> => Head(toHost') = Head(toHost))
            BY <1>4, <2>2, Numbers, HeadTailAppend, AppendProperties DEF Buffers, RxSend
        <3>3. main \notin {"Open", "Announce"}
            BY <1>4 DEF RxSend, Threads
        <3>4. QED
            BY <3>1, <3>2, <3>3, Numbers DEF Announced
    <2>3. QED
        BY <1>4, <2>1, <2>2 DEF RxSend
<1>5. CASE SupervisorTakes
    <2>1. /\ received' = Head(toHost) /\ toHost # <<>> /\ main' = main /\ rx' = rx
          /\ supervisor' = supervisor
        BY <1>5 DEF SupervisorTakes, thread, receive
    <2>2. Head(toHost) \in received + 1 .. produced
        BY <2>1, Numbers, RisingTail DEF OneLine
    <2>3. received' > 0
        BY <2>1, <2>2, Numbers
    <2>4. QED
        BY <2>1, <2>3 DEF Announced
<1>6. CASE SupervisorDies
    BY <1>6 DEF SupervisorDies, Announced, thread, receive
<1>7. CASE Kill
    BY <1>7 DEF Kill, Announced, channel, parent
<1>8. CASE RxStop \/ RxWait \/ RxNext \/ RxLeave
    BY <1>8 DEF RxStop, RxWait, RxNext, RxLeave, Announced, thread, channel, parent
<1>9. CASE CheckStop \/ CheckParent \/ CheckThreads \/ Keepalive \/
           Finish \/ JoinRx \/ JoinTx \/ Halt
    BY <1>9 DEF CheckStop, CheckParent, CheckThreads, Keepalive, Finish, JoinRx,
        JoinTx, Halt, Go, Announced, receive, channel, parent
<1>10. CASE TxStop \/ TxReceive \/ TxAwait \/ TxLeave \/ Complete \/ Acknowledge \/
            DeviceChanges \/ IntervalPasses \/ SupervisorSends \/ SupervisorStops \/
            UNCHANGED vars
    BY <1>10 DEF TxStop, TxReceive, TxAwait, TxLeave, Complete, Acknowledge,
        DeviceChanges, IntervalPasses, SupervisorSends, SupervisorStops, vars,
        Announced, thread, receive, channel, parent
<1>11. QED
    BY <1>1, <1>2, <1>3, <1>4, <1>5, <1>6, <1>7, <1>8, <1>9, <1>10
       DEF Next, Main, Rx, Tx, Environment

\* A step of the supervisor takes the next of the line.
LEMMA StepInOrder ==
    ASSUME IInv, OneLine, Announced, SupervisorTakes
    PROVE  /\ received' \in received + 1 .. produced
           /\ received = 0 => received' = Ready
<1>1. toHost # <<>> /\ received' = Head(toHost)
    BY DEF SupervisorTakes
<1>2. Head(toHost) \in received + 1 .. produced
    BY <1>1, Numbers, RisingTail DEF OneLine, IInv
<1>3. QED
    BY <1>1, <1>2 DEF Announced

\* The inductive invariant behind the order of the datagrams.
THEOREM OrderInvariance == Spec => [](IInv /\ OneLine /\ Announced)
<1>1. Init => OneLine /\ Announced
    <2> SUFFICES ASSUME Init PROVE OneLine /\ Announced
        OBVIOUS
    <2>1. /\ DOMAIN toHost = {} /\ DOMAIN batch = {} /\ DOMAIN completed = {}
          /\ received = 0 /\ produced = 1 /\ toHost = <<>> /\ main = "Open" /\ rx = "Idle"
        BY DEF Init
    <2>2. QED
        BY <2>1 DEF OneLine, Announced, Waiting, Rising, Before
<1>2. IInv /\ OneLine /\ Announced /\ [Next]_vars => (IInv /\ OneLine /\ Announced)'
    BY StepInvariant, OneLineKept, AnnouncedKept
<1>3. QED
    BY <1>1, <1>2, InitInvariant, PTL DEF Spec

\* Whatever the supervisor takes, it takes once and in order: the announcement,
\* then frames of the device, none invented, repeated or overtaken (worker.rs).
THEOREM InOrderHolds == Spec => InOrder
<1>1. IInv /\ OneLine /\ Announced /\ [Next]_vars =>
          [SupervisorTakes =>
              /\ received' \in received + 1 .. produced
              /\ received = 0 => received' = Ready]_vars
    BY StepInOrder
<1>2. QED
    BY <1>1, OrderInvariance, PTL DEF Spec, InOrder
=============================================================================
