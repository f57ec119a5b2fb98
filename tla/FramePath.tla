----------------------------- MODULE FramePath ------------------------------
(***************************************************************************)
(* The path of a frame, in bytes: bulk-in transfers are decoded into       *)
(* frames (src/rndis/packet.rs), which travel as datagrams (src/ipc.rs) to *)
(* BPF; buffers read from BPF are decoded into frames (src/macos/bpf.rs),  *)
(* which travel to the worker and leave in bulk-out transfers.             *)
(*                                                                         *)
(* An input is a number of bytes and the headers that a sound writer put   *)
(* into it, by offset.  At any other offset, and everywhere in the input   *)
(* of an unsound writer, a decoder may read anything.                      *)
(***************************************************************************)
EXTENDS Integers, Sequences

CONSTANTS
    Inputs,        \* what the device and the kernel write
    PacketHeads,   \* what a packet message's header may hold
    RecordHeads,   \* what a BPF record's header may hold
    MaxTransfers   \* the MaxTransferSize a device may declare

FRAME_LIMIT == 1514
FrameSizes == 14 .. FRAME_LIMIT
HEADER == 44
TRANSFER_LIMIT == 16384
BPF_HEADER == 18      \* bh_hdrlen ends here
BPF_LIMIT == 262144   \* the buffer asked for

\* A message: its length, where its frame starts, and how long that is.
Packet(len, start, size) ==
    [type |-> 1, len |-> len, start |-> start, size |-> size, other |-> 0]

\* A BPF record, as the kernel writes it.
Record(size) == [captured |-> size, size |-> size, header |-> BPF_HEADER]

Align(n) == ((n + 3) \div 4) * 4

\* What a sound device sends: messages one after the other, then zeros.
SoundTransfer(t) ==
    /\ t.total <= TRANSFER_LIMIT /\ t.end \in 0 .. t.total
    /\ DOMAIN t.heads \subseteq 0 .. t.end /\ (t.end > 0 => 0 \in DOMAIN t.heads)
    /\ \A at \in DOMAIN t.heads : LET h == t.heads[at] IN
          /\ h = Packet(h.len, h.start, h.size) /\ h.size \in FrameSizes
          /\ h.len \in HEADER .. t.end - at
          /\ h.start \in HEADER .. h.len /\ h.start % 4 = 0 /\ h.start + h.size <= h.len
          /\ at + h.len = t.end \/ at + h.len \in DOMAIN t.heads
          /\ DOMAIN t.heads \cap (at + 1 .. at + h.len - 1) = {}

\* What the kernel returns: records on word boundaries, the last not padded.
SoundBatch(b) ==
    /\ b.total \in 1 .. BPF_LIMIT /\ b.end = b.total
    /\ DOMAIN b.heads \subseteq Nat /\ 0 \in DOMAIN b.heads
    /\ \A at \in DOMAIN b.heads : LET h == b.heads[at] IN
          /\ h = Record(h.size) /\ h.size \in FrameSizes
          /\ at + BPF_HEADER + h.size <= b.total
          /\ \/ at + BPF_HEADER + h.size = b.total
             \/ at + Align(BPF_HEADER + h.size) \in DOMAIN b.heads
          /\ DOMAIN b.heads \cap (at + 1 .. at + Align(BPF_HEADER + h.size) - 1) = {}

ASSUME InputAssumption ==
    \A i \in Inputs :
        /\ i.from \in {"device", "kernel"} /\ i.total \in Nat
        /\ i.sound /\ i.from = "device" => SoundTransfer(i)
        /\ i.sound /\ i.from = "kernel" => SoundBatch(i)

ASSUME HeadAssumption ==
    /\ PacketHeads \subseteq [type : Nat, len : Nat, start : Nat, size : Nat, other : Nat]
    /\ RecordHeads \subseteq [captured : Nat, size : Nat, header : Nat]
    /\ MaxTransfers \subseteq Nat

VARIABLES
    phase,    \* "closed", "idle", "decode", "relay" or "failed"
    packet,   \* packet size of the bulk-out endpoint
    limit,    \* Negotiation::max_transfer
    input,    \* what is being decoded
    offset,   \* how far the decoder is
    frames,   \* the ranges it has found
    sent      \* the bulk-out transfer of this frame

pathVars == <<phase, packet, limit, input, offset, frames, sent>>

NoInput == [from |-> "device", total |-> 0, end |-> 0, heads |-> <<>>, sound |-> TRUE]
NoTransfer == [size |-> 0, frame |-> 0]

PathInit ==
    /\ phase = "closed" /\ packet = 0 /\ limit = 0
    /\ input = NoInput /\ offset = 0 /\ frames = <<>> /\ sent = NoTransfer

\* Session::open: the endpoint's packet size, and Negotiation::parse.
Connect(size, declared) ==
    LET bounded == IF declared < TRANSFER_LIMIT THEN declared ELSE TRANSFER_LIMIT
    IN  /\ phase = "closed" /\ bounded >= HEADER + FRAME_LIMIT
        /\ phase' = "idle" /\ packet' = size /\ limit' = bounded
        /\ UNCHANGED <<input, offset, frames, sent>>

\* A bulk-in transfer completes, or BPF is readable.
Read(i) ==
    /\ phase = "idle" /\ phase' = "decode"
    /\ input' = i /\ offset' = 0 /\ frames' = <<>>
    /\ UNCHANGED <<packet, limit, sent>>

Found(start, size) == frames' = Append(frames, [from |-> offset + start, to |-> offset + start + size])

Fail == phase' = "failed" /\ UNCHANGED <<offset, frames>>

Rest == input.total - offset

\* The headers a decoder may find where it stands.
At(any) == IF input.sound /\ offset \in DOMAIN input.heads THEN {input.heads[offset]} ELSE any

\* Nothing but zeros is left.
AllZero == IF input.sound THEN {offset >= input.end} ELSE BOOLEAN

\* Mutant: the frame is only kept inside the transfer.
PacketSoundWide(h) ==
    /\ Rest >= HEADER /\ h.type = 1 /\ h.len \in HEADER .. Rest
    /\ h.start >= HEADER /\ h.start % 4 = 0 /\ h.size \in FrameSizes /\ h.other = 0
    /\ h.start + h.size <= Rest

PacketSound(h) ==
    /\ Rest >= HEADER /\ h.type = 1 /\ h.len \in HEADER .. Rest
    /\ h.start >= HEADER /\ h.start % 4 = 0 /\ h.size \in FrameSizes /\ h.other = 0
    /\ h.start + h.size <= h.len

\* One turn of packet::decode.
DecodePacket ==
    /\ phase = "decode" /\ input.from = "device"
    /\ \/ /\ input.total <= TRANSFER_LIMIT
          /\ Rest = 0 \/ TRUE \in AllZero
          /\ phase' = "relay" /\ UNCHANGED <<offset, frames>>
       \/ /\ input.total <= TRANSFER_LIMIT
          /\ Rest > 0 /\ FALSE \in AllZero
          /\ \E h \in At(PacketHeads) :
                IF PacketSound(h)
                THEN Found(h.start, h.size) /\ offset' = offset + h.len /\ UNCHANGED phase
                ELSE Fail
       \/ input.total > TRANSFER_LIMIT /\ Fail
    /\ UNCHANGED <<packet, limit, input, sent>>

RecordSound(h) ==
    /\ Rest >= BPF_HEADER /\ h.header >= BPF_HEADER
    /\ h.captured = h.size /\ h.size \in FrameSizes /\ h.header + h.size <= Rest

\* Mutant: the last record is expected to be padded as well.
NextRecordPadded(end) == Align(end)

\* The next record, or the end of the buffer.
NextRecord(end) == IF end = Rest THEN end ELSE Align(end)

\* One turn of Batch::decode.
DecodeRecord ==
    /\ phase = "decode" /\ input.from = "kernel"
    /\ \/ Rest = 0 /\ phase' = "relay" /\ UNCHANGED <<offset, frames>>
       \/ /\ Rest > 0
          /\ \E h \in At(RecordHeads) :
                IF RecordSound(h) /\ NextRecord(h.header + h.size) <= Rest
                THEN /\ Found(h.header, h.size)
                     /\ offset' = offset + NextRecord(h.header + h.size)
                     /\ UNCHANGED phase
                ELSE Fail
    /\ UNCHANGED <<packet, limit, input, sent>>

\* Message::encode and Message::decode: a tag before the frame.
Datagram(size) == size + 1 \in 15 .. FRAME_LIMIT + 1

\* Mutant: a zero-length packet is left to the device to expect.
PaddedNever(size) == HEADER + size

\* One byte more when the transfer would end on a packet boundary.
Padded(size) == LET len == HEADER + size IN IF len % packet = 0 THEN len + 1 ELSE len

\* packet::encode.
Encodable(size) ==
    /\ size \in FrameSizes /\ packet # 0
    /\ Padded(size) <= limit /\ Padded(size) <= TRANSFER_LIMIT

\* A frame of the device crosses the channel to BPF, unless Frame::permits
\* refuses it.
Deliver ==
    /\ phase = "relay" /\ input.from = "device" /\ frames # <<>>
    /\ LET size == Head(frames).to - Head(frames).from
       IN  IF Datagram(size) THEN frames' = Tail(frames) /\ UNCHANGED <<phase, offset>>
           ELSE Fail
    /\ UNCHANGED <<packet, limit, input, sent>>

\* A frame of the interface crosses the channel and leaves as one transfer,
\* unless Frame::permits refuses it or a queue is full.
Send ==
    /\ phase = "relay" /\ input.from = "kernel" /\ frames # <<>>
    /\ LET size == Head(frames).to - Head(frames).from
       IN  \/ frames' = Tail(frames) /\ UNCHANGED <<phase, offset, sent>>
           \/ /\ Datagram(size) /\ Encodable(size)
              /\ sent' = [size |-> Padded(size), frame |-> size]
              /\ frames' = Tail(frames) /\ UNCHANGED <<phase, offset>>
           \/ ~(Datagram(size) /\ Encodable(size)) /\ Fail /\ UNCHANGED sent
    /\ UNCHANGED <<packet, limit, input>>

Again ==
    /\ phase = "relay" /\ frames = <<>>
    /\ phase' = "idle" /\ input' = NoInput /\ offset' = 0 /\ sent' = NoTransfer
    /\ UNCHANGED <<packet, limit, frames>>

PathNext ==
    \/ \E i \in Inputs : Read(i)
    \/ DecodePacket \/ DecodeRecord \/ Deliver \/ Send \/ Again

-----------------------------------------------------------------------------
(* Properties.                                                              *)

\* Whatever the bytes are, the frames that the decoders return have a legal
\* length, lie inside the input, one behind the other, and share no byte.
FramesApart ==
    /\ \A i \in DOMAIN frames :
          /\ frames[i].to - frames[i].from \in FrameSizes
          /\ frames[i].from >= 0 /\ frames[i].to <= input.total
    /\ \A i, j \in DOMAIN frames : i < j => frames[i].to <= frames[j].from

\* Nothing that a sound device or the kernel writes ends the session: every
\* input is decoded to its end, with every frame in it, and every frame of
\* the interface can be sent in the smallest transfer that may be negotiated.
SoundServed ==
    input.sound =>
        /\ phase # "failed"
        /\ phase = "decode" /\ offset >= input.end =>
              \A o \in DOMAIN input.heads : \E i \in DOMAIN frames :
                  frames[i].from = o + (IF input.from = "kernel" THEN input.heads[o].header
                                        ELSE input.heads[o].start)

\* "A short USB packet terminates the transfer" (packet.rs): no transfer ends
\* on a packet boundary or exceeds what was negotiated, and what it holds is
\* what packet::decode takes for one frame of that length.
ShortPacketEnds ==
    sent.size > 0 =>
        LET len == HEADER + sent.frame
        IN  /\ sent.size % packet # 0 /\ sent.size <= limit
            /\ SoundTransfer([total |-> sent.size, end |-> len,
                              heads |-> [o \in {0} |-> Packet(len, HEADER, sent.frame)]])
=============================================================================
