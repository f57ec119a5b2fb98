--------------------------- MODULE UsbPath_proofs ----------------------------
(***************************************************************************)
(* What the parser, the decoders and the encoder guarantee for any device: *)
(* a layout is one whole function, and a sound device has one; the frames  *)
(* of an input never overlap nor leave it, whatever its bytes are; nothing *)
(* that a sound writer writes ends the session; and every bulk-out         *)
(* transfer ends with a short packet.                                      *)
(***************************************************************************)
EXTENDS UsbPath, SequenceTheorems, FiniteSetTheorems, TLAPS

Ranges == [from : Nat, to : Nat]

\* Where the decoder stands: behind every frame it has found.
Standing ==
    /\ frames \in Seq(Ranges)
    /\ input \in Inputs \cup {NoInput} /\ input.total \in Nat
    /\ phase = "decode" =>
          /\ input \in Inputs /\ offset \in 0 .. input.total
          /\ \A i \in DOMAIN frames : frames[i].to <= offset
    /\ phase = "relay" => input \in Inputs

\* The packet size is the chosen layout's.
Chosen ==
    /\ verdict = "chosen" => \A l \in layout : l.size \in PacketSizes
    /\ IF phase = "closed" THEN sent = NoTransfer ELSE packet \in PacketSizes

\* Where the frame of the header at o begins.
FrameAt(o) ==
    o + (IF input.from = "kernel" THEN input.heads[o].header ELSE input.heads[o].start)

\* In the input of a sound writer the decoder stands at a header or at the
\* end, with the frame of every header before it found; the input never fails;
\* and the largest frame fits into what was negotiated.
Serving ==
    /\ phase # "closed" => limit \in Nat /\ limit >= HEADER + FRAME_LIMIT
    /\ input.sound => phase # "failed"
    /\ phase = "decode" /\ input.sound =>
          /\ offset = input.end \/ offset \in DOMAIN input.heads
          /\ \A o \in DOMAIN input.heads :
                o < offset => \E i \in DOMAIN frames : frames[i].from = FrameAt(o)

\* The chain holds descriptors; nothing is chosen before it is read.
Selected ==
    chain \in Seq(AnyDescriptor) /\ (verdict = "unread" => layout = {}) /\ WholeFunction

IInv == Standing /\ FramesApart /\ Chosen /\ ShortPacketEnds /\ Serving /\ Selected

-----------------------------------------------------------------------------
(* Headers.                                                                 *)

\* What a decoder reads where it stands: a sound header, or any.
LEMMA PacketHead ==
    ASSUME phase = "decode", Standing, input.from = "device",
           NEW h, h \in At(PacketHeads), h.len \in Nat
    PROVE  h.start \in Int
<1>1. CASE input.sound /\ offset \in DOMAIN input.heads
  <2>1. h = input.heads[offset]
    BY <1>1 DEF At
  <2>2. SoundTransfer(input)
    BY <1>1, InputAssumption DEF Standing
  <2> QED
    BY <1>1, <2>1, <2>2 DEF SoundTransfer, HEADER
<1>2. CASE ~(input.sound /\ offset \in DOMAIN input.heads)
  <2>1. h \in PacketHeads
    BY <1>2 DEF At
  <2> QED
    BY <2>1, HeadAssumption
<1> QED
  BY <1>1, <1>2

\* What it reads of a BPF record: the kernel's header length, or any.
LEMMA RecordHead ==
    ASSUME phase = "decode", Standing, input.from = "kernel",
           NEW h, h \in At(RecordHeads)
    PROVE  h.header \in Nat
<1>1. CASE input.sound /\ offset \in DOMAIN input.heads
  <2>1. h = input.heads[offset]
    BY <1>1 DEF At
  <2>2. SoundBatch(input)
    BY <1>1, InputAssumption DEF Standing
  <2>3. h = Record(h.size)
    BY <1>1, <2>1, <2>2 DEF SoundBatch
  <2> QED
    BY <2>3 DEF Record, BPF_HEADER
<1>2. CASE ~(input.sound /\ offset \in DOMAIN input.heads)
  <2>1. h \in RecordHeads
    BY <1>2 DEF At
  <2> QED
    BY <2>1, HeadAssumption
<1> QED
  BY <1>1, <1>2

\* Rounding up loses nothing.
LEMMA AlignUp == \A n \in Nat : Align(n) \in Nat /\ Align(n) >= n
  BY DEF Align

\* A frame that begins where the decoder stands or later, and ends before the
\* place it goes on from, extends what was found.
LEMMA FoundKeeps ==
    ASSUME Standing, FramesApart, phase = "decode",
           NEW start \in Nat, NEW size \in FrameSizes, NEW step \in Nat,
           start + size <= step, offset + step <= input.total,
           Found(start, size), offset' = offset + step, UNCHANGED <<phase, input>>
    PROVE  Standing' /\ FramesApart'
<1> DEFINE new == [from |-> offset + start, to |-> offset + start + size]
<1>1. new \in Ranges /\ new.to - new.from = size /\ new.to <= offset' /\ offset <= new.from
      /\ offset' \in 0 .. input.total /\ offset \in Nat /\ offset <= offset'
      /\ input.total \in Nat
  <2>1. offset \in Nat /\ size \in Nat /\ input.total \in Nat
    BY DEF Standing, FrameSizes, FRAME_LIMIT
  <2>2. /\ offset + start \in Nat /\ offset + start + size \in Nat
        /\ (offset + start + size) - (offset + start) = size
        /\ offset + start + size <= offset' /\ offset <= offset + start
        /\ offset' \in 0 .. input.total /\ offset <= offset'
    BY <2>1
  <2> QED
    BY <2>1, <2>2 DEF Ranges
<1>2. frames' = Append(frames, new)
  BY DEF Found
<1> HIDE DEF new
<1>3. /\ frames' \in Seq(Ranges) /\ Len(frames') = Len(frames) + 1 /\ Len(frames) \in Nat
      /\ \A i \in 1 .. Len(frames) : frames'[i] = frames[i]
      /\ frames'[Len(frames) + 1] = new
  BY <1>1, <1>2 DEF Standing
<1>4. DOMAIN frames = 1 .. Len(frames) /\ DOMAIN frames' = 1 .. Len(frames) + 1
  BY <1>3 DEF Standing
<1>5. \A i \in DOMAIN frames : frames[i] \in Ranges /\ frames[i].to <= offset
  BY DEF Standing
<1>6. \A i \in DOMAIN frames' : i \in DOMAIN frames \/ i = Len(frames) + 1
  BY <1>3, <1>4
<1>7. Standing'
  <2>1. \A i \in DOMAIN frames' : frames'[i].to <= offset'
    <3> SUFFICES ASSUME NEW i \in DOMAIN frames' PROVE frames'[i].to <= offset'
      OBVIOUS
    <3>1. CASE i \in DOMAIN frames
      <4>1. frames'[i] = frames[i]
        BY <1>3, <1>4, <3>1, Zenon
      <4>2. frames[i].to \in Nat /\ frames[i].to <= offset
        BY <1>5, <3>1 DEF Ranges
      <4>3. frames[i].to <= offset'
        BY <1>1, <4>2
      <4> QED
        BY <4>1, <4>3
    <3>2. CASE i = Len(frames) + 1
      BY <1>1, <1>3, <3>2
    <3> QED
      BY <1>6, <3>1, <3>2
  <2> QED
    BY <1>1, <1>3, <2>1 DEF Standing
<1>8. FramesApart'
  <2>1. \A i \in DOMAIN frames' :
           /\ frames'[i].to - frames'[i].from \in FrameSizes
           /\ frames'[i].from >= 0 /\ frames'[i].to <= input.total
    <3> SUFFICES ASSUME NEW i \in DOMAIN frames'
        PROVE  /\ frames'[i].to - frames'[i].from \in FrameSizes
               /\ frames'[i].from >= 0 /\ frames'[i].to <= input.total
      OBVIOUS
    <3>1. CASE i \in DOMAIN frames
      BY <1>3, <1>4, <3>1 DEF FramesApart
    <3>2. CASE i = Len(frames) + 1
      <4>1. frames'[i] = new
        BY <1>3, <3>2, Zenon
      <4>2. new.from \in Nat /\ new.to \in Nat
        BY <1>1 DEF Ranges
      <4>3. new.from >= 0 /\ new.to <= input.total
        BY <1>1, <4>2
      <4> QED
        BY <1>1, <4>1, <4>3, Zenon
    <3> QED
      BY <1>6, <3>1, <3>2
  <2>2. \A i, j \in DOMAIN frames' : i < j => frames'[i].to <= frames'[j].from
    <3> SUFFICES ASSUME NEW i \in DOMAIN frames', NEW j \in DOMAIN frames', i < j
        PROVE  frames'[i].to <= frames'[j].from
      OBVIOUS
    <3>1. i \in DOMAIN frames
      BY <1>3, <1>4
    <3>2. CASE j \in DOMAIN frames
      BY <1>3, <1>4, <3>1, <3>2 DEF FramesApart
    <3>3. CASE j = Len(frames) + 1
      <4>1. frames'[i] = frames[i] /\ frames'[j] = new
        BY <1>3, <1>4, <3>1, <3>3, Zenon
      <4>2. frames[i].to \in Nat /\ frames[i].to <= offset
        BY <1>5, <3>1 DEF Ranges
      <4>3. new.from \in Nat /\ frames[i].to <= new.from
        BY <1>1, <4>2 DEF Ranges
      <4> QED
        BY <4>1, <4>3
    <3> QED
      BY <1>6, <3>2, <3>3
  <2> QED
    BY <2>1, <2>2 DEF FramesApart
<1> QED
  BY <1>7, <1>8

-----------------------------------------------------------------------------
(* The steps of the path.                                                   *)

\* One turn of packet::decode.
LEMMA DecodePacketKeeps ==
    ASSUME Standing, FramesApart, DecodePacket
    PROVE  Standing' /\ FramesApart'
<1>1. phase = "decode" /\ input.from = "device" /\ UNCHANGED <<packet, limit, input, sent>>
  BY DEF DecodePacket
<1>2. CASE phase' \in {"relay", "failed"} /\ UNCHANGED <<offset, frames>>
  BY <1>1, <1>2 DEF Standing, FramesApart
<1>3. CASE \E h \in At(PacketHeads) :
              PacketSound(h) /\ Found(h.start, h.size) /\ offset' = offset + h.len
                /\ UNCHANGED phase
  <2>1. PICK h \in At(PacketHeads) :
              PacketSound(h) /\ Found(h.start, h.size) /\ offset' = offset + h.len
                /\ UNCHANGED phase
    BY <1>3
  <2>2. offset \in Nat /\ input.total \in Nat
    BY <1>1 DEF Standing
  <2>3. /\ h.len \in Nat /\ offset + h.len <= input.total /\ h.size \in FrameSizes
        /\ h.start >= HEADER /\ h.start + h.size <= h.len
    BY <2>1, <2>2 DEF PacketSound, Rest, HEADER
  <2>4. h.start \in Nat
    BY <1>1, <2>3, PacketHead DEF HEADER
  <2> QED
    BY <1>1, <2>1, <2>3, <2>4, FoundKeeps
<1> QED
  BY <1>1, <1>2, <1>3 DEF DecodePacket, Fail

\* One turn of Batch::decode.
LEMMA DecodeRecordKeeps ==
    ASSUME Standing, FramesApart, DecodeRecord
    PROVE  Standing' /\ FramesApart'
<1>1. phase = "decode" /\ input.from = "kernel" /\ UNCHANGED <<packet, limit, input, sent>>
  BY DEF DecodeRecord
<1>2. CASE phase' \in {"relay", "failed"} /\ UNCHANGED <<offset, frames>>
  BY <1>1, <1>2 DEF Standing, FramesApart
<1>3. CASE \E h \in At(RecordHeads) :
              /\ RecordSound(h) /\ NextRecord(h.header + h.size) <= Rest
              /\ Found(h.header, h.size)
              /\ offset' = offset + NextRecord(h.header + h.size) /\ UNCHANGED phase
  <2>1. PICK h \in At(RecordHeads) :
              /\ RecordSound(h) /\ NextRecord(h.header + h.size) <= Rest
              /\ Found(h.header, h.size)
              /\ offset' = offset + NextRecord(h.header + h.size) /\ UNCHANGED phase
    BY <1>3
  <2>2. offset \in Nat /\ input.total \in Nat
    BY <1>1 DEF Standing
  <2>3. h.header \in Nat
    BY <1>1, RecordHead
  <2>4. h.size \in FrameSizes /\ h.size \in Nat
    BY <2>1 DEF RecordSound, FrameSizes
  <2>5. h.header + h.size \in Nat
    BY <2>3, <2>4
  <2>6. /\ NextRecord(h.header + h.size) \in Nat
        /\ NextRecord(h.header + h.size) >= h.header + h.size
    BY <2>5, AlignUp DEF NextRecord
  <2>7. offset + NextRecord(h.header + h.size) <= input.total
    BY <2>1, <2>2, <2>6 DEF Rest
  <2> QED
    BY <1>1, <2>1, <2>3, <2>4, <2>6, <2>7, FoundKeeps
<1> QED
  BY <1>1, <1>2, <1>3 DEF DecodeRecord, Fail

\* A frame that is relayed leaves the others where they are.
LEMMA RelayKeeps ==
    ASSUME Standing, FramesApart, frames # <<>>, frames' = Tail(frames),
           phase' = phase, phase = "relay", UNCHANGED <<offset, input>>
    PROVE  Standing' /\ FramesApart'
<1>1. /\ frames' \in Seq(Ranges) /\ Len(frames') = Len(frames) - 1
      /\ Len(frames) \in Nat /\ Len(frames) > 0
      /\ \A i \in 1 .. Len(frames) - 1 : frames'[i] = frames[i + 1]
  BY DEF Standing
<1>2. DOMAIN frames = 1 .. Len(frames) /\ DOMAIN frames' = 1 .. Len(frames) - 1
  BY <1>1 DEF Standing
<1>3. \A i \in DOMAIN frames' : i + 1 \in DOMAIN frames /\ frames'[i] = frames[i + 1]
  BY <1>1, <1>2
<1>4. \A i, j \in DOMAIN frames' : i < j => i + 1 < j + 1
  BY <1>2
<1>5. FramesApart'
  BY <1>3, <1>4 DEF FramesApart
<1>6. Standing'
  BY <1>1 DEF Standing
<1> QED
  BY <1>5, <1>6

\* Every step of the path keeps the ranges.
LEMMA PathKeeps ==
    ASSUME Standing, FramesApart, PathNext
    PROVE  Standing' /\ FramesApart'
<1>1. ASSUME NEW i \in Inputs, Read(i) PROVE Standing' /\ FramesApart'
  <2>1. /\ phase' = "decode" /\ input' = i /\ offset' = 0 /\ frames' = <<>>
        /\ i.total \in Nat
    BY <1>1, InputAssumption DEF Read
  <2> QED
    BY <2>1 DEF Standing, FramesApart
<1>2. CASE Deliver
  <2>1. CASE frames' = Tail(frames) /\ UNCHANGED <<phase, offset>>
    BY <1>2, <2>1, RelayKeeps DEF Deliver
  <2>2. CASE Fail
    BY <1>2, <2>2 DEF Deliver, Fail, Standing, FramesApart
  <2> QED
    BY <1>2, <2>1, <2>2 DEF Deliver
<1>3. CASE Send
  <2>1. CASE frames' = Tail(frames) /\ UNCHANGED <<phase, offset>>
    BY <1>3, <2>1, RelayKeeps DEF Send
  <2>2. CASE Fail
    BY <1>3, <2>2 DEF Send, Fail, Standing, FramesApart
  <2> QED
    BY <1>3, <2>1, <2>2 DEF Send
<1>4. CASE Again
  <2>1. phase' = "idle" /\ input' = NoInput /\ frames = <<>> /\ frames' = <<>>
    BY <1>4 DEF Again
  <2> QED
    BY <2>1 DEF Standing, FramesApart, NoInput
<1> QED
  BY <1>1, <1>2, <1>3, <1>4, DecodePacketKeeps, DecodeRecordKeeps DEF PathNext

-----------------------------------------------------------------------------
(* The packet size.                                                         *)

\* Layout::parse takes endpoints of a legal packet size only.
LEMMA ParsedSize ==
    ASSUME NEW control, NEW data, Accepted(chain, control, data)
    PROVE  OutSize(chain, data) \in PacketSizes
<1>1. Visible(chain) = chain
  BY DEF Accepted, ChainSound, Visible
<1>2. /\ \A j \in Endpoints(chain, data) : chain[j].size \in PacketSizes
      /\ "out" \in {chain[j].address[2] : j \in Endpoints(chain, data)}
  BY <1>1 DEF Accepted, Carries
<1>3. \E j \in Endpoints(chain, data) : chain[j].address[2] = "out"
  BY <1>2
<1> DEFINE out == CHOOSE j \in Endpoints(chain, data) : chain[j].address[2] = "out"
<1>4. out \in Endpoints(chain, data)
  BY <1>3
<1>5. OutSize(chain, data) = chain[out].size
  BY DEF OutSize
<1> HIDE DEF out
<1> QED
  BY <1>2, <1>4, <1>5

\* Neither reading the chain nor changing it gives another packet size.
LEMMA ParseKeeps ==
    ASSUME Chosen, LayoutNext, UNCHANGED pathVars
    PROVE  Chosen'
<1>1. CASE Differ
  BY <1>1 DEF Differ, Chosen, pathVars
<1>2. CASE Parse
  <2>1. ASSUME NEW l \in layout' PROVE l.size \in PacketSizes
    <3>1. PICK p \in {q \in Controls(chain) \X Settings(chain) :
                         config.exact /\ Accepted(chain, q[1], q[2])} :
              l = [control |-> p[1], data |-> p[2], size |-> OutSize(chain, p[2])]
      BY <1>2, <2>1 DEF Parse
    <3>2. Accepted(chain, p[1], p[2])
      BY <3>1
    <3>3. OutSize(chain, p[2]) \in PacketSizes
      BY <3>2, ParsedSize
    <3> QED
      BY <3>1, <3>3
  <2> QED
    BY <1>2, <2>1 DEF Chosen, pathVars
<1> QED
  BY <1>1, <1>2 DEF LayoutNext

\* One byte more than a multiple of a packet is none.
LEMMA PaddedShort ==
    ASSUME packet \in PacketSizes, NEW size \in FrameSizes
    PROVE  /\ Padded(size) \in Nat /\ Padded(size) % packet # 0
           /\ Padded(size) >= HEADER + size
<1> DEFINE len == HEADER + size
<1>1. len \in Nat
  BY DEF HEADER, FrameSizes, FRAME_LIMIT
<1>2. Padded(size) = IF len % packet = 0 THEN len + 1 ELSE len
  BY DEF Padded
<1>3. len >= HEADER + size /\ len + 1 >= HEADER + size /\ len + 1 \in Nat
  BY <1>1
<1> HIDE DEF len
<1>4. len % packet = 0 => (len + 1) % packet # 0
  BY <1>1 DEF PacketSizes
<1>5. CASE len % packet = 0
  BY <1>2, <1>3, <1>4, <1>5
<1>6. CASE len % packet # 0
  BY <1>1, <1>2, <1>3, <1>6
<1> QED
  BY <1>5, <1>6

\* What packet::encode makes is short, and decodes to the frame.
LEMMA SendShort ==
    ASSUME packet \in PacketSizes, NEW size, Encodable(size),
           sent' = [size |-> Padded(size), frame |-> size], UNCHANGED <<packet, limit>>
    PROVE  ShortPacketEnds'
<1>1. /\ size \in FrameSizes /\ Padded(size) <= limit /\ Padded(size) <= TRANSFER_LIMIT
  BY DEF Encodable
<1>2. /\ Padded(size) \in Nat /\ Padded(size) % packet # 0 /\ Padded(size) >= HEADER + size
  BY <1>1, PaddedShort
<1> DEFINE len == HEADER + size
           heads == [o \in {0} |-> Packet(len, HEADER, size)]
           t == [total |-> Padded(size), end |-> len, heads |-> heads]
<1>3. len \in Nat /\ len = size + 44 /\ HEADER = 44
  BY <1>1 DEF HEADER, FrameSizes, FRAME_LIMIT
<1>4. SoundTransfer(t)
  <2>1. /\ t.total = Padded(size) /\ t.end = len /\ t.heads = heads /\ DOMAIN heads = {0}
        /\ heads[0] = Packet(len, HEADER, size)
    OBVIOUS
  <2>2. /\ heads[0].len = len /\ heads[0].start = HEADER /\ heads[0].size = size
    BY DEF Packet
  <2> HIDE DEF t, heads
  <2>3. /\ t.total <= TRANSFER_LIMIT /\ t.end \in 0 .. t.total
        /\ DOMAIN t.heads \subseteq 0 .. t.end /\ 0 \in DOMAIN t.heads
    BY <1>1, <1>2, <1>3, <2>1
  <2>4. ASSUME NEW at \in DOMAIN t.heads
        PROVE  LET h == t.heads[at] IN
               /\ h = Packet(h.len, h.start, h.size) /\ h.size \in FrameSizes
               /\ h.len \in HEADER .. t.end - at
               /\ h.start \in HEADER .. h.len /\ h.start % 4 = 0 /\ h.start + h.size <= h.len
               /\ at + h.len = t.end \/ at + h.len \in DOMAIN t.heads
               /\ DOMAIN t.heads \cap (at + 1 .. at + h.len - 1) = {}
    <3>1. at = 0 /\ t.heads[at] = heads[0]
      BY <2>1, <2>4
    <3>2. /\ HEADER \in HEADER .. len /\ HEADER % 4 = 0 /\ HEADER + size <= len /\ 0 + len = len
          /\ len \in HEADER .. len - 0 /\ {0} \cap (0 + 1 .. 0 + len - 1) = {}
      BY <1>1, <1>3 DEF FrameSizes, FRAME_LIMIT
    <3> QED
      BY <1>1, <1>3, <2>1, <2>2, <3>1, <3>2
  <2> QED
    BY <2>3, <2>4 DEF SoundTransfer
<1>5. sent'.size = Padded(size) /\ sent'.frame = size
  OBVIOUS
<1> QED
  BY <1>1, <1>2, <1>4, <1>5 DEF ShortPacketEnds

-----------------------------------------------------------------------------
(* The input of a sound writer.                                             *)

\* What was found stays found, and the new frame with it.
LEMMA FoundAll ==
    ASSUME frames \in Seq(Ranges), offset \in Nat,
           NEW start \in Nat, NEW size \in FrameSizes, Found(start, size)
    PROVE  /\ \A i \in DOMAIN frames : i \in DOMAIN frames' /\ frames'[i] = frames[i]
           /\ \E i \in DOMAIN frames' : frames'[i].from = offset + start
<1> DEFINE new == [from |-> offset + start, to |-> offset + start + size]
<1>1. new \in Ranges /\ new.from = offset + start
  BY DEF FrameSizes, FRAME_LIMIT, Ranges
<1>2. frames' = Append(frames, new)
  BY DEF Found
<1> HIDE DEF new
<1>3. /\ Len(frames') = Len(frames) + 1 /\ Len(frames) \in Nat /\ frames' \in Seq(Ranges)
      /\ \A i \in 1 .. Len(frames) : frames'[i] = frames[i]
      /\ frames'[Len(frames) + 1] = new
  BY <1>1, <1>2
<1>4. DOMAIN frames = 1 .. Len(frames) /\ DOMAIN frames' = 1 .. Len(frames) + 1
  BY <1>3
<1>5. Len(frames) + 1 \in DOMAIN frames'
  BY <1>3, <1>4
<1> QED
  BY <1>1, <1>3, <1>4, <1>5

\* A step from a header to the next, or to the end, with its frame found.
LEMMA StepServes ==
    ASSUME Standing, Serving, phase = "decode", input.sound,
           DOMAIN input.heads \subseteq Nat, offset \in DOMAIN input.heads,
           NEW start \in Nat, NEW size \in FrameSizes, NEW step \in Nat,
           offset + start = FrameAt(offset),
           offset + step = input.end \/ offset + step \in DOMAIN input.heads,
           DOMAIN input.heads \cap (offset + 1 .. offset + step - 1) = {},
           Found(start, size), offset' = offset + step, UNCHANGED <<phase, input, limit>>
    PROVE  Serving'
<1>1. offset \in Nat /\ frames \in Seq(Ranges)
  BY DEF Standing
<1>2. /\ \A i \in DOMAIN frames : i \in DOMAIN frames' /\ frames'[i] = frames[i]
      /\ \E i \in DOMAIN frames' : frames'[i].from = offset + start
  BY <1>1, FoundAll
<1>3. ASSUME NEW o \in DOMAIN input.heads, o < offset'
      PROVE  \E i \in DOMAIN frames' : frames'[i].from = FrameAt(o)
  <2>1. o \in Nat /\ (o < offset \/ o = offset \/ o \in offset + 1 .. offset + step - 1)
    BY <1>1, <1>3
  <2>2. CASE o < offset
    BY <1>2, <2>2 DEF Serving
  <2>3. CASE o = offset
    BY <1>2, <2>3
  <2> QED
    BY <2>1, <2>2, <2>3
<1> QED
  BY <1>3 DEF Serving, FrameAt

\* packet::decode goes from message to message, and accepts each.
LEMMA DecodePacketServes ==
    ASSUME Standing, Serving, DecodePacket
    PROVE  Serving'
<1>1. phase = "decode" /\ input.from = "device" /\ UNCHANGED <<packet, limit, input, sent>>
  BY DEF DecodePacket
<1>2. CASE phase' = "relay"
  BY <1>1, <1>2 DEF Serving
<1>3. CASE ~input.sound
  BY <1>1, <1>3 DEF Serving
<1>4. CASE input.sound /\ phase' # "relay"
  <2>1. input \in Inputs /\ input.total \in Nat /\ offset \in Nat /\ SoundTransfer(input)
    BY <1>1, <1>4, InputAssumption DEF Standing
  <2>2. /\ input.total <= TRANSFER_LIMIT /\ input.end \in Nat /\ input.end <= input.total
        /\ DOMAIN input.heads \subseteq 0 .. input.end /\ DOMAIN input.heads \subseteq Nat
    BY <2>1 DEF SoundTransfer
  <2>3. /\ FALSE \in AllZero
        /\ \E h \in At(PacketHeads) :
              IF PacketSound(h)
              THEN Found(h.start, h.size) /\ offset' = offset + h.len /\ UNCHANGED phase
              ELSE Fail
    <3>1. ~(input.total > TRANSFER_LIMIT)
      BY <2>1, <2>2 DEF TRANSFER_LIMIT
    <3> QED
      BY <1>4, <3>1, Zenon DEF DecodePacket
  <2>4. offset < input.end
    <3>1. ~(offset >= input.end)
      BY <1>4, <2>3, Zenon DEF AllZero
    <3> QED
      BY <2>1, <2>2, <3>1
  <2>5. offset \in DOMAIN input.heads
    BY <1>1, <1>4, <2>2, <2>4, <2>1 DEF Serving
  <2> DEFINE h == input.heads[offset]
  <2>6. /\ h = Packet(h.len, h.start, h.size) /\ h.size \in FrameSizes
        /\ h.len \in HEADER .. input.end - offset
        /\ h.start \in HEADER .. h.len /\ h.start % 4 = 0 /\ h.start + h.size <= h.len
        /\ offset + h.len = input.end \/ offset + h.len \in DOMAIN input.heads
        /\ DOMAIN input.heads \cap (offset + 1 .. offset + h.len - 1) = {}
    BY <2>1, <2>5 DEF SoundTransfer
  <2>7. At(PacketHeads) = {h}
    BY <1>4, <2>5 DEF At
  <2>8. offset + h.start = FrameAt(offset)
    BY <1>1 DEF FrameAt
  <2> HIDE DEF h
  <2>9. h.type = 1 /\ h.other = 0
    BY <2>6 DEF Packet
  <2>10. /\ h.len \in Nat /\ h.start \in Nat /\ Rest >= HEADER /\ h.len \in HEADER .. Rest
         /\ h.start >= HEADER
    BY <2>1, <2>2, <2>6 DEF HEADER, Rest
  <2>11. PacketSound(h)
    BY <2>6, <2>9, <2>10 DEF PacketSound
  <2>12. Found(h.start, h.size) /\ offset' = offset + h.len /\ UNCHANGED phase
    BY <2>3, <2>7, <2>11
  <2> QED
    BY <1>1, <1>4, <2>2, <2>5, <2>6, <2>8, <2>10, <2>12, StepServes
<1> QED
  BY <1>2, <1>3, <1>4

\* Batch::decode goes from record to record, and accepts each.
LEMMA DecodeRecordServes ==
    ASSUME Standing, Serving, DecodeRecord
    PROVE  Serving'
<1>1. phase = "decode" /\ input.from = "kernel" /\ UNCHANGED <<packet, limit, input, sent>>
  BY DEF DecodeRecord
<1>2. CASE phase' = "relay"
  BY <1>1, <1>2 DEF Serving
<1>3. CASE ~input.sound
  BY <1>1, <1>3 DEF Serving
<1>4. CASE input.sound /\ phase' # "relay"
  <2>1. input \in Inputs /\ input.total \in Nat /\ offset \in Nat /\ SoundBatch(input)
    BY <1>1, <1>4, InputAssumption DEF Standing
  <2>2. input.end = input.total /\ DOMAIN input.heads \subseteq Nat
    BY <2>1 DEF SoundBatch
  <2>3. /\ Rest > 0
        /\ \E h \in At(RecordHeads) :
              IF RecordSound(h) /\ NextRecord(h.header + h.size) <= Rest
              THEN /\ Found(h.header, h.size)
                   /\ offset' = offset + NextRecord(h.header + h.size)
                   /\ UNCHANGED phase
              ELSE Fail
    BY <1>4 DEF DecodeRecord
  <2>4. offset \in DOMAIN input.heads
    BY <1>1, <1>4, <2>1, <2>2, <2>3 DEF Serving, Rest
  <2> DEFINE h == input.heads[offset]
  <2>5. /\ h = Record(h.size) /\ h.size \in FrameSizes
        /\ offset + BPF_HEADER + h.size <= input.total
        /\ \/ offset + BPF_HEADER + h.size = input.total
           \/ offset + Align(BPF_HEADER + h.size) \in DOMAIN input.heads
        /\ DOMAIN input.heads \cap (offset + 1 .. offset + Align(BPF_HEADER + h.size) - 1) = {}
    BY <2>1, <2>4 DEF SoundBatch
  <2>6. At(RecordHeads) = {h}
    BY <1>4, <2>4 DEF At
  <2>7. offset + h.header = FrameAt(offset)
    BY <1>1 DEF FrameAt
  <2> HIDE DEF h
  <2>8. h.captured = h.size /\ h.header = BPF_HEADER
    BY <2>5 DEF Record
  <2> DEFINE end == h.header + h.size
  <2>9. h.size \in Nat /\ h.header \in Nat /\ end \in Nat /\ BPF_HEADER \in Nat
    <3>1. h.size \in Nat /\ BPF_HEADER \in Nat
      <4>1. FrameSizes \subseteq Nat /\ BPF_HEADER \in Nat
        BY DEF FrameSizes, FRAME_LIMIT, BPF_HEADER
      <4> QED
        BY <2>5, <4>1
    <3> QED
      BY <2>8, <3>1
  <2>10. Rest \in Nat /\ end <= Rest /\ Rest = input.total - offset
    BY <2>1, <2>3, <2>5, <2>8, <2>9 DEF Rest
  <2>11. RecordSound(h)
    BY <2>5, <2>8, <2>9, <2>10 DEF RecordSound, FrameSizes
  <2>12. Align(end) \in Nat /\ Align(end) >= end
    BY <2>9, AlignUp
  <2>13. end = BPF_HEADER + h.size
    BY <2>8
  <2> DEFINE step == NextRecord(end)
  <2>14. /\ step \in Nat /\ step <= Rest
         /\ offset + step = input.end \/ offset + step \in DOMAIN input.heads
         /\ DOMAIN input.heads \cap (offset + 1 .. offset + step - 1) = {}
    <3> HIDE DEF end
    <3>1. CASE end = Rest
      <4>1. step = end /\ offset + step = input.end
        BY <2>1, <2>2, <2>9, <2>10, <3>1 DEF NextRecord
      <4>2. offset + step - 1 <= offset + Align(end) - 1
        BY <2>1, <2>9, <2>12, <4>1
      <4>3. offset + 1 .. offset + step - 1 \subseteq offset + 1 .. offset + Align(end) - 1
        BY <2>1, <2>9, <2>12, <4>1, <4>2
      <4> QED
        BY <2>5, <2>9, <2>10, <2>13, <3>1, <4>1, <4>3
    <3>2. CASE end # Rest
      <4>1. step = Align(end)
        BY <3>2 DEF NextRecord
      <4>2. offset + Align(end) \in DOMAIN input.heads
        BY <2>1, <2>5, <2>9, <2>10, <2>13, <3>2
      <4>3. offset + Align(end) + BPF_HEADER <= input.total
        <5> DEFINE at == offset + Align(end)
                   g == input.heads[at]
        <5>1. g.size \in FrameSizes /\ at + BPF_HEADER + g.size <= input.total
          BY <2>1, <4>2 DEF SoundBatch
        <5>2. g.size \in Nat /\ at \in Nat
          BY <2>1, <2>12, <5>1 DEF FrameSizes
        <5> HIDE DEF at, g
        <5>3. at + BPF_HEADER <= input.total
          BY <2>1, <2>9, <5>1, <5>2
        <5> QED
          BY <5>3 DEF at
      <4>4. Align(end) <= Rest
        BY <2>1, <2>9, <2>10, <2>12, <4>3
      <4> QED
        BY <2>5, <2>12, <2>13, <4>1, <4>2, <4>4
    <3> QED
      BY <3>1, <3>2
  <2>15. Found(h.header, h.size) /\ offset' = offset + step /\ UNCHANGED phase
    BY <2>3, <2>6, <2>11, <2>14
  <2> HIDE DEF step, end
  <2> QED
    BY <1>1, <1>4, <2>2, <2>4, <2>5, <2>7, <2>9, <2>14, <2>15, StepServes
<1> QED
  BY <1>2, <1>3, <1>4

\* A frame of a legal length crosses the channel and can be sent.
LEMMA Relayed ==
    ASSUME Standing, FramesApart, frames # <<>>
    PROVE  LET size == Head(frames).to - Head(frames).from IN
           size \in FrameSizes /\ Datagram(size)
<1> DEFINE size == Head(frames).to - Head(frames).from
<1>1. 1 \in DOMAIN frames /\ Head(frames) = frames[1]
  BY DEF Standing
<1>2. size \in FrameSizes
  BY <1>1 DEF FramesApart
<1> HIDE DEF size
<1>3. Datagram(size)
  BY <1>2 DEF Datagram, FrameSizes, FRAME_LIMIT
<1> QED
  BY <1>2, <1>3 DEF size

\* The largest frame makes a transfer of 1558 bytes, which no packet size
\* divides: it needs no padding, and the smallest limit holds it.
LEMMA Fits ==
    ASSUME packet \in PacketSizes, limit \in Nat, limit >= HEADER + FRAME_LIMIT,
           NEW size \in FrameSizes
    PROVE  Encodable(size)
<1> DEFINE len == HEADER + size
<1>1. /\ len \in Nat /\ len <= 1558 /\ HEADER + FRAME_LIMIT = 1558 /\ TRANSFER_LIMIT = 16384
  BY DEF HEADER, FrameSizes, FRAME_LIMIT, TRANSFER_LIMIT
<1>2. Padded(size) = IF len % packet = 0 THEN len + 1 ELSE len
  BY DEF Padded
<1> HIDE DEF len
<1>3. 1558 % packet # 0 /\ packet # 0
  BY DEF PacketSizes
<1>4. len % packet = 0 => len <= 1557
  BY <1>1, <1>3
<1>5. Padded(size) <= 1558
  BY <1>1, <1>2, <1>4
<1>6. Padded(size) \in Nat
  BY <1>1, <1>2
<1> QED
  BY <1>1, <1>3, <1>5, <1>6 DEF Encodable

\* Every step of the path serves a sound writer.
LEMMA PathServes ==
    ASSUME Standing, FramesApart, Serving, phase # "closed" => packet \in PacketSizes, PathNext
    PROVE  Serving'
<1>1. ASSUME NEW i \in Inputs, Read(i) PROVE Serving'
  <2>1. /\ phase # "closed" /\ phase' = "decode" /\ input' = i /\ offset' = 0
        /\ i.from \in {"device", "kernel"} /\ limit' = limit
    BY <1>1, InputAssumption DEF Read
  <2>2. ASSUME i.sound
        PROVE  DOMAIN i.heads \subseteq Nat /\ (0 = i.end \/ 0 \in DOMAIN i.heads)
    <3>1. CASE i.from = "device"
      <4>1. SoundTransfer(i) /\ i.total \in Nat
        BY <2>2, <3>1, InputAssumption
      <4>2. i.end \in Nat /\ DOMAIN i.heads \subseteq 0 .. i.end /\ (i.end > 0 => 0 \in DOMAIN i.heads)
        BY <4>1 DEF SoundTransfer
      <4> QED
        BY <4>2
    <3>2. CASE i.from = "kernel"
      BY <2>2, <3>2, InputAssumption DEF SoundBatch
    <3> QED
      BY <2>1, <3>1, <3>2
  <2>3. \A o \in Nat : ~(o < 0)
    OBVIOUS
  <2> QED
    BY <2>1, <2>2, <2>3 DEF Serving
<1>2. CASE Deliver
  <2>1. phase = "relay" /\ phase' = "relay" /\ UNCHANGED <<limit, input>>
    BY <1>2, Relayed DEF Deliver
  <2> QED
    BY <2>1 DEF Serving
<1>3. CASE Send
  <2> DEFINE size == Head(frames).to - Head(frames).from
  <2>1. phase = "relay" /\ UNCHANGED <<limit, input>> /\ size \in FrameSizes /\ Datagram(size)
    BY <1>3, Relayed DEF Send
  <2>2. Encodable(size)
    BY <2>1, Fits DEF Serving
  <2>3. phase' = "relay"
    BY <1>3, <2>1, <2>2 DEF Send
  <2> QED
    BY <2>1, <2>3 DEF Serving
<1>4. CASE Again
  BY <1>4 DEF Again, Serving
<1> QED
  BY <1>1, <1>2, <1>3, <1>4, DecodePacketServes, DecodeRecordServes DEF PathNext

-----------------------------------------------------------------------------
(* The function that is chosen.                                             *)

\* Numbers are bytes, and a body lies in the chain.
LEMMA Fields ==
    ASSUME chain \in Seq(AnyDescriptor)
    PROVE  /\ \A i \in Settings(chain) : chain[i].number \in Bytes
           /\ \A i \in Of("association", chain) :
                 chain[i].first \in Bytes /\ chain[i].count \in Bytes
           /\ \A i \in DOMAIN chain :
                 chain[i].kind = "union" => chain[i].slave \in Bytes
<1>1. ASSUME NEW i \in DOMAIN chain
      PROVE  /\ chain[i].kind = "interface" => chain[i].number \in Bytes
             /\ chain[i].kind = "association" =>
                   chain[i].first \in Bytes /\ chain[i].count \in Bytes
             /\ chain[i].kind = "union" => chain[i].slave \in Bytes
  <2>1. chain[i] \in AnyDescriptor
    BY <1>1
  <2> QED
    BY <2>1 DEF AnyDescriptor, Malformed
<1> QED
  BY <1>1 DEF Settings, Of

\* The endpoints of a setting are finitely many.
LEMMA EndpointsFinite ==
    ASSUME chain \in Seq(AnyDescriptor), NEW i \in Settings(chain)
    PROVE  IsFiniteSet(Endpoints(chain, i))
<1>1. i \in Int /\ Len(chain) \in Int
  BY DEF Settings, Of
<1>2. IsFiniteSet(i + 1 .. Len(chain))
  BY <1>1, FS_Interval
<1>3. Endpoints(chain, i) \subseteq i + 1 .. Len(chain)
  BY DEF Endpoints, Body
<1> QED
  BY <1>2, <1>3, FS_Subset

\* Three distinct elements.
LEMMA Three ==
    ASSUME NEW a, NEW b, NEW c, a # b, a # c, b # c
    PROVE  Cardinality({a, b, c}) = 3
<1>1. IsFiniteSet({a}) /\ Cardinality({a}) = 1
  BY FS_Singleton
<1>2. IsFiniteSet({a} \cup {b}) /\ Cardinality({a} \cup {b}) = 2
  BY <1>1, FS_AddElement
<1>3. Cardinality(({a} \cup {b}) \cup {c}) = 3
  BY <1>2, FS_AddElement
<1>4. ({a} \cup {b}) \cup {c} = {a, b, c}
  OBVIOUS
<1> QED
  BY <1>3, <1>4

\* The data interface is another than the control interface.
LEMMA OtherNumber ==
    ASSUME chain \in Seq(AnyDescriptor), NEW i \in Settings(chain), UnionSound(chain, i)
    PROVE  DataNumber(chain, i) # chain[i].number
<1>1. chain[i].number \in Int
  <2>1. chain[i].number \in Bytes
    BY Fields
  <2>2. \A b \in Bytes : b \in Int
    BY DEF Bytes
  <2> QED
    BY <2>1, <2>2
<1>2. CASE Unions(chain, i) = {}
  BY <1>1, <1>2 DEF DataNumber
<1>3. CASE Unions(chain, i) # {}
  <2> DEFINE j == CHOOSE j \in Unions(chain, i) : TRUE
  <2>1. j \in Unions(chain, i)
    BY <1>3
  <2>2. DataNumber(chain, i) = chain[j].slave
    BY <1>3 DEF DataNumber
  <2> HIDE DEF j
  <2> QED
    BY <2>1, <2>2 DEF UnionSound
<1> QED
  BY <1>2, <1>3

\* Associations share no interface: one that holds either of the two is the
\* one that the control interface opens.
LEMMA OneAssociation ==
    ASSUME ChainSound(chain), NEW i \in Settings(chain), InFunction(chain, i),
           NEW j \in Of("association", chain)
    PROVE  chain[i].number \in Span(chain[j]) <=> DataNumber(chain, i) \in Span(chain[j])
<1> DEFINE over == {k \in Of("association", chain) : chain[i].number \in Span(chain[k])}
<1>1. CASE over = {}
  BY <1>1 DEF InFunction
<1>2. CASE over # {}
  <2>1. \A k \in over : DataNumber(chain, i) \in Span(chain[k])
    BY <1>2 DEF InFunction
  <2>2. PICK k \in over : TRUE
    BY <1>2
  <2>3. ASSUME DataNumber(chain, i) \in Span(chain[j]) PROVE j = k
    BY <2>1, <2>2, <2>3 DEF ChainSound
  <2> QED
    BY <2>1, <2>2, <2>3
<1> QED
  BY <1>1, <1>2

\* What Layout::parse accepts is one whole function.
LEMMA ParsedWhole ==
    ASSUME chain \in Seq(AnyDescriptor),
           NEW control \in Controls(chain), NEW data \in Settings(chain),
           Accepted(chain, control, data)
    PROVE  /\ Controls(chain) = {control}
           /\ chain[control].number # chain[data].number
           /\ \A j \in Of("association", chain) :
                 chain[control].number \in Span(chain[j])
                     <=> chain[data].number \in Span(chain[j])
           /\ Cardinality({chain[j].address :
                 j \in Endpoints(chain, control) \cup Endpoints(chain, data)}) = 3
<1>1. Visible(chain) = chain /\ ChainSound(chain)
  BY DEF Accepted, ChainSound, Visible
<1>2. /\ Controls(chain) = {control} /\ UnionSound(chain, control)
      /\ InFunction(chain, control) /\ Candidates(chain, control) = {data}
      /\ Notifies(chain, control) /\ Carries(chain, data)
      /\ \A j \in Endpoints(chain, data) :
            chain[j].address \notin {chain[k].address : k \in Endpoints(chain, control)}
  BY <1>1 DEF Accepted
<1>3. control \in Settings(chain) /\ chain[data].number = DataNumber(chain, control)
  BY <1>2 DEF Controls, Candidates
<1>4. Cardinality({chain[j].address :
          j \in Endpoints(chain, control) \cup Endpoints(chain, data)}) = 3
  <2> DEFINE E == Endpoints(chain, control)
             F == Endpoints(chain, data)
  <2>1. IsFiniteSet(E) /\ IsFiniteSet(F)
    BY <1>3, EndpointsFinite
  <2>2. Cardinality(E) = 1 /\ {chain[j].address[2] : j \in F} = {"in", "out"}
        /\ Cardinality(F) = 2
    BY <1>2 DEF Notifies, Carries
  <2>3. \A j \in F : chain[j].address \notin {chain[k].address : k \in E}
    BY <1>2
  <2> HIDE DEF E, F
  <2>4. PICK e : E = {e}
    BY <2>1, <2>2, FS_Singleton
  <2>5. "in" \in {chain[j].address[2] : j \in F} /\ "out" \in {chain[j].address[2] : j \in F}
    BY <2>2
  <2>6. PICK x \in F : chain[x].address[2] = "in"
    BY <2>5
  <2>7. PICK y \in F : chain[y].address[2] = "out"
    BY <2>5
  <2>8. F = {x, y}
    <3>1. "in" # "out"
      OBVIOUS
    <3>2. x # y
      BY <2>6, <2>7, <3>1
    <3>3. IsFiniteSet(F \ {x}) /\ Cardinality(F \ {x}) = 1
      BY <2>1, <2>2, FS_RemoveElement
    <3>4. PICK z : F \ {x} = {z}
      BY <3>3, FS_Singleton
    <3> QED
      BY <3>2, <3>4
  <2>9. chain[x].address # chain[y].address
    BY <2>6, <2>7
  <2>10. chain[x].address # chain[e].address /\ chain[y].address # chain[e].address
    BY <2>3, <2>4
  <2>11. {chain[j].address : j \in E \cup F}
            = {chain[e].address, chain[x].address, chain[y].address}
    BY <2>4, <2>8
  <2>12. Cardinality({chain[j].address : j \in E \cup F}) = 3
    <3> DEFINE a == chain[e].address
               b == chain[x].address
               c == chain[y].address
    <3>1. a # b /\ a # c /\ b # c
      BY <2>9, <2>10
    <3> HIDE DEF a, b, c
    <3>2. Cardinality({a, b, c}) = 3
      BY <3>1, Three
    <3> QED
      BY <2>11, <3>2 DEF a, b, c
  <2> QED
    BY <2>12 DEF E, F
<1> QED
  BY <1>1, <1>2, <1>3, <1>4, OtherNumber, OneAssociation

\* A device that differs in a descriptor has a chain of descriptors.
LEMMA DifferChain ==
    ASSUME chain \in Seq(AnyDescriptor), Differ
    PROVE  chain' \in Seq(AnyDescriptor)
<1>1. ASSUME NEW d \in Descriptors, NEW i \in 1 .. Len(chain) + 1, chain' = InsertAt(chain, i, d)
      PROVE  chain' \in Seq(AnyDescriptor)
  <2>1. d \in AnyDescriptor /\ Len(chain) \in Nat
        /\ \A k \in 1 .. Len(chain) : chain[k] \in AnyDescriptor
    BY DescriptorAssumption
  <2>2. SubSeq(chain, 1, i - 1) \in Seq(AnyDescriptor)
    <3>1. \A k \in 1 .. i - 1 : chain[k] \in AnyDescriptor
      BY <2>1
    <3> QED
      BY <2>1, <3>1, SubSeqProperties
  <2>3. SubSeq(chain, i, Len(chain)) \in Seq(AnyDescriptor)
    <3>1. \A k \in i .. Len(chain) : chain[k] \in AnyDescriptor
      BY <2>1
    <3> QED
      BY <2>1, <3>1, SubSeqProperties
  <2>4. <<d>> \in Seq(AnyDescriptor)
    BY <2>1
  <2>5. SubSeq(chain, 1, i - 1) \o <<d>> \in Seq(AnyDescriptor)
    BY <2>2, <2>4, ConcatProperties
  <2> QED
    BY <1>1, <2>3, <2>5, ConcatProperties DEF InsertAt
<1>2. ASSUME NEW d \in Descriptors, NEW i \in DOMAIN chain, chain' = [chain EXCEPT ![i] = d]
      PROVE  chain' \in Seq(AnyDescriptor)
  BY <1>2, DescriptorAssumption, ExceptSeq
<1>3. ASSUME NEW i \in DOMAIN chain, chain' = RemoveAt(chain, i)
      PROVE  chain' \in Seq(AnyDescriptor)
  <2>1. i \in 1 .. Len(chain) /\ Len(chain) \in Nat
        /\ \A k \in 1 .. Len(chain) : chain[k] \in AnyDescriptor
    OBVIOUS
  <2>2. SubSeq(chain, 1, i - 1) \in Seq(AnyDescriptor)
    <3>1. \A k \in 1 .. i - 1 : chain[k] \in AnyDescriptor
      BY <2>1
    <3> QED
      BY <2>1, <3>1, SubSeqProperties
  <2>3. SubSeq(chain, i + 1, Len(chain)) \in Seq(AnyDescriptor)
    <3>1. \A k \in i + 1 .. Len(chain) : chain[k] \in AnyDescriptor
      BY <2>1
    <3> QED
      BY <2>1, <3>1, SubSeqProperties
  <2> QED
    BY <1>3, <2>2, <2>3, ConcatProperties DEF RemoveAt
<1> QED
  BY <1>1, <1>2, <1>3 DEF Differ

\* What WholeFunction says of a chain and a layout.
Whole(c, l) ==
    /\ Controls(c) = {l.control}
    /\ c[l.control].number # c[l.data].number
    /\ \A j \in Of("association", c) :
          c[l.control].number \in Span(c[j]) <=> c[l.data].number \in Span(c[j])
    /\ Cardinality({c[j].address :
          j \in Endpoints(c, l.control) \cup Endpoints(c, l.data)}) = 3

\* It says that of every layout, before and after a step.
LEMMA WholeLayouts ==
    /\ WholeFunction <=> \A l \in layout : Whole(chain, l)
    /\ WholeFunction' <=> \A l \in layout' : Whole(chain', l)
<1>1. WholeFunction <=> \A l \in layout : Whole(chain, l)
  BY Zenon DEF WholeFunction, Whole
<1>2. WholeFunction' <=> \A l \in layout' : Whole(chain', l)
  BY Zenon DEF WholeFunction, Whole
<1> QED
  BY <1>1, <1>2

\* While neither the chain nor the verdict changes, nor does the selection.
LEMMA SelectedStays ==
    ASSUME Selected, UNCHANGED <<chain, verdict, layout>>
    PROVE  Selected'
<1>1. chain' = chain /\ verdict' = verdict /\ layout' = layout
  OBVIOUS
<1>2. WholeFunction'
  BY <1>1, WholeLayouts, Zenon DEF Selected
<1> QED
  BY <1>1, <1>2 DEF Selected

\* The layout that is kept is a whole function of the chain that was read.
LEMMA LayoutSelects ==
    ASSUME Selected, LayoutNext
    PROVE  Selected'
<1>1. CASE Differ
  <2>1. layout = {} /\ layout' = {}
    BY <1>1 DEF Differ, Selected
  <2> QED
    BY <1>1, <2>1, DifferChain DEF Selected, WholeFunction
<1>2. CASE Parse
  <2>1. chain' = chain /\ verdict' # "unread"
    BY <1>2 DEF Parse
  <2>2. WholeFunction'
    <3> SUFFICES ASSUME NEW l \in layout'
        PROVE  /\ Controls(chain) = {l.control}
               /\ chain[l.control].number # chain[l.data].number
               /\ \A j \in Of("association", chain) :
                     chain[l.control].number \in Span(chain[j])
                         <=> chain[l.data].number \in Span(chain[j])
               /\ Cardinality({chain[j].address :
                     j \in Endpoints(chain, l.control) \cup Endpoints(chain, l.data)}) = 3
      BY <2>1 DEF WholeFunction
    <3>1. PICK p \in {q \in Controls(chain) \X Settings(chain) :
                         config.exact /\ Accepted(chain, q[1], q[2])} :
              l = [control |-> p[1], data |-> p[2], size |-> OutSize(chain, p[2])]
      BY <1>2 DEF Parse
    <3>2. /\ p[1] \in Controls(chain) /\ p[2] \in Settings(chain)
          /\ Accepted(chain, p[1], p[2]) /\ l.control = p[1] /\ l.data = p[2]
      BY <3>1
    <3> QED
      BY <3>2, ParsedWhole DEF Selected
  <2> QED
    BY <2>1, <2>2 DEF Selected
<1> QED
  BY <1>1, <1>2 DEF LayoutNext

-----------------------------------------------------------------------------
(* The invariant.                                                           *)

\* It holds at first.
LEMMA InitInvariant == Init => IInv
<1> SUFFICES ASSUME Init PROVE IInv
  OBVIOUS
<1>1. phase = "closed" /\ input = NoInput /\ frames = <<>> /\ sent = NoTransfer
      /\ verdict = "unread"
  BY DEF Init, LayoutInit, PathInit
<1>2. layout = {} /\ chain \in Seq(AnyDescriptor)
  BY DescriptorAssumption DEF Init, LayoutInit
<1>3. Selected
  BY <1>2 DEF Selected, WholeFunction
<1> QED
  BY <1>1, <1>3
  DEF IInv, Standing, FramesApart, Chosen, ShortPacketEnds, Serving, NoInput, NoTransfer

\* Every step keeps it.
LEMMA NextInvariant == IInv /\ [Next]_vars => IInv'
<1> SUFFICES ASSUME IInv, [Next]_vars PROVE IInv'
  OBVIOUS
<1>1. CASE UNCHANGED vars
  <2>1. Standing' /\ FramesApart' /\ Chosen' /\ ShortPacketEnds' /\ Serving'
    BY <1>1
    DEF vars, layoutVars, pathVars, IInv, Standing, FramesApart, Chosen, ShortPacketEnds,
        Serving, FrameAt
  <2>2. UNCHANGED <<chain, verdict, layout>>
    BY <1>1 DEF vars, layoutVars
  <2>3. Selected'
    BY <2>2, SelectedStays DEF IInv
  <2> QED
    BY <2>1, <2>3 DEF IInv
<1>2. CASE LayoutNext /\ UNCHANGED pathVars
  <2>1. Chosen'
    BY <1>2, ParseKeeps DEF IInv
  <2>2. Standing' /\ FramesApart' /\ ShortPacketEnds' /\ Serving'
    BY <1>2 DEF pathVars, IInv, Standing, FramesApart, ShortPacketEnds, Serving, FrameAt
  <2>3. Selected'
    BY <1>2, LayoutSelects DEF IInv
  <2> QED
    BY <2>1, <2>2, <2>3 DEF IInv
<1>3. CASE Open
  <2>1. PICK l \in layout, declared \in MaxTransfers : Connect(l.size, declared)
    BY <1>3 DEF Open
  <2>2. l.size \in PacketSizes /\ verdict' = "opened"
    BY <1>3 DEF Open, IInv, Chosen
  <2>3. /\ phase = "closed" /\ phase' = "idle" /\ packet' = l.size
        /\ UNCHANGED <<input, offset, frames, sent>>
    BY <2>1 DEF Connect
  <2>4. Standing' /\ FramesApart' /\ Chosen'
    BY <2>2, <2>3 DEF IInv, Standing, FramesApart, Chosen
  <2>5. ShortPacketEnds'
    BY <2>3 DEF IInv, Chosen, ShortPacketEnds, NoTransfer
  <2>6. limit' \in Nat /\ limit' >= HEADER + FRAME_LIMIT
    <3>1. declared \in Nat
      BY HeadAssumption
    <3>2. HEADER + FRAME_LIMIT = 1558 /\ TRANSFER_LIMIT = 16384
      BY DEF HEADER, FRAME_LIMIT, TRANSFER_LIMIT
    <3> QED
      BY <2>1, <3>1, <3>2 DEF Connect
  <2>7. Serving'
    BY <2>3, <2>6 DEF Serving
  <2>8. Selected'
    <3>1. chain' = <<>> /\ layout' = {}
      BY <1>3 DEF Open
    <3>2. <<>> \in Seq(AnyDescriptor)
      OBVIOUS
    <3> QED
      BY <3>1, <3>2 DEF Selected, WholeFunction
  <2> QED
    BY <2>4, <2>5, <2>7, <2>8 DEF IInv
<1>4. CASE PathNext /\ UNCHANGED layoutVars
  <2>1. Standing' /\ FramesApart'
    BY <1>4, PathKeeps DEF IInv
  <2>2. phase # "closed" /\ phase' # "closed" /\ packet' = packet /\ limit' = limit
    BY <1>4
    DEF PathNext, Read, DecodePacket, DecodeRecord, Deliver, Send, Again, Fail
  <2>3. Chosen'
    BY <1>4, <2>2 DEF layoutVars, IInv, Chosen
  <2>4. ShortPacketEnds'
    <3>1. CASE Send
      <4>1. CASE UNCHANGED sent
        BY <2>2, <4>1 DEF IInv, ShortPacketEnds
      <4>2. CASE \E size \in Int : Encodable(size)
                    /\ sent' = [size |-> Padded(size), frame |-> size]
        BY <2>2, <4>2, SendShort DEF IInv, Chosen
      <4>3. UNCHANGED sent \/ \E size : Encodable(size)
                                 /\ sent' = [size |-> Padded(size), frame |-> size]
        BY <3>1 DEF Send
      <4> QED
        BY <4>1, <4>2, <4>3 DEF Encodable, FrameSizes
    <3>2. CASE Again
      <4>1. sent' = NoTransfer
        BY <3>2 DEF Again
      <4> QED
        BY <4>1 DEF NoTransfer, ShortPacketEnds
    <3>3. CASE UNCHANGED sent
      BY <2>2, <3>3 DEF IInv, ShortPacketEnds
    <3>4. Send \/ Again \/ UNCHANGED sent
      BY <1>4 DEF PathNext, Read, DecodePacket, DecodeRecord, Deliver
    <3> QED
      BY <3>1, <3>2, <3>3, <3>4
  <2>5. Serving'
    BY <1>4, <2>2, PathServes DEF IInv, Chosen
  <2>6. Selected'
    BY <1>4, SelectedStays DEF layoutVars, IInv
  <2> QED
    BY <2>1, <2>3, <2>4, <2>5, <2>6 DEF IInv
<1> QED
  BY <1>1, <1>2, <1>3, <1>4 DEF Next

-----------------------------------------------------------------------------
(* The theorems.                                                            *)

\* The inductive invariant: the decoder stands behind what it found, and the
\* packet size is one that Layout::parse accepts.
THEOREM Invariance == Spec => []IInv
  BY InitInvariant, NextInvariant, PTL DEF Spec

\* Whatever a device or the kernel writes, and whatever its headers say, the
\* frames that are taken from it lie in it and share no byte.
THEOREM FramesApartHolds == Spec => []FramesApart
<1>1. IInv => FramesApart
  BY DEF IInv
<1> QED
  BY <1>1, Invariance, PTL

\* For every layout a device may have and every limit it may declare, each
\* bulk-out transfer ends with a short packet, within the limit, and decodes
\* to its frame.
THEOREM ShortPacketEndsHolds == Spec => []ShortPacketEnds
<1>1. IInv => ShortPacketEnds
  BY DEF IInv
<1> QED
  BY <1>1, Invariance, PTL

\* Nothing that a sound device or the kernel writes ends the session, for any
\* number of messages, gaps between them and padding; and no frame of the
\* interface is too long for what was negotiated.
THEOREM SoundServedHolds == Spec => []SoundServed
<1>1. ASSUME IInv PROVE SoundServed
  <2> SUFFICES ASSUME input.sound, phase = "decode", offset >= input.end,
                      NEW o \in DOMAIN input.heads
      PROVE  \E i \in DOMAIN frames : frames[i].from = FrameAt(o)
    BY <1>1 DEF IInv, Serving, SoundServed, FrameAt
  <2>1. input \in Inputs /\ input.from \in {"device", "kernel"} /\ input.total \in Nat
        /\ offset \in Nat
    BY <1>1, InputAssumption DEF IInv, Standing
  <2>2. CASE input.from = "device"
    <3> DEFINE h == input.heads[o]
    <3>1. SoundTransfer(input)
      BY <2>1, <2>2, InputAssumption
    <3>2. o \in 0 .. input.end /\ input.end \in Nat /\ h.len \in HEADER .. input.end - o
      BY <3>1 DEF SoundTransfer
    <3>3. o < input.end
      BY <3>2 DEF HEADER
    <3>4. o < offset
      BY <2>1, <3>2, <3>3
    <3> QED
      BY <1>1, <3>4 DEF IInv, Serving
  <2>3. CASE input.from = "kernel"
    <3> DEFINE h == input.heads[o]
    <3>1. SoundBatch(input)
      BY <2>1, <2>3, InputAssumption
    <3>2. /\ o \in Nat /\ input.end = input.total /\ h.size \in FrameSizes
          /\ o + BPF_HEADER + h.size <= input.total
      BY <3>1 DEF SoundBatch
    <3>3. o < input.end
      BY <2>1, <3>2 DEF BPF_HEADER, FrameSizes
    <3>4. o < offset
      BY <2>1, <3>2, <3>3
    <3> QED
      BY <1>1, <3>4 DEF IInv, Serving
  <2> QED
    BY <2>1, <2>2, <2>3
<1> QED
  BY <1>1, Invariance, PTL

\* Whatever the descriptors of a device are, as many as it has, the layout
\* that Layout::parse returns is its only RNDIS function and a whole one.
THEOREM WholeFunctionHolds == Spec => []WholeFunction
<1>1. IInv => WholeFunction
  BY DEF IInv, Selected
<1> QED
  BY <1>1, Invariance, PTL

-----------------------------------------------------------------------------
(* Sound devices: a function of one of the shapes that TLC starts from, with *)
(* any numbers, endpoint addresses and packet sizes, among any other sound   *)
(* functions.                                                                *)

Ends ==
    {e \in [note : 1 .. 15, in : 1 .. 15, out : 1 .. 15,
            wake : 8 .. 1024, read : PacketSizes, write : PacketSizes] : e.note # e.in}

Note(e) == Endpoint(e.note, "in", "interrupt", e.wake)
In(e)   == Endpoint(e.in, "in", "bulk", e.read)
Out(e)  == Endpoint(e.out, "out", "bulk", e.write)

\* With an association and a union, of interfaces that need not be next to
\* each other.
Joined(m, n, s, e) ==
    <<Association(m, n), Unit(m, 0, "rndis", 1), Union(m, s), Note(e),
      Unit(s, 0, "data", 2), In(e), Out(e)>>

\* With neither, and a data interface that is idle until its second setting.
Bare(m, e) ==
    <<Unit(m, 0, "rndis", 1), Note(e), Unit(m + 1, 0, "data", 0),
      Unit(m + 1, 1, "data", 2), In(e), Out(e)>>

\* With an association only.
Bound(m, n, e) ==
    <<Association(m, n), Unit(m, 0, "rndis", 1), Note(e),
      Unit(m + 1, 0, "data", 2), In(e), Out(e)>>

\* The endpoints of the setting at p are numbered, differ, and are as many as
\* it declares.
SettingSound(c, p) ==
    /\ \A j \in Endpoints(c, p) : c[j].address[1] # 0
    /\ Cardinality({c[j].address : j \in Endpoints(c, p)}) = Cardinality(Endpoints(c, p))
    /\ Cardinality(Endpoints(c, p)) = c[p].endpoints

\* What is not in F are sound functions of other kinds: they have no interface
\* of the numbers m and s, and no association over a number in own.
Others(c, F, m, s, own) ==
    /\ \A p \in DOMAIN c \ F :
          /\ c[p].kind # "malformed"
          /\ c[p].kind = "interface" =>
                c[p].class # "rndis" /\ c[p].number \notin {m, s} /\ SettingSound(c, p)
          /\ c[p].kind = "association" =>
                /\ c[p].count > 0 /\ c[p].first + c[p].count <= 256
                /\ Span(c[p]) \cap own = {}
    /\ \A p, q \in DOMAIN c \ F : p # q =>
          /\ c[p].kind = "interface" /\ c[q].kind = "interface" =>
                <<c[p].number, c[p].alternate>> # <<c[q].number, c[q].alternate>>
          /\ c[p].kind = "association" /\ c[q].kind = "association" =>
                Span(c[p]) \cap Span(c[q]) = {}

\* The descriptors f stand behind the k-th, among others; the endpoints that
\* follow them are another setting's.
Amidst(c, k, f, m, s, own) ==
    /\ k + Len(f) <= Len(c) /\ \A j \in 1 .. Len(f) : c[k + j] = f[j]
    /\ Others(c, k + 1 .. k + Len(f), m, s, own)
    /\ \A j \in k + Len(f) + 1 .. Len(c) :
          (\A p \in k + Len(f) + 1 .. j : c[p].kind # "interface") => c[j].kind # "endpoint"

SoundChain(c) ==
    \E k \in Nat, m \in Bytes, s \in Bytes, n \in Nat, e \in Ends :
       \/ /\ m < s /\ s < m + n /\ m + n <= 256
          /\ Amidst(c, k, Joined(m, n, s, e), m, s, m .. m + n - 1)
       \/ /\ s = m + 1
          /\ Amidst(c, k, Bare(m, e), m, s, {m, s})
       \/ /\ s = m + 1 /\ s < m + n /\ m + n <= 256
          /\ Amidst(c, k, Bound(m, n, e), m, s, m .. m + n - 1)

\* A device that declares the interfaces it has, and has a function of one of
\* these shapes.
SoundDevice(t) ==
    /\ t.config.exact /\ t.config.interfaces = Cardinality(Numbers(t.chain))
    /\ SoundChain(t.chain)

\* Nothing, and one element.
LEMMA NoneOne == Cardinality({}) = 0 /\ \A a : Cardinality({a}) = 1
  BY FS_EmptySet, FS_Singleton

\* Two distinct elements.
LEMMA Two ==
    ASSUME NEW a, NEW b, a # b
    PROVE  Cardinality({a, b}) = 2
<1>1. IsFiniteSet({a}) /\ Cardinality({a}) = 1
  BY FS_Singleton
<1>2. Cardinality({a} \cup {b}) = 2
  BY <1>1, FS_AddElement
<1>3. {a} \cup {b} = {a, b}
  OBVIOUS
<1> QED
  BY <1>2, <1>3

\* The descriptors of a setting that the next one follows at once, after one
\* descriptor, or after two.
LEMMA BodyNone ==
    ASSUME NEW c, NEW i \in Nat, Len(c) \in Nat, c[i + 1].kind = "interface"
    PROVE  Body(c, i) = {}
<1> SUFFICES ASSUME NEW j \in Body(c, i) PROVE FALSE
  OBVIOUS
<1>1. j \in i + 1 .. Len(c) /\ \A p \in i + 1 .. j : c[p].kind # "interface"
  BY DEF Body
<1>2. i + 1 \in i + 1 .. j
  BY <1>1
<1> QED
  BY <1>1, <1>2

LEMMA BodyOne ==
    ASSUME NEW c, NEW i \in Nat, Len(c) \in Nat, i + 2 <= Len(c),
           c[i + 1].kind # "interface", c[i + 2].kind = "interface"
    PROVE  Body(c, i) = {i + 1}
<1>1. ASSUME NEW j \in Body(c, i) PROVE j = i + 1
  <2>1. j \in i + 1 .. Len(c) /\ \A p \in i + 1 .. j : c[p].kind # "interface"
    BY DEF Body
  <2>2. i + 2 \notin i + 1 .. j
    BY <2>1
  <2> QED
    BY <2>1, <2>2
<1>2. i + 1 \in Body(c, i)
  <2>1. i + 1 \in i + 1 .. Len(c) /\ \A p \in i + 1 .. i + 1 : p = i + 1
    OBVIOUS
  <2> QED
    BY <2>1 DEF Body
<1> QED
  BY <1>1, <1>2

LEMMA BodyTwo ==
    ASSUME NEW c, NEW i \in Nat, Len(c) \in Nat, i + 3 <= Len(c),
           c[i + 1].kind # "interface", c[i + 2].kind # "interface",
           c[i + 3].kind = "interface"
    PROVE  Body(c, i) = {i + 1, i + 2}
<1>1. ASSUME NEW j \in Body(c, i) PROVE j \in {i + 1, i + 2}
  <2>1. j \in i + 1 .. Len(c) /\ \A p \in i + 1 .. j : c[p].kind # "interface"
    BY DEF Body
  <2>2. i + 3 \notin i + 1 .. j
    BY <2>1
  <2> QED
    BY <2>1, <2>2
<1>2. ASSUME NEW j \in {i + 1, i + 2} PROVE j \in Body(c, i)
  <2>1. j \in i + 1 .. Len(c) /\ \A p \in i + 1 .. j : p = i + 1 \/ p = i + 2
    OBVIOUS
  <2> QED
    BY <2>1 DEF Body
<1> QED
  BY <1>1, <1>2

\* The one endpoint of the setting at i is at x: an interrupt towards the host.
OneAt(c, i, x) ==
    /\ Endpoints(c, i) = {x}
    /\ c[x].type = "interrupt" /\ c[x].address[2] = "in" /\ c[x].size \in 8 .. 1024

\* Such a setting notifies.
LEMMA OneNotifies ==
    ASSUME NEW c, NEW i, NEW x, OneAt(c, i, x)
    PROVE  Notifies(c, i)
<1>1. Cardinality(Endpoints(c, i)) = 1
  <2>1. Endpoints(c, i) = {x}
    BY DEF OneAt
  <2>2. Cardinality({x}) = 1
    BY NoneOne
  <2> QED
    BY <2>1, <2>2
<1>2. ASSUME NEW j \in Endpoints(c, i)
      PROVE  c[j].type = "interrupt" /\ c[j].address[2] = "in" /\ c[j].size \in 8 .. 1024
  <2>1. j = x
    BY DEF OneAt
  <2>2. c[x].type = "interrupt" /\ c[x].address[2] = "in" /\ c[x].size \in 8 .. 1024
    BY DEF OneAt
  <2> QED
    BY <2>1, <2>2
<1> QED
  BY <1>1, <1>2 DEF Notifies

\* What Layout::parse asks of a chain in which the notification endpoint is at
\* x and the bulk endpoints are at y and z.
LEMMA Accepts ==
    ASSUME NEW c, NEW i, NEW d, NEW x, NEW y, NEW z, NEW e \in Ends,
           ChainSound(c), i \in Settings(c), d \in Settings(c),
           \A p, q \in Settings(c) :
              p # q => <<c[p].number, c[p].alternate>> # <<c[q].number, c[q].alternate>>,
           \A p \in Settings(c) \ {i, d} : SettingSound(c, p),
           Endpoints(c, i) = {x}, Endpoints(c, d) = {y, z}, y # z,
           c[i].endpoints = 1, c[d].endpoints = 2,
           c[x] = Note(e), c[y] = In(e), c[z] = Out(e),
           Cardinality(Numbers(c)) = config.interfaces,
           Controls(c) = {i}, UnionSound(c, i), DataNumber(c, i) <= 255,
           InFunction(c, i), Candidates(c, i) = {d}
    PROVE  Accepted(c, i, d)
<1>1. Visible(c) = c
  BY DEF ChainSound, Visible
<1>2. /\ e.note \in 1 .. 15 /\ e.in \in 1 .. 15 /\ e.out \in 1 .. 15 /\ e.note # e.in
      /\ e.wake \in 8 .. 1024 /\ e.read \in PacketSizes /\ e.write \in PacketSizes
  BY DEF Ends
<1>3. /\ c[x].address = <<e.note, "in">> /\ c[x].type = "interrupt" /\ c[x].size = e.wake
      /\ c[y].address = <<e.in, "in">> /\ c[y].type = "bulk" /\ c[y].size = e.read
      /\ c[z].address = <<e.out, "out">> /\ c[z].type = "bulk" /\ c[z].size = e.write
  BY DEF Note, In, Out, Endpoint
<1>4. "in" # "out"
  OBVIOUS
<1>5. /\ Cardinality({x}) = 1 /\ Cardinality({y, z}) = 2
      /\ Cardinality({c[j].address : j \in {x}}) = 1
      /\ Cardinality({c[j].address : j \in {y, z}}) = 2
      /\ Cardinality({}) = 0
  <2>1. c[y].address # c[z].address
    BY <1>3, <1>4
  <2>2. {c[j].address : j \in {x}} = {c[x].address}
        /\ {c[j].address : j \in {y, z}} = {c[y].address, c[z].address}
    OBVIOUS
  <2>3. Cardinality({c[x].address}) = 1 /\ Cardinality({c[y].address, c[z].address}) = 2
    <3> DEFINE a == c[y].address
               b == c[z].address
    <3>1. a # b
      BY <2>1
    <3> HIDE DEF a, b
    <3>2. Cardinality({a, b}) = 2
      BY <3>1, Two
    <3> QED
      BY <3>2, NoneOne DEF a, b
  <2>4. Cardinality({x}) = 1 /\ Cardinality({}) = 0
    BY NoneOne, Zenon
  <2>5. Cardinality({y, z}) = 2
    BY Two
  <2> QED
    BY <2>2, <2>3, <2>4, <2>5
<1>6. /\ c[x].address[1] # 0 /\ c[x].address[2] = "in"
      /\ c[y].address[1] # 0 /\ c[y].address[2] = "in"
      /\ c[z].address[1] # 0 /\ c[z].address[2] = "out"
      /\ c[y].address # c[x].address /\ c[z].address # c[x].address
  BY <1>2, <1>3, <1>4
<1>7. SettingsSound(c)
  <2>1. ASSUME NEW p \in Settings(c) PROVE SettingSound(c, p)
    <3>1. CASE p = i
      BY <1>5, <1>6, <3>1 DEF SettingSound
    <3>2. CASE p = d
      BY <1>5, <1>6, <3>2 DEF SettingSound
    <3> QED
      BY <3>1, <3>2
  <2> QED
    BY <2>1, Zenon DEF SettingsSound, SettingSound
<1>8. Notifies(c, i)
  <2>1. c[x].type = "interrupt" /\ c[x].address[2] = "in" /\ c[x].size \in 8 .. 1024
    BY <1>2, <1>3, <1>6
  <2>2. OneAt(c, i, x)
    BY <2>1 DEF OneAt
  <2> QED
    BY <2>2, OneNotifies, Zenon
<1>9. Carries(c, d)
  <2>1. {c[j].address[2] : j \in {y, z}} = {"in", "out"}
    BY <1>6
  <2> QED
    BY <1>2, <1>3, <1>5, <2>1 DEF Carries
<1>10. \A j \in Endpoints(c, d) : c[j].address \notin {c[k].address : k \in Endpoints(c, i)}
  BY <1>6
<1> QED
  BY <1>1, <1>7, <1>8, <1>9, <1>10 DEF Accepted

\* A setting without endpoints that declares none.
LEMMA IdleSound ==
    ASSUME NEW c, NEW p, Endpoints(c, p) = {}, c[p].endpoints = 0
    PROVE  SettingSound(c, p)
<1>1. {c[j].address : j \in {}} = {}
  OBVIOUS
<1>2. Cardinality({}) = 0
  BY NoneOne
<1> QED
  BY <1>1, <1>2 DEF SettingSound

\* The function is the descriptors in F: its control interface i, its data
\* interface d, their endpoints x, y and z, no second association and at most
\* one more setting, an idle one of the data interface.
FunctionIn(c, F, m, s, own, e, i, d, x, y, z) ==
    /\ F \subseteq DOMAIN c /\ i \in F /\ d \in F
    /\ m \in own /\ s \in own /\ m # s /\ s <= 255
    /\ c[i].kind = "interface" /\ c[i].number = m /\ c[i].class = "rndis" /\ c[i].endpoints = 1
    /\ c[d].kind = "interface" /\ c[d].number = s /\ c[d].class = "data" /\ c[d].endpoints = 2
    /\ \A p \in F \ {i, d} : c[p].kind = "interface" =>
          /\ c[p].number = s /\ c[p].alternate # c[d].alternate
          /\ c[p].class = "data" /\ c[p].endpoints = 0 /\ Endpoints(c, p) = {}
    /\ \A p, q \in F \ {i, d} :
          c[p].kind = "interface" /\ c[q].kind = "interface" => p = q
    /\ \A p \in F : c[p].kind # "malformed"
    /\ \A p \in F : c[p].kind = "association" =>
          /\ c[p].first = m /\ Span(c[p]) = own
          /\ c[p].count > 0 /\ c[p].first + c[p].count <= 256
    /\ \A p, q \in F : c[p].kind = "association" /\ c[q].kind = "association" => p = q
    /\ Endpoints(c, i) = {x} /\ Endpoints(c, d) = {y, z} /\ y # z
    /\ c[x] = Note(e) /\ c[y] = In(e) /\ c[z] = Out(e)
    /\ UnionSound(c, i) /\ DataNumber(c, i) = s

\* The parser accepts it, and the others do not disturb it.
LEMMA FunctionAccepted ==
    ASSUME NEW c, NEW F, NEW m, NEW s, NEW own, NEW e \in Ends,
           NEW i, NEW d, NEW x, NEW y, NEW z,
           FunctionIn(c, F, m, s, own, e, i, d, x, y, z), Others(c, F, m, s, own),
           Cardinality(Numbers(c)) = config.interfaces
    PROVE  Accepted(c, i, d)
<1> USE DEF FunctionIn
<1>1. \A p \in Settings(c) :
         /\ p \in DOMAIN c /\ c[p].kind = "interface"
         /\ \/ p \in {i, d}
            \/ p \in F \ {i, d}
            \/ p \in DOMAIN c \ F
  BY DEF Settings, Of
<1>2. i \in Settings(c) /\ d \in Settings(c) /\ i # d
  BY DEF Settings, Of
<1>3. \A p \in DOMAIN c \ F :
         /\ c[p].kind # "malformed"
         /\ c[p].kind = "interface" =>
               c[p].class # "rndis" /\ c[p].number # m /\ c[p].number # s /\ SettingSound(c, p)
         /\ c[p].kind = "association" =>
               /\ c[p].count > 0 /\ c[p].first + c[p].count <= 256
               /\ m \notin Span(c[p]) /\ s \notin Span(c[p]) /\ Span(c[p]) \cap own = {}
  BY DEF Others
<1>4. ChainSound(c)
  <2>1. Of("malformed", c) = {}
    BY <1>3 DEF Of
  <2>2. ASSUME NEW p \in Of("association", c)
        PROVE  c[p].count > 0 /\ c[p].first + c[p].count <= 256
    BY <1>3 DEF Of
  <2>3. ASSUME NEW p \in Of("association", c), NEW q \in Of("association", c), p # q
        PROVE  Span(c[p]) \cap Span(c[q]) = {}
    <3>1. /\ p \in DOMAIN c /\ c[p].kind = "association"
          /\ q \in DOMAIN c /\ c[q].kind = "association"
      BY DEF Of
    <3>2. CASE p \in F /\ q \in F
      BY <2>3, <3>1, <3>2
    <3>3. CASE p \in F /\ q \notin F
      <4>1. Span(c[p]) = own /\ Span(c[q]) \cap own = {}
        BY <1>3, <3>1, <3>3
      <4> QED
        BY <4>1
    <3>4. CASE p \notin F /\ q \in F
      <4>1. Span(c[q]) = own /\ Span(c[p]) \cap own = {}
        BY <1>3, <3>1, <3>4
      <4> QED
        BY <4>1
    <3>5. CASE p \notin F /\ q \notin F
      BY <2>3, <3>1, <3>5 DEF Others
    <3> QED
      BY <3>2, <3>3, <3>4, <3>5
  <2> QED
    BY <2>1, <2>2, <2>3 DEF ChainSound
<1>5. ASSUME NEW p \in Settings(c), NEW q \in Settings(c), p # q
      PROVE  <<c[p].number, c[p].alternate>> # <<c[q].number, c[q].alternate>>
  <2>1. CASE p \in DOMAIN c \ F /\ q \in DOMAIN c \ F
    BY <1>1, <1>5, <2>1 DEF Others
  <2>2. CASE p \in F /\ q \in F
    <3>1. c[p].number # c[q].number \/ c[p].alternate # c[q].alternate
      BY <1>1, <1>5, <2>2
    <3> QED
      BY <3>1
  <2>3. CASE ~(p \in F <=> q \in F)
    <3>1. \A r \in Settings(c) \cap F : c[r].number \in {m, s}
      BY <1>1
    <3>2. \A r \in Settings(c) \ F : c[r].number \notin {m, s}
      BY <1>1, <1>3
    <3>3. c[p].number # c[q].number
      BY <2>3, <3>1, <3>2
    <3> QED
      BY <3>3
  <2> QED
    BY <1>1, <2>1, <2>2, <2>3
<1>6. ASSUME NEW p \in Settings(c) \ {i, d} PROVE SettingSound(c, p)
  <2>1. CASE p \in F \ {i, d}
    BY <1>1, <2>1, IdleSound
  <2>2. CASE p \in DOMAIN c \ F
    BY <1>1, <1>3, <2>2
  <2> QED
    BY <1>1, <2>1, <2>2
<1>7. Controls(c) = {i}
  <2>1. \A p \in Settings(c) \ {i} : c[p].class # "rndis"
    BY <1>1, <1>3
  <2> QED
    BY <1>2, <2>1 DEF Controls
<1>8. InFunction(c, i)
  <2>1. ASSUME NEW p \in Of("association", c)
        PROVE  \/ m \notin Span(c[p]) /\ s \notin Span(c[p])
               \/ c[p].first = m /\ m \in Span(c[p]) /\ s \in Span(c[p])
    <3>1. p \in DOMAIN c /\ c[p].kind = "association"
      BY DEF Of
    <3>2. CASE p \in F
      BY <3>1, <3>2
    <3>3. CASE p \notin F
      BY <1>3, <3>1, <3>3
    <3> QED
      BY <3>2, <3>3
  <2> QED
    BY <2>1 DEF InFunction
<1>9. Candidates(c, i) = {d}
  <2>1. \A p \in Settings(c) \ {d} : c[p].number # s \/ c[p].endpoints = 0
    BY <1>1, <1>3
  <2> QED
    BY <1>2, <2>1 DEF Candidates
<1> QED
  BY <1>2, <1>4, <1>5, <1>6, <1>7, <1>8, <1>9, Accepts

\* The setting at d is followed by two endpoints, and by no other before the
\* next setting.
LastPair(c, d) ==
    /\ d \in Nat /\ Len(c) \in Nat /\ d + 2 <= Len(c)
    /\ c[d + 1].kind = "endpoint" /\ c[d + 2].kind = "endpoint"
    /\ \A j \in d + 3 .. Len(c) :
          (\A p \in d + 3 .. j : c[p].kind # "interface") => c[j].kind # "endpoint"

\* They are its endpoints.
LEMMA LastTwo ==
    ASSUME NEW c, NEW d, LastPair(c, d)
    PROVE  Endpoints(c, d) = {d + 1, d + 2}
<1> USE DEF LastPair
<1>1. ASSUME NEW j \in Endpoints(c, d) PROVE j \in {d + 1, d + 2}
  <2>1. /\ j \in d + 1 .. Len(c) /\ c[j].kind = "endpoint"
        /\ \A p \in d + 1 .. j : c[p].kind # "interface"
    BY DEF Endpoints, Body
  <2>2. CASE j \in d + 3 .. Len(c)
    <3>1. \A p \in d + 3 .. j : p \in d + 1 .. j
      BY <2>2
    <3> QED
      BY <2>1, <2>2, <3>1
  <2> QED
    BY <2>1, <2>2
<1>2. d + 1 \in Endpoints(c, d)
  <2>1. d + 1 \in d + 1 .. Len(c) /\ \A p \in d + 1 .. d + 1 : p = d + 1
    OBVIOUS
  <2> QED
    BY <2>1 DEF Endpoints, Body
<1>3. d + 2 \in Endpoints(c, d)
  <2>1. d + 2 \in d + 1 .. Len(c) /\ \A p \in d + 1 .. d + 2 : p \in {d + 1, d + 2}
    OBVIOUS
  <2> QED
    BY <2>1 DEF Endpoints, Body
<1> QED
  BY <1>1, <1>2, <1>3

\* The union names the data interface, in the association that the control
\* interface opens.
LEMMA JoinedAccepted ==
    ASSUME NEW c \in Seq(AnyDescriptor), NEW k \in Nat, NEW m \in Bytes, NEW s \in Bytes,
           NEW n \in Nat, NEW e \in Ends, m < s, s < m + n, m + n <= 256,
           Amidst(c, k, Joined(m, n, s, e), m, s, m .. m + n - 1),
           Cardinality(Numbers(c)) = config.interfaces
    PROVE  Accepted(c, k + 2, k + 5)
<1> DEFINE f == Joined(m, n, s, e)
           own == m .. m + n - 1
           F == k + 1 .. k + 7
           a == k + 1
           i == k + 2
           u == k + 3
           x == k + 4
           d == k + 5
           y == k + 6
           z == k + 7
<1>0. Amidst(c, k, f, m, s, own) /\ Len(f) = 7
  BY DEF Joined
<1>1. /\ f[1] = Association(m, n) /\ f[2] = Unit(m, 0, "rndis", 1)
      /\ f[3] = Union(m, s) /\ f[4] = Note(e)
      /\ f[5] = Unit(s, 0, "data", 2) /\ f[6] = In(e)
      /\ f[7] = Out(e)
  BY DEF Joined
<1> HIDE DEF f
<1>2. Len(c) \in Nat /\ DOMAIN c = 1 .. Len(c) /\ k + 7 <= Len(c)
  BY <1>0 DEF Amidst
<1>3. Others(c, F, m, s, own)
  BY <1>0 DEF Amidst
<1>4. \A j \in d + 3 .. Len(c) :
         (\A p \in d + 3 .. j : c[p].kind # "interface") => c[j].kind # "endpoint"
  <2>1. k + 7 + 1 = d + 3
    OBVIOUS
  <2> QED
    BY <1>0, <2>1 DEF Amidst
<1>5. /\ c[a] = Association(m, n) /\ c[i] = Unit(m, 0, "rndis", 1)
      /\ c[u] = Union(m, s) /\ c[x] = Note(e)
      /\ c[d] = Unit(s, 0, "data", 2) /\ c[y] = In(e)
      /\ c[z] = Out(e)
  <2>1. \A j \in 1 .. 7 : c[k + j] = f[j]
    BY <1>0 DEF Amidst
  <2>2. /\ c[a] = f[1] /\ c[i] = f[2] /\ c[u] = f[3]
        /\ c[x] = f[4] /\ c[d] = f[5] /\ c[y] = f[6] /\ c[z] = f[7]
    BY <2>1
  <2> QED
    BY <1>1, <2>2
<1>6. /\ i \in Nat /\ d \in Nat /\ d + 2 <= Len(c) /\ d <= Len(c)
      /\ i + 1 = u /\ i + 2 = x /\ i + 3 = d /\ d + 1 = y /\ d + 2 = z
      /\ y # z
  BY <1>2
<1>7. /\ \A p \in F : p = a \/ p = i \/ p = u \/ p = x \/ p = d \/ p = y \/ p = z
      /\ F \subseteq DOMAIN c /\ i \in F /\ d \in F
  <2>1. \A p \in F : p = a \/ p = i \/ p = u \/ p = x \/ p = d \/ p = y \/ p = z
    OBVIOUS
  <2>2. F \subseteq DOMAIN c /\ i \in F /\ d \in F
    BY <1>2
  <2> QED
    BY <2>1, <2>2
<1>8. m \in own /\ s \in own /\ m # s /\ s <= 255 /\ n > 0
  BY DEF Bytes
<1> HIDE DEF F, a, i, u, x, d, y, z
<1>9. /\ c[a].kind = "association" /\ c[a].first = m /\ c[a].count = n
      /\ c[i].kind = "interface" /\ c[i].number = m
      /\ c[i].class = "rndis" /\ c[i].endpoints = 1
      /\ c[u].kind = "union" /\ c[u].master = m /\ c[u].slave = s
      /\ c[d].kind = "interface" /\ c[d].number = s
      /\ c[d].class = "data" /\ c[d].endpoints = 2
      /\ c[x].kind = "endpoint" /\ c[y].kind = "endpoint" /\ c[z].kind = "endpoint"
  BY <1>5 DEF Association, Unit, Union, Note, In, Out, Endpoint
<1>10. Body(c, i) = {u, x}
  BY <1>2, <1>6, <1>9, BodyTwo
<1>11. Endpoints(c, i) = {x} /\ Unions(c, i) = {u}
  BY <1>9, <1>10 DEF Endpoints, Unions
<1>12. Endpoints(c, d) = {y, z}
  <2>1. LastPair(c, d)
    BY <1>2, <1>4, <1>6, <1>9 DEF LastPair
  <2>2. Endpoints(c, d) = {d + 1, d + 2}
    BY <2>1, LastTwo
  <2> QED
    BY <1>6, <2>2
<1>13. DataNumber(c, i) = s /\ UnionSound(c, i)
  <2>1. (CHOOSE j \in Unions(c, i) : TRUE) = u /\ Unions(c, i) # {}
    BY <1>11
  <2>2. DataNumber(c, i) = s
    BY <1>9, <2>1 DEF DataNumber
  <2>3. Cardinality(Unions(c, i)) <= 1
    <3>1. Cardinality(Unions(c, i)) = 1
      BY <1>11, NoneOne
    <3> QED
      BY <3>1
  <2>4. UnionSound(c, i)
    BY <1>8, <1>9, <1>11, <2>3, Zenon DEF UnionSound
  <2> QED
    BY <2>2, <2>4
<1>14. Span(c[a]) = own
  BY <1>9, Zenon DEF Span
<1> HIDE DEF own
<1>15. ASSUME NEW p \in F
      PROVE  /\ c[p].kind # "malformed"
             /\ c[p].kind = "association" => p = a
             /\ c[p].kind = "interface" => p \in {i, d}
  <2>1. /\ c[a].kind = "association" /\ c[i].kind = "interface" /\ c[u].kind = "union"
        /\ c[x].kind = "endpoint" /\ c[d].kind = "interface"
        /\ c[y].kind = "endpoint" /\ c[z].kind = "endpoint"
    BY <1>9
  <2>2. p = a \/ p = i \/ p = u \/ p = x \/ p = d \/ p = y \/ p = z
    BY <1>7
  <2> QED
    BY <2>1, <2>2
<1>16. c[a].first = m /\ Span(c[a]) = own /\ c[a].count > 0
         /\ c[a].first + c[a].count <= 256
  BY <1>8, <1>9, <1>14
<1>17. FunctionIn(c, F, m, s, own, e, i, d, x, y, z)
  <2>1. F \subseteq DOMAIN c /\ i \in F /\ d \in F /\ y # z
    BY <1>6, <1>7
  <2>2. /\ \A p \in F \ {i, d} : c[p].kind = "interface" =>
              /\ c[p].number = s /\ c[p].alternate # c[d].alternate
              /\ c[p].class = "data" /\ c[p].endpoints = 0 /\ Endpoints(c, p) = {}
        /\ \A p, q \in F \ {i, d} :
              c[p].kind = "interface" /\ c[q].kind = "interface" => p = q
        /\ \A p \in F : c[p].kind # "malformed"
    BY <1>15, <1>16
  <2>3. /\ \A p \in F : c[p].kind = "association" =>
              /\ c[p].first = m /\ Span(c[p]) = own
              /\ c[p].count > 0 /\ c[p].first + c[p].count <= 256
        /\ \A p, q \in F : c[p].kind = "association" /\ c[q].kind = "association" => p = q
    BY <1>15, <1>16
  <2>4. /\ c[i].kind = "interface" /\ c[i].number = m /\ c[i].class = "rndis"
        /\ c[i].endpoints = 1
        /\ c[d].kind = "interface" /\ c[d].number = s /\ c[d].class = "data"
        /\ c[d].endpoints = 2
    BY <1>9
  <2>5. c[x] = Note(e) /\ c[y] = In(e) /\ c[z] = Out(e)
    BY <1>5
  <2> QED
    BY <1>8, <1>11, <1>12, <1>13, <2>1, <2>2, <2>3, <2>4, <2>5 DEF FunctionIn
<1>18. Accepted(c, i, d)
  BY <1>3, <1>17, FunctionAccepted
<1> QED
  BY <1>18 DEF i, d

\* Without a union the next number is the data interface's, and of its two
\* settings the one with endpoints is chosen.
LEMMA BareAccepted ==
    ASSUME NEW c \in Seq(AnyDescriptor), NEW k \in Nat, NEW m \in Bytes, NEW s \in Bytes,
           NEW e \in Ends, s = m + 1,
           Amidst(c, k, Bare(m, e), m, s, {m, s}),
           Cardinality(Numbers(c)) = config.interfaces
    PROVE  Accepted(c, k + 1, k + 4)
<1> DEFINE f == Bare(m, e)
           own == {m, s}
           F == k + 1 .. k + 6
           i == k + 1
           x == k + 2
           g == k + 3
           d == k + 4
           y == k + 5
           z == k + 6
<1>0. Amidst(c, k, f, m, s, own) /\ Len(f) = 6
  BY DEF Bare
<1>1. /\ f[1] = Unit(m, 0, "rndis", 1) /\ f[2] = Note(e)
      /\ f[3] = Unit(s, 0, "data", 0) /\ f[4] = Unit(s, 1, "data", 2)
      /\ f[5] = In(e) /\ f[6] = Out(e)
  BY DEF Bare
<1> HIDE DEF f
<1>2. Len(c) \in Nat /\ DOMAIN c = 1 .. Len(c) /\ k + 6 <= Len(c)
  BY <1>0 DEF Amidst
<1>3. Others(c, F, m, s, own)
  BY <1>0 DEF Amidst
<1>4. \A j \in d + 3 .. Len(c) :
         (\A p \in d + 3 .. j : c[p].kind # "interface") => c[j].kind # "endpoint"
  <2>1. k + 6 + 1 = d + 3
    OBVIOUS
  <2> QED
    BY <1>0, <2>1 DEF Amidst
<1>5. /\ c[i] = Unit(m, 0, "rndis", 1) /\ c[x] = Note(e)
      /\ c[g] = Unit(s, 0, "data", 0) /\ c[d] = Unit(s, 1, "data", 2)
      /\ c[y] = In(e) /\ c[z] = Out(e)
  <2>1. \A j \in 1 .. 6 : c[k + j] = f[j]
    BY <1>0 DEF Amidst
  <2>2. /\ c[i] = f[1] /\ c[x] = f[2] /\ c[g] = f[3]
        /\ c[d] = f[4] /\ c[y] = f[5] /\ c[z] = f[6]
    BY <2>1
  <2> QED
    BY <1>1, <2>2
<1>6. /\ i \in Nat /\ d \in Nat /\ d + 2 <= Len(c) /\ d <= Len(c)
      /\ i + 1 = x /\ i + 2 = g /\ i + 3 = d /\ d + 1 = y /\ d + 2 = z
      /\ g \in Nat /\ g + 1 = d /\ y # z
  BY <1>2
<1>7. /\ \A p \in F : p = i \/ p = x \/ p = g \/ p = d \/ p = y \/ p = z
      /\ F \subseteq DOMAIN c /\ i \in F /\ d \in F
  <2>1. \A p \in F : p = i \/ p = x \/ p = g \/ p = d \/ p = y \/ p = z
    OBVIOUS
  <2>2. F \subseteq DOMAIN c /\ i \in F /\ d \in F
    BY <1>2
  <2> QED
    BY <2>1, <2>2
<1>8. m \in own /\ s \in own /\ m # s /\ s <= 255
  BY DEF Bytes
<1> HIDE DEF F, i, x, g, d, y, z
<1>9. /\ c[i].kind = "interface" /\ c[i].number = m
      /\ c[i].class = "rndis" /\ c[i].endpoints = 1
      /\ c[g].kind = "interface" /\ c[g].number = s /\ c[g].alternate = 0
      /\ c[g].class = "data" /\ c[g].endpoints = 0
      /\ c[d].kind = "interface" /\ c[d].number = s /\ c[d].alternate = 1
      /\ c[d].class = "data" /\ c[d].endpoints = 2
      /\ c[x].kind = "endpoint" /\ c[y].kind = "endpoint" /\ c[z].kind = "endpoint"
  BY <1>5 DEF Unit, Note, In, Out, Endpoint
<1>10. Body(c, i) = {x} /\ Body(c, g) = {}
  <2>1. Body(c, i) = {x}
    <3>1. i + 2 <= Len(c) /\ c[x].kind # "interface"
      BY <1>2, <1>6, <1>9
    <3> QED
      BY <1>2, <1>6, <1>9, <3>1, BodyOne
  <2>2. Body(c, g) = {}
    <3>1. c[g + 1].kind = "interface"
      BY <1>6, <1>9
    <3> QED
      BY <1>2, <1>6, <3>1, BodyNone
  <2> QED
    BY <2>1, <2>2
<1>11. Endpoints(c, i) = {x} /\ Unions(c, i) = {} /\ Endpoints(c, g) = {}
  BY <1>9, <1>10 DEF Endpoints, Unions
<1>12. Endpoints(c, d) = {y, z}
  <2>1. LastPair(c, d)
    BY <1>2, <1>4, <1>6, <1>9 DEF LastPair
  <2>2. Endpoints(c, d) = {d + 1, d + 2}
    BY <2>1, LastTwo
  <2> QED
    BY <1>6, <2>2
<1>13. DataNumber(c, i) = s /\ UnionSound(c, i)
  <2>1. DataNumber(c, i) = s
    BY <1>9, <1>11 DEF DataNumber
  <2>2. Cardinality(Unions(c, i)) = 0
    BY <1>11, NoneOne
  <2>3. UnionSound(c, i)
    BY <1>11, <2>2 DEF UnionSound
  <2> QED
    BY <2>1, <2>3
<1> HIDE DEF own
<1>14. \A p \in F : /\ c[p].kind # "association" /\ c[p].kind # "malformed"
                    /\ c[p].kind = "interface" => p \in {i, g, d}
  BY <1>7, <1>9
<1>15. /\ c[g].number = s /\ c[g].alternate # c[d].alternate
       /\ c[g].class = "data" /\ c[g].endpoints = 0 /\ Endpoints(c, g) = {}
  BY <1>9, <1>11
<1>16. FunctionIn(c, F, m, s, own, e, i, d, x, y, z)
  <2>1. F \subseteq DOMAIN c /\ i \in F /\ d \in F /\ y # z
    BY <1>6, <1>7
  <2>2. /\ \A p \in F \ {i, d} : c[p].kind = "interface" =>
              /\ c[p].number = s /\ c[p].alternate # c[d].alternate
              /\ c[p].class = "data" /\ c[p].endpoints = 0 /\ Endpoints(c, p) = {}
        /\ \A p, q \in F \ {i, d} :
              c[p].kind = "interface" /\ c[q].kind = "interface" => p = q
        /\ \A p \in F : c[p].kind # "malformed"
    BY <1>14, <1>15
  <2>3. /\ \A p \in F : c[p].kind = "association" =>
              /\ c[p].first = m /\ Span(c[p]) = own
              /\ c[p].count > 0 /\ c[p].first + c[p].count <= 256
        /\ \A p, q \in F : c[p].kind = "association" /\ c[q].kind = "association" => p = q
    BY <1>14, <1>15
  <2>4. /\ c[i].kind = "interface" /\ c[i].number = m /\ c[i].class = "rndis"
        /\ c[i].endpoints = 1
        /\ c[d].kind = "interface" /\ c[d].number = s /\ c[d].class = "data"
        /\ c[d].endpoints = 2
    BY <1>9
  <2>5. c[x] = Note(e) /\ c[y] = In(e) /\ c[z] = Out(e)
    BY <1>5
  <2> QED
    BY <1>8, <1>11, <1>12, <1>13, <2>1, <2>2, <2>3, <2>4, <2>5 DEF FunctionIn
<1>17. Accepted(c, i, d)
  BY <1>3, <1>16, FunctionAccepted
<1> QED
  BY <1>17 DEF i, d

\* Without a union the next number is the data interface's, in the association
\* that the control interface opens.
LEMMA BoundAccepted ==
    ASSUME NEW c \in Seq(AnyDescriptor), NEW k \in Nat, NEW m \in Bytes, NEW s \in Bytes,
           NEW n \in Nat, NEW e \in Ends, s = m + 1, s < m + n, m + n <= 256,
           Amidst(c, k, Bound(m, n, e), m, s, m .. m + n - 1),
           Cardinality(Numbers(c)) = config.interfaces
    PROVE  Accepted(c, k + 2, k + 4)
<1> DEFINE f == Bound(m, n, e)
           own == m .. m + n - 1
           F == k + 1 .. k + 6
           a == k + 1
           i == k + 2
           x == k + 3
           d == k + 4
           y == k + 5
           z == k + 6
<1>0. Amidst(c, k, f, m, s, own) /\ Len(f) = 6
  BY DEF Bound
<1>1. /\ f[1] = Association(m, n) /\ f[2] = Unit(m, 0, "rndis", 1)
      /\ f[3] = Note(e) /\ f[4] = Unit(s, 0, "data", 2)
      /\ f[5] = In(e) /\ f[6] = Out(e)
  BY DEF Bound
<1> HIDE DEF f
<1>2. Len(c) \in Nat /\ DOMAIN c = 1 .. Len(c) /\ k + 6 <= Len(c)
  BY <1>0 DEF Amidst
<1>3. Others(c, F, m, s, own)
  BY <1>0 DEF Amidst
<1>4. \A j \in d + 3 .. Len(c) :
         (\A p \in d + 3 .. j : c[p].kind # "interface") => c[j].kind # "endpoint"
  <2>1. k + 6 + 1 = d + 3
    OBVIOUS
  <2> QED
    BY <1>0, <2>1 DEF Amidst
<1>5. /\ c[a] = Association(m, n) /\ c[i] = Unit(m, 0, "rndis", 1)
      /\ c[x] = Note(e) /\ c[d] = Unit(s, 0, "data", 2)
      /\ c[y] = In(e) /\ c[z] = Out(e)
  <2>1. \A j \in 1 .. 6 : c[k + j] = f[j]
    BY <1>0 DEF Amidst
  <2>2. /\ c[a] = f[1] /\ c[i] = f[2] /\ c[x] = f[3]
        /\ c[d] = f[4] /\ c[y] = f[5] /\ c[z] = f[6]
    BY <2>1
  <2> QED
    BY <1>1, <2>2
<1>6. /\ i \in Nat /\ d \in Nat /\ d + 2 <= Len(c) /\ d <= Len(c)
      /\ i + 1 = x /\ i + 2 = d /\ d + 1 = y /\ d + 2 = z
      /\ y # z
  BY <1>2
<1>7. /\ \A p \in F : p = a \/ p = i \/ p = x \/ p = d \/ p = y \/ p = z
      /\ F \subseteq DOMAIN c /\ i \in F /\ d \in F
  <2>1. \A p \in F : p = a \/ p = i \/ p = x \/ p = d \/ p = y \/ p = z
    OBVIOUS
  <2>2. F \subseteq DOMAIN c /\ i \in F /\ d \in F
    BY <1>2
  <2> QED
    BY <2>1, <2>2
<1>8. m \in own /\ s \in own /\ m # s /\ s <= 255 /\ n > 0
  BY DEF Bytes
<1> HIDE DEF F, a, i, x, d, y, z
<1>9. /\ c[a].kind = "association" /\ c[a].first = m /\ c[a].count = n
      /\ c[i].kind = "interface" /\ c[i].number = m
      /\ c[i].class = "rndis" /\ c[i].endpoints = 1
      /\ c[d].kind = "interface" /\ c[d].number = s
      /\ c[d].class = "data" /\ c[d].endpoints = 2
      /\ c[x].kind = "endpoint" /\ c[y].kind = "endpoint" /\ c[z].kind = "endpoint"
  BY <1>5 DEF Association, Unit, Note, In, Out, Endpoint
<1>10. Body(c, i) = {x}
  BY <1>2, <1>6, <1>9, BodyOne
<1>11. Endpoints(c, i) = {x} /\ Unions(c, i) = {}
  BY <1>9, <1>10 DEF Endpoints, Unions
<1>12. Endpoints(c, d) = {y, z}
  <2>1. LastPair(c, d)
    BY <1>2, <1>4, <1>6, <1>9 DEF LastPair
  <2>2. Endpoints(c, d) = {d + 1, d + 2}
    BY <2>1, LastTwo
  <2> QED
    BY <1>6, <2>2
<1>13. DataNumber(c, i) = s /\ UnionSound(c, i)
  <2>1. DataNumber(c, i) = s
    BY <1>9, <1>11 DEF DataNumber
  <2>2. Cardinality(Unions(c, i)) = 0
    BY <1>11, NoneOne
  <2>3. UnionSound(c, i)
    BY <1>11, <2>2 DEF UnionSound
  <2> QED
    BY <2>1, <2>3
<1>14. Span(c[a]) = own
  BY <1>9, Zenon DEF Span
<1> HIDE DEF own
<1>15. ASSUME NEW p \in F
      PROVE  /\ c[p].kind # "malformed"
             /\ c[p].kind = "association" => p = a
             /\ c[p].kind = "interface" => p \in {i, d}
  <2>1. /\ c[a].kind = "association" /\ c[i].kind = "interface" /\ c[x].kind = "endpoint"
        /\ c[d].kind = "interface" /\ c[y].kind = "endpoint"
        /\ c[z].kind = "endpoint"
    BY <1>9
  <2>2. p = a \/ p = i \/ p = x \/ p = d \/ p = y \/ p = z
    BY <1>7
  <2> QED
    BY <2>1, <2>2
<1>16. c[a].first = m /\ Span(c[a]) = own /\ c[a].count > 0
         /\ c[a].first + c[a].count <= 256
  BY <1>8, <1>9, <1>14
<1>17. FunctionIn(c, F, m, s, own, e, i, d, x, y, z)
  <2>1. F \subseteq DOMAIN c /\ i \in F /\ d \in F /\ y # z
    BY <1>6, <1>7
  <2>2. /\ \A p \in F \ {i, d} : c[p].kind = "interface" =>
              /\ c[p].number = s /\ c[p].alternate # c[d].alternate
              /\ c[p].class = "data" /\ c[p].endpoints = 0 /\ Endpoints(c, p) = {}
        /\ \A p, q \in F \ {i, d} :
              c[p].kind = "interface" /\ c[q].kind = "interface" => p = q
        /\ \A p \in F : c[p].kind # "malformed"
    BY <1>15, <1>16
  <2>3. /\ \A p \in F : c[p].kind = "association" =>
              /\ c[p].first = m /\ Span(c[p]) = own
              /\ c[p].count > 0 /\ c[p].first + c[p].count <= 256
        /\ \A p, q \in F : c[p].kind = "association" /\ c[q].kind = "association" => p = q
    BY <1>15, <1>16
  <2>4. /\ c[i].kind = "interface" /\ c[i].number = m /\ c[i].class = "rndis"
        /\ c[i].endpoints = 1
        /\ c[d].kind = "interface" /\ c[d].number = s /\ c[d].class = "data"
        /\ c[d].endpoints = 2
    BY <1>9
  <2>5. c[x] = Note(e) /\ c[y] = In(e) /\ c[z] = Out(e)
    BY <1>5
  <2> QED
    BY <1>8, <1>11, <1>12, <1>13, <2>1, <2>2, <2>3, <2>4, <2>5 DEF FunctionIn
<1>18. Accepted(c, i, d)
  BY <1>3, <1>17, FunctionAccepted
<1> QED
  BY <1>18 DEF i, d

\* A device that nothing was changed in is a template.
Unchanged ==
    /\ edits \in Nat
    /\ edits = 0 /\ verdict = "unread" =>
          \E t \in Templates : config = t.config /\ chain = t.chain

\* A sound device's configuration holds a function that is accepted.
LEMMA SoundAccepted ==
    ASSUME \A t \in Templates : SoundDevice(t), Unchanged, edits = 0, verdict = "unread"
    PROVE  config.exact /\ \E i, d : Accepted(chain, i, d)
<1>1. PICK t \in Templates : config = t.config /\ chain = t.chain
  BY DEF Unchanged
<1>2. chain \in Seq(AnyDescriptor)
  BY <1>1, DescriptorAssumption
<1>3. config.exact /\ Cardinality(Numbers(chain)) = config.interfaces /\ SoundChain(chain)
  BY <1>1 DEF SoundDevice
<1>4. PICK k \in Nat, m \in Bytes, s \in Bytes, n \in Nat, e \in Ends :
         \/ /\ m < s /\ s < m + n /\ m + n <= 256
            /\ Amidst(chain, k, Joined(m, n, s, e), m, s, m .. m + n - 1)
         \/ /\ s = m + 1
            /\ Amidst(chain, k, Bare(m, e), m, s, {m, s})
         \/ /\ s = m + 1 /\ s < m + n /\ m + n <= 256
            /\ Amidst(chain, k, Bound(m, n, e), m, s, m .. m + n - 1)
  BY <1>3 DEF SoundChain
<1>5. \/ Accepted(chain, k + 2, k + 5)
      \/ Accepted(chain, k + 1, k + 4)
      \/ Accepted(chain, k + 2, k + 4)
  BY <1>2, <1>3, <1>4, JoinedAccepted, BareAccepted, BoundAccepted
<1> QED
  BY <1>3, <1>5, Zenon

\* The one control interface and the one candidate are settings of the chain.
LEMMA AcceptedSettings ==
    ASSUME NEW i, NEW d, Accepted(chain, i, d)
    PROVE  i \in Controls(chain) /\ d \in Settings(chain)
<1>1. Visible(chain) = chain
  BY DEF Accepted, ChainSound, Visible
<1>2. Controls(chain) = {i} /\ Candidates(chain, i) = {d}
  BY <1>1 DEF Accepted
<1> QED
  BY <1>2 DEF Candidates

\* It stays what it is, or is changed, until it is chosen.
LEMMA ChosenKept ==
    ASSUME \A t \in Templates : SoundDevice(t), Unchanged, SoundChosen, [Next]_vars
    PROVE  Unchanged' /\ SoundChosen'
<1>1. CASE Differ
  <2>1. edits \in Nat /\ edits' = edits + 1 /\ verdict' = "unread"
    BY <1>1 DEF Differ, Unchanged
  <2> QED
    BY <2>1 DEF Unchanged, SoundChosen
<1>2. CASE Parse
  <2>1. verdict' \in {"refused", "chosen"} /\ edits' = edits
    BY <1>2 DEF Parse
  <2>2. ASSUME edits = 0 PROVE verdict' = "chosen"
    <3>1. config.exact /\ \E i, d : Accepted(chain, i, d)
      BY <1>2, <2>2, SoundAccepted DEF Parse
    <3>2. PICK i, d : Accepted(chain, i, d)
      BY <3>1
    <3>3. i \in Controls(chain) /\ d \in Settings(chain)
      BY <3>2, AcceptedSettings
    <3> DEFINE q == <<i, d>>
    <3>4. q \in {p \in Controls(chain) \X Settings(chain) :
                    config.exact /\ Accepted(chain, p[1], p[2])}
      BY <3>1, <3>2, <3>3
    <3>5. layout' # {}
      BY <1>2, <3>4 DEF Parse
    <3> QED
      BY <1>2, <3>5 DEF Parse
  <2> QED
    BY <2>1, <2>2 DEF Unchanged, SoundChosen
<1>3. CASE Open
  BY <1>3 DEF Open, Unchanged, SoundChosen
<1>4. CASE UNCHANGED layoutVars
  BY <1>4 DEF layoutVars, Unchanged, SoundChosen
<1> QED
  BY <1>1, <1>2, <1>3, <1>4 DEF Next, LayoutNext, vars

\* Every sound device of these shapes is served, whatever its numbers, its
\* endpoint addresses, its packet sizes, and the functions it has besides.
THEOREM SoundChosenHolds ==
    ASSUME \A t \in Templates : SoundDevice(t)
    PROVE  Spec => []SoundChosen
<1>1. Init => Unchanged /\ SoundChosen
  BY DEF Init, LayoutInit, Unchanged, SoundChosen
<1>2. (Unchanged /\ SoundChosen) /\ [Next]_vars => (Unchanged /\ SoundChosen)'
  BY ChosenKept
<1> QED
  BY <1>1, <1>2, PTL DEF Spec
=============================================================================
