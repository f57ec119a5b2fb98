----------------------------- MODULE MCUsbPath ------------------------------
(* Three sound devices and all that differ from one in two descriptors;     *)
(* inputs of up to three frames at the lengths where a boundary lies, and  *)
(* unsound ones whose headers hold the values next to those boundaries.    *)
EXTENDS UsbPath

Control == Unit(0, 0, "rndis", 1)
Data(n) == Unit(n, 0, "data", 2)
Idle(n) == Unit(n, 0, "data", 0)
Note    == Endpoint(1, "in", "interrupt", 8)
In(size)  == Endpoint(2, "in", "bulk", size)
Out(size) == Endpoint(2, "out", "bulk", size)

Device(interfaces, chain_) ==
    [config |-> [interfaces |-> interfaces, exact |-> TRUE], chain |-> chain_]

MCTemplates == {
    Device(2, <<Association(0, 2), Control, Union(0, 1), Note, Data(1), In(512), Out(512)>>),
    Device(2, <<Control, Note, Idle(1), Unit(1, 1, "data", 2), In(8), Out(8)>>),
    Device(3, <<Association(0, 2), Control, Note, Data(1), In(64), Out(64), Idle(2)>>)}

MCDescriptors ==
    {Malformed, Control, Data(1), Data(2), Note, In(512), Out(16), Out(1024), Out(0),
     Endpoint(1, "in", "bulk", 512), Union(0, 1), Union(0, 2), Union(1, 0),
     Association(0, 1), Association(1, 2), Association(0, 0), Unit(3, 0, "rndis", 1)}

\* Where the items of lengths l begin, when each begins on a multiple of unit.
Starts(l, unit) ==
    LET start[i \in 1 .. Len(l)] ==
            IF i = 1 THEN 0 ELSE ((start[i - 1] + l[i - 1] + unit - 1) \div unit) * unit
    IN  start

Input(from, end, padding, starts, heads) ==
    [from |-> from, total |-> end + padding, end |-> end, sound |-> TRUE,
     heads |-> [o \in {starts[i] : i \in DOMAIN starts} |->
                   heads[CHOOSE i \in DOMAIN starts : starts[i] = o]]]

\* Messages with frames of these sizes, gap bytes before each and after it.
Transfer(sizes, gap, padding) ==
    LET lens   == [i \in DOMAIN sizes |-> HEADER + 2 * gap + sizes[i]]
        starts == Starts(lens, 1)
    IN  Input("device", IF sizes = <<>> THEN 0 ELSE starts[Len(sizes)] + lens[Len(sizes)],
              padding, starts, [i \in DOMAIN sizes |-> Packet(lens[i], HEADER + gap, sizes[i])])

Batch(sizes) ==
    LET lens   == [i \in DOMAIN sizes |-> BPF_HEADER + sizes[i]]
        starts == Starts(lens, 4)
    IN  Input("kernel", starts[Len(sizes)] + lens[Len(sizes)], 0, starts,
              [i \in DOMAIN sizes |-> Record(sizes[i])])

Sizes == {14, 15, 16, 17, 20, 36, 468, 1513, 1514}

Unsound(from, total) ==
    [from |-> from, total |-> total, end |-> total, heads |-> <<>>, sound |-> FALSE]

MCInputs ==
    {Transfer(s, g, p) : s \in {<<>>} \cup {<<a>> : a \in Sizes} \cup (Sizes \X {14, 17}),
                         g \in {0, 4}, p \in {0, 1, 44}}
      \cup {Batch(s) : s \in {<<a>> : a \in Sizes} \cup (Sizes \X {14, 17}) \cup (Sizes \X {14, 17} \X {15})}
      \cup {Unsound("device", n) : n \in {1, 43, 58, 120, TRANSFER_LIMIT + 1}}
      \cup {Unsound("kernel", n) : n \in {17, 32, 33, 70, 110}}

\* Past every bound, as the largest word is.
Huge == 1000000000

MCPacketHeads ==
    [type : {1, 2}, len : {0, 43, 44, 58, 60, Huge}, start : {40, 44, 46, 48, Huge + 8},
     size : {13, 14, 60, 1515, Huge}, other : {0, 1}]

MCRecordHeads ==
    [captured : {13, 14, 15, Huge}, size : {13, 14, 15, 16, Huge},
     header : {17, 18, 20, 65535}]

MCMaxTransfers == {1557, 1558, 2048, 16384, Huge}
=============================================================================
