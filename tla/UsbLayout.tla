----------------------------- MODULE UsbLayout ------------------------------
(***************************************************************************)
(* The selection of one RNDIS function in a USB configuration              *)
(* (src/usb/layout.rs).  A configuration is a chain of descriptors.  The   *)
(* library's iterators stop at the first malformed one, whatever follows   *)
(* it; the parser walks the whole chain before it trusts them.             *)
(***************************************************************************)
EXTENDS Integers, Sequences, FiniteSets, SequencesExt

CONSTANTS
    Templates,    \* configurations of sound devices
    Descriptors,  \* what a descriptor of another device may be
    Edits         \* bound: how far a device may be from a template

VARIABLES
    config,   \* [interfaces : declared number, exact : nothing follows it]
    chain,    \* its descriptors
    edits,    \* how many differ from a template
    verdict,  \* "unread", "refused" or "chosen"
    layout    \* the Layout that parse returned, once it has

layoutVars == <<config, chain, edits, verdict, layout>>

Unit(number, alternate, class, endpoints) ==
    [kind |-> "interface", number |-> number, alternate |-> alternate,
     class |-> class, endpoints |-> endpoints]

\* An endpoint: its number (4 bits), direction, transfer type and packet size;
\* a size outside the sets below also stands for reserved bits and a missing
\* interval.
Endpoint(number, way, type, size) ==
    [kind |-> "endpoint", address |-> <<number, way>>, type |-> type, size |-> size]

Union(master, slave) == [kind |-> "union", master |-> master, slave |-> slave]
Association(first, count) == [kind |-> "association", first |-> first, count |-> count]

\* Shorter than its type allows, longer than what is left, or a second
\* configuration.
Malformed == [kind |-> "malformed"]

PacketSizes == {8, 16, 32, 64, 512, 1024}

\* What the fields of a descriptor can hold.
Bytes == 0 .. 255

AnyDescriptor ==
    [kind : {"interface"}, number : Bytes, alternate : Bytes, class : STRING, endpoints : Bytes]
      \cup [kind : {"endpoint"}, address : (0 .. 15) \X {"in", "out"}, type : STRING, size : Nat]
      \cup [kind : {"union"}, master : Bytes, slave : Bytes]
      \cup [kind : {"association"}, first : Bytes, count : Bytes]
      \cup {Malformed}

ASSUME DescriptorAssumption ==
    /\ Descriptors \subseteq AnyDescriptor
    /\ \A t \in Templates : t.chain \in Seq(AnyDescriptor)

-----------------------------------------------------------------------------
(* The chain.                                                               *)

Of(kind, c) == {i \in DOMAIN c : c[i].kind = kind}

Span(a) == a.first .. a.first + a.count - 1

\* Mutant: the iterators are trusted with the chain.
ChainSoundUnread(c) == TRUE

\* The walk over the complete chain.
ChainSound(c) ==
    /\ Of("malformed", c) = {}
    /\ \A i \in Of("association", c) :
          /\ c[i].count > 0 /\ c[i].first + c[i].count <= 256
          /\ \A j \in Of("association", c) \ {i} : Span(c[i]) \cap Span(c[j]) = {}

\* What the iterators show.
Visible(c) ==
    LET bad == Of("malformed", c)
    IN  IF bad = {} THEN c ELSE SubSeq(c, 1, (CHOOSE i \in bad : \A j \in bad : i <= j) - 1)

\* The descriptors of the interface setting at i.
Body(c, i) == {j \in i + 1 .. Len(c) : \A k \in i + 1 .. j : c[k].kind # "interface"}

Endpoints(c, i) == {j \in Body(c, i) : c[j].kind = "endpoint"}

Settings(c) == Of("interface", c)

\* Every setting once, every endpoint of one once, as many as declared.
SettingsSound(c) ==
    /\ \A i, j \in Settings(c) :
          i # j => <<c[i].number, c[i].alternate>> # <<c[j].number, c[j].alternate>>
    /\ \A i \in Settings(c) :
          /\ \A j \in Endpoints(c, i) : c[j].address[1] # 0
          /\ Cardinality({c[j].address : j \in Endpoints(c, i)}) = Cardinality(Endpoints(c, i))
          /\ Cardinality(Endpoints(c, i)) = c[i].endpoints

Numbers(c) == {c[i].number : i \in Settings(c)}

-----------------------------------------------------------------------------
(* The function.                                                            *)

Controls(c) == {i \in Settings(c) : c[i].class = "rndis"}

Unions(c, i) == {j \in Body(c, i) : c[j].kind = "union"}

UnionSound(c, i) ==
    /\ Cardinality(Unions(c, i)) <= 1
    /\ \A j \in Unions(c, i) : c[j].master = c[i].number /\ c[j].slave # c[i].number

\* Mutant: a device without a union is refused.
DataNumberUnion(c, i) ==
    IF Unions(c, i) = {} THEN 256 ELSE c[CHOOSE j \in Unions(c, i) : TRUE].slave

\* The union's interface or, without one, the next.
DataNumber(c, i) ==
    IF Unions(c, i) = {} THEN c[i].number + 1
    ELSE c[CHOOSE j \in Unions(c, i) : TRUE].slave

\* Control and data lie in one association, which the control interface
\* opens, or in none.
InFunction(c, i) ==
    LET data == DataNumber(c, i)
        over == {j \in Of("association", c) : c[i].number \in Span(c[j])}
    IN  IF over = {}
        THEN \A j \in Of("association", c) : data \notin Span(c[j])
        ELSE \A j \in over : c[j].first = c[i].number /\ data \in Span(c[j])

Candidates(c, i) ==
    {j \in Settings(c) : /\ c[j].number = DataNumber(c, i)
                         /\ c[j].class = "data" /\ c[j].endpoints # 0}

Notifies(c, i) ==
    /\ Cardinality(Endpoints(c, i)) = 1
    /\ \A j \in Endpoints(c, i) :
          c[j].type = "interrupt" /\ c[j].address[2] = "in" /\ c[j].size \in 8 .. 1024

Carries(c, i) ==
    /\ Cardinality(Endpoints(c, i)) = 2
    /\ \A j \in Endpoints(c, i) : c[j].type = "bulk" /\ c[j].size \in PacketSizes
    /\ {c[j].address[2] : j \in Endpoints(c, i)} = {"in", "out"}

\* Layout::parse.
Accepted(c, control, data) ==
    /\ ChainSound(c)
    /\ SettingsSound(Visible(c)) /\ Cardinality(Numbers(Visible(c))) = config.interfaces
    /\ Controls(Visible(c)) = {control} /\ UnionSound(Visible(c), control)
    /\ DataNumber(Visible(c), control) <= 255 /\ InFunction(Visible(c), control)
    /\ Candidates(Visible(c), control) = {data}
    /\ Notifies(Visible(c), control) /\ Carries(Visible(c), data)
    /\ \A j \in Endpoints(Visible(c), data) :
          c[j].address \notin {c[k].address : k \in Endpoints(Visible(c), control)}

OutSize(c, data) ==
    LET out == CHOOSE j \in Endpoints(c, data) : c[j].address[2] = "out" IN c[out].size

Parse ==
    /\ verdict = "unread"
    /\ layout' = {[control |-> p[1], data |-> p[2], size |-> OutSize(chain, p[2])] :
                     p \in {q \in Controls(chain) \X Settings(chain) :
                              config.exact /\ Accepted(chain, q[1], q[2])}}
    /\ verdict' = IF layout' = {} THEN "refused" ELSE "chosen"
    /\ UNCHANGED <<config, chain, edits>>

-----------------------------------------------------------------------------
(* The device.                                                              *)

LayoutInit ==
    /\ \E t \in Templates : config = t.config /\ chain = t.chain
    /\ edits = 0 /\ verdict = "unread" /\ layout = {}

\* A device differs from a sound one in a descriptor, or in what it declares.
Differ ==
    /\ verdict = "unread" /\ edits < Edits /\ edits' = edits + 1
    /\ \/ /\ \E d \in Descriptors, i \in 1 .. Len(chain) + 1 : chain' = InsertAt(chain, i, d)
          /\ UNCHANGED config
       \/ /\ \E d \in Descriptors, i \in DOMAIN chain : chain' = [chain EXCEPT ![i] = d]
          /\ UNCHANGED config
       \/ \E i \in DOMAIN chain : chain' = RemoveAt(chain, i) /\ UNCHANGED config
       \/ /\ config' \in {[config EXCEPT !.exact = FALSE],
                          [config EXCEPT !.interfaces = @ + 1]}
          /\ UNCHANGED chain
    /\ UNCHANGED <<verdict, layout>>

LayoutNext == Differ \/ Parse

-----------------------------------------------------------------------------
(* Properties.                                                              *)

\* Layout::parse returns one function, and a whole one: no descriptor of the
\* device, shown by the iterators or not, is another RNDIS control interface;
\* an association that holds one of the two interfaces holds both; and the
\* three endpoints differ.
WholeFunction ==
    \A l \in layout :
        /\ Controls(chain) = {l.control}
        /\ chain[l.control].number # chain[l.data].number
        /\ \A j \in Of("association", chain) :
              chain[l.control].number \in Span(chain[j])
                  <=> chain[l.data].number \in Span(chain[j])
        /\ Cardinality({chain[j].address :
              j \in Endpoints(chain, l.control) \cup Endpoints(chain, l.data)}) = 3

\* A sound device, with an association and a union or without them, is served.
SoundChosen == edits = 0 => verdict # "refused"
=============================================================================
