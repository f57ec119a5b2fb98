------------------------------ MODULE UsbPath -------------------------------
(***************************************************************************)
(* What a device may be, and what passes through it: a layout is chosen    *)
(* (UsbLayout), its endpoints are opened, and frames travel in transfers   *)
(* that its packet size and the negotiated limit bound (FramePath).        *)
(***************************************************************************)
EXTENDS UsbLayout, FramePath

vars == <<layoutVars, pathVars>>

Init == LayoutInit /\ PathInit

\* Session::open keeps the endpoints and drops the descriptors.
Open ==
    /\ verdict = "chosen" /\ verdict' = "opened"
    /\ \E l \in layout, declared \in MaxTransfers : Connect(l.size, declared)
    /\ chain' = <<>> /\ layout' = {} /\ edits' = 0 /\ UNCHANGED config

Next ==
    \/ LayoutNext /\ UNCHANGED pathVars
    \/ Open
    \/ PathNext /\ UNCHANGED layoutVars

Spec == Init /\ [][Next]_vars
=============================================================================
