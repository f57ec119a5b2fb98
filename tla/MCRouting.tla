----------------------------- MODULE MCRouting ------------------------------
(* Routing with Wi-Fi and Ethernet, and routers that can change.            *)
EXTENDS Routing, TLC

CONSTANTS en0, en1, g1, g2

MCPhysical == {en0, en1}
MCGateways == {g1, g2}

\* Nothing tells one of them from another; for safety only.
MCSymmetry == Permutations(MCPhysical) \cup Permutations(MCGateways)

\* One network comes and goes, the other stays as it is: always selectable, and
\* with a router which may be that of the first.
MCSpec ==
    /\ Init /\ en1 \in active \cap addressed /\ router[en1] = g1
    /\ [][Next /\ en1 \in active' \cap addressed' /\ router'[en1] = g1]_vars
    /\ WF_vars(Supervisor) /\ WF_vars(Expire)
=============================================================================
