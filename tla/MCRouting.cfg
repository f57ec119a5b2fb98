SPECIFICATION MCSpec
CONSTANTS
    en0 = en0  en1 = en1  g1 = g1  g2 = g2
    Physical <- MCPhysical
    Owned = feth0
    Stale = feth9
    Vpn = utun0
    Gateways <- MCGateways
    NoGateway = link
    NoRoute = none
INVARIANTS QuietRecovery
PROPERTIES HonestWrites RecoveryEnds
