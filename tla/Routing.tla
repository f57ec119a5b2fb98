------------------------------- MODULE Routing ------------------------------
(***************************************************************************)
(* The default route (src/macos/route.rs and its use in src/service.rs),   *)
(* one route(8), netstat(1) or ipconfig(8) command at a time: the network  *)
(* check of a session, which prefers the phone, and the recovery of the    *)
(* fallback route after the session.  Between any two commands macOS, a    *)
(* VPN client, the physical networks and the phone change what the next    *)
(* command sees, and any command can fail.                                 *)
(***************************************************************************)
EXTENDS Naturals

CONSTANTS
    Physical,    \* Wi-Fi and Ethernet interfaces
    Owned,       \* the system interface of the session's pair
    Stale,       \* a feth interface a killed supervisor left behind
    Vpn,         \* a utun interface
    Gateways,    \* routers' addresses
    NoGateway,   \* a default without an IPv4 gateway (link#N)
    NoRoute      \* no default in the table

ASSUME RoutingAssumption ==
    /\ Owned \notin Physical /\ Stale \notin Physical /\ Vpn \notin Physical
    /\ Owned # Stale /\ Owned # Vpn /\ Stale # Vpn
    /\ NoGateway \notin Gateways

Interfaces == Physical \cup {Owned, Stale, Vpn}

Route(i, g) == [interface |-> i, gateway |-> g]

Routes == [interface : Interfaces, gateway : Gateways \cup {NoGateway}]

ASSUME NoRouteAssumption == NoRoute \notin Routes

VARIABLES
    \* the host
    def,            \* the default route
    vpn,            \* some route of the table uses a utun interface
    active,         \* physical interfaces with a link
    addressed,      \* physical interfaces with an address
    router,         \* the router DHCP or the scoped default names, per interface
    lease,          \* the phone gave the system interface an address and router
    \* the supervisor
    pc,
    previous,       \* Connection.previous
    current,        \* the last Snapshot::read
    target,         \* the route being written
    applied,        \* the last route recovery wrote and verified
    confirmations,
    expired,        \* the four seconds of recovery are over
    failed,         \* the Result: some call returned Err
    \* history, read by no action
    raced,          \* the default or the table changed since the decision's
                    \* first look at them
    moved,          \* a link, an address or a router changed since recovery
                    \* asked for the link
    disturbed       \* the host changed, a command failed, or time ran out,
                    \* since the interface was removed

links      == <<active, addressed, router, lease>>
host       == <<def, vpn, links>>
plan       == <<previous, target, applied, confirmations>>
history    == <<raced, moved, disturbed>>
vars       == <<host, pc, plan, current, expired, failed, history>>

Checking   == {"Lease", "Current", "Table", "ApplyCurrent", "ApplyTable",
               "Write", "Verify"}
Recovering == {"Restore", "Read", "ReadTable", "Judge", "Active", "Address",
               "Fresh", "Router", "Scoped", "Reread", "RereadTable", "Rewrite",
               "Reverify", "Sleep"}
Stages     == {"Snapshot", "Serve", "Remove", "Done"} \cup Checking \cup Recovering

TypeOK ==
    /\ def \in Routes \cup {NoRoute} /\ vpn \in BOOLEAN
    /\ active \in SUBSET Physical /\ addressed \in SUBSET Physical
    /\ router \in [Physical \cup {Owned} -> Gateways] /\ lease \in BOOLEAN
    /\ pc \in Stages
    /\ previous \in Routes \cup {NoRoute} /\ current \in Routes \cup {NoRoute}
    /\ target \in Routes \cup {NoRoute} /\ applied \in Routes \cup {NoRoute}
    /\ confirmations \in 0 .. 2 /\ expired \in BOOLEAN /\ failed \in BOOLEAN
    /\ raced \in BOOLEAN /\ moved \in BOOLEAN /\ disturbed \in BOOLEAN

Via(route, interfaces) == route # NoRoute /\ route.interface \in interfaces

\* Routes macOS itself installs.
Selectable ==
    {NoRoute} \cup {Route(i, router[i]) :
                      i \in (active \cap addressed) \cup IF lease THEN {Owned} ELSE {}}

Init ==
    /\ active \in SUBSET Physical /\ addressed \in SUBSET Physical /\ lease = FALSE
    /\ router \in [Physical \cup {Owned} -> Gateways]
    /\ \E g \in Gateways : def \in Selectable \cup {Route(Stale, g), Route(Vpn, NoGateway)}
    /\ vpn \in BOOLEAN /\ (Via(def, {Vpn}) => vpn)
    /\ pc = "Snapshot"
    /\ previous = NoRoute /\ current = NoRoute /\ target = NoRoute
    /\ applied = NoRoute /\ confirmations = 0
    /\ expired = FALSE /\ failed = FALSE
    /\ raced = FALSE /\ moved = FALSE /\ disturbed = FALSE

-----------------------------------------------------------------------------
(* Commands.                                                                *)

Goto(stage) == pc' = stage /\ UNCHANGED failed

\* `?` on a failed command: a check ends the session, recovery ends.
Fail == /\ pc' = IF pc \in Recovering THEN "Done" ELSE "Remove"
        /\ failed' = TRUE

\* Any command may fail or run into its deadline; the reads change nothing.
CommandFails ==
    /\ pc \in {"Current", "Table", "ApplyCurrent", "ApplyTable", "Verify",
               "Read", "ReadTable", "Scoped", "Reread", "RereadTable", "Reverify"}
    /\ Fail
    /\ disturbed' = TRUE
    /\ UNCHANGED <<host, plan, current, expired, raced, moved>>

\* `route get default`
Read(from, to) ==
    /\ pc = from
    /\ current' = def
    /\ Goto(to)
    /\ UNCHANGED <<host, plan, expired, moved, disturbed>>

\* `route change default` when a default was read, else `route add default`:
\* each fails if the table says otherwise by now, or for reasons of its own.
Write(from, to) ==
    /\ pc = from
    /\ \/ /\ target.gateway # NoGateway
          /\ current = NoRoute <=> def = NoRoute
          /\ def' = target
          /\ \/ Goto(to) /\ UNCHANGED disturbed
             \/ Fail /\ disturbed' = TRUE
       \/ Fail /\ disturbed' = TRUE /\ UNCHANGED def
    /\ UNCHANGED <<vpn, links, plan, current, expired, raced, moved>>

-----------------------------------------------------------------------------
(* A session: connect() and its network checks.                             *)

\* connect() reads the default before it creates the pair.
TakeSnapshot ==
    /\ pc = "Snapshot"
    /\ \/ previous' = def /\ Goto("Serve")
       \/ previous' = NoRoute /\ pc' = "Done" /\ failed' = TRUE
    /\ UNCHANGED <<host, target, applied, confirmations, current, expired, history>>

\* Three seconds passed since the last check, whose locals are gone.
Due ==
    /\ pc = "Serve" /\ Goto("Lease")
    /\ target' = NoRoute /\ current' = NoRoute
    /\ UNCHANGED <<host, previous, applied, confirmations, expired, history>>

\* The session ends, for whatever reason module Bridge knows.
Leave ==
    /\ pc = "Serve" /\ Goto("Remove")
    /\ UNCHANGED <<host, plan, current, expired, history>>

\* Snapshot::dhcp of the system interface; a failed command is no lease.
AskLease ==
    /\ pc = "Lease"
    /\ \/ lease /\ target' = Route(Owned, router[Owned]) /\ Goto("Current")
       \/ target' = NoRoute /\ Goto("Serve")
    /\ UNCHANGED <<host, previous, applied, confirmations, current, expired, history>>

ReadCurrent == Read("Current", "Table") /\ raced' = FALSE

\* Mutant: the replaced default is not saved.
DecideForgets ==
    /\ pc = "Table"
    /\ Goto(IF vpn \/ Via(current, {Vpn}) \/ current = target
            THEN "Serve" ELSE "ApplyCurrent")
    /\ UNCHANGED <<host, plan, current, expired, history>>

\* current.is_vpn() || vpn_present(), then the comparison with the phone's
\* route: the default about to be replaced becomes the one to fall back to.
Decide ==
    /\ pc = "Table"
    /\ IF vpn \/ Via(current, {Vpn}) \/ current = target
       THEN Goto("Serve") /\ UNCHANGED previous
       ELSE /\ previous' = IF Via(current, Interfaces \ {Owned})
                           THEN current ELSE previous
            /\ Goto("ApplyCurrent")
    /\ UNCHANGED <<host, target, applied, confirmations, current, expired, history>>

\* Snapshot::apply looks again, and refuses to override a VPN.
ApplyRead == Read("ApplyCurrent", "ApplyTable") /\ UNCHANGED raced

ApplyCheck ==
    /\ pc = "ApplyTable"
    /\ IF vpn \/ Via(current, {Vpn}) THEN Fail ELSE Goto("Write")
    /\ UNCHANGED <<host, plan, current, expired, history>>

ApplyWrite == Write("Write", "Verify")

\* Snapshot::write reads the default back.
Verify ==
    /\ pc = "Verify"
    /\ IF def = target THEN Goto("Serve") ELSE Fail
    /\ UNCHANGED <<host, plan, current, expired, history>>

\* Pair::remove: the interface is gone, its default may linger until configd
\* has processed the removal.
Remove ==
    /\ pc = "Remove"
    /\ lease' = FALSE
    /\ def' \in {def, IF Via(def, {Owned}) THEN NoRoute ELSE def}
    /\ pc' = "Restore" /\ failed' = FALSE
    /\ target' = NoRoute /\ current' = NoRoute
    /\ disturbed' = FALSE
    /\ UNCHANGED <<vpn, active, addressed, router, previous, applied,
                   confirmations, expired, raced, moved>>

-----------------------------------------------------------------------------
(* Recovery::restore.                                                       *)

\* Mutant: the removed interface's default counts as selected by macOS.
PermitsNone(route) == route = NoRoute

Permits(route) == route = NoRoute \/ Via(route, {Owned})

\* Only a physical service is fallen back to.
RestoreStart ==
    /\ pc = "Restore"
    /\ Goto(IF Via(previous, Physical) THEN "Read" ELSE "Done")
    /\ UNCHANGED <<host, plan, current, expired, history>>

RestoreRead == Read("Read", "ReadTable") /\ UNCHANGED raced

RestoreTable ==
    /\ pc = "ReadTable"
    /\ Goto(IF vpn THEN "Done" ELSE "Judge")
    /\ UNCHANGED <<host, plan, current, expired, history>>

\* Another default wins, unless it is the one just written: that one counts
\* only once it was seen twice.
Judge ==
    /\ pc = "Judge"
    /\ IF Permits(current)
       THEN confirmations' = 0 /\ Goto("Active")
       ELSE IF current = applied
       THEN /\ confirmations' = confirmations + 1
            /\ Goto(IF confirmations' >= 2 THEN "Done" ELSE "Sleep")
       ELSE Goto("Done") /\ UNCHANGED confirmations
    /\ UNCHANGED <<host, previous, target, applied, current, expired, history>>

\* Mutant: recovery does not ask for the link.
CheckActiveSkipped ==
    /\ pc = "Active" /\ Goto("Address")
    /\ moved' = FALSE
    /\ UNCHANGED <<host, plan, current, expired, raced, disturbed>>

\* `ifconfig` says "status: active"; a failed command does not.
CheckActive ==
    /\ pc = "Active"
    /\ \/ previous.interface \in active /\ Goto("Address") /\ UNCHANGED disturbed
       \/ previous.interface \notin active /\ Goto("Sleep") /\ UNCHANGED disturbed
       \/ Goto("Sleep") /\ disturbed' = TRUE
    /\ moved' = FALSE
    /\ UNCHANGED <<host, plan, current, expired, raced>>

\* `ipconfig getifaddr` names an address; a failed command does not.
CheckAddress ==
    /\ pc = "Address"
    /\ \/ previous.interface \in addressed /\ Goto("Fresh") /\ UNCHANGED disturbed
       \/ previous.interface \notin addressed /\ Goto("Sleep") /\ UNCHANGED disturbed
       \/ Goto("Sleep") /\ disturbed' = TRUE
    /\ UNCHANGED <<host, plan, current, expired, raced, moved>>

\* Snapshot::dhcp asks for the address again; without one, or if the command
\* fails, the scoped default is asked for.
AskAddress ==
    /\ pc = "Fresh"
    /\ \/ previous.interface \in addressed /\ Goto("Router")
       \/ Goto("Scoped")
    /\ UNCHANGED <<host, plan, current, expired, history>>

Fresh == Route(previous.interface, router[previous.interface])

\* Mutant: the gateway saved when the session began.
AskRouterSaved ==
    /\ pc = "Router"
    /\ target' = previous /\ Goto("Reread")
    /\ UNCHANGED <<host, previous, applied, confirmations, current, expired, history>>

\* `ipconfig getoption router`: the router DHCP names now; a static service
\* has none, nor has a failed command.
AskRouter ==
    /\ pc = "Router"
    /\ \/ target' = Fresh /\ Goto("Reread")
       \/ Goto("Scoped") /\ UNCHANGED target
    /\ UNCHANGED <<host, previous, applied, confirmations, current, expired, history>>

\* `route get -ifscope`: the interface's own default, if it has one with a
\* gateway.  Whether the link is still there is not asked again.
AskScoped ==
    /\ pc = "Scoped"
    /\ \/ target' = Fresh /\ Goto("Reread")
       \/ Goto("Sleep") /\ UNCHANGED target
    /\ UNCHANGED <<host, previous, applied, confirmations, current, expired, history>>

Reread == /\ pc = "Reread"
          /\ current' = def
          /\ Goto(IF Permits(def) THEN "RereadTable" ELSE "Done")
          /\ raced' = FALSE
          /\ UNCHANGED <<host, plan, expired, moved, disturbed>>

\* Mutant: the second look leaves the table out.
RereadTableSkipped ==
    /\ pc = "RereadTable"
    /\ Goto("Rewrite")
    /\ UNCHANGED <<host, plan, current, expired, history>>

RereadTable ==
    /\ pc = "RereadTable"
    /\ Goto(IF vpn THEN "Done" ELSE "Rewrite")
    /\ UNCHANGED <<host, plan, current, expired, history>>

Rewrite == Write("Rewrite", "Reverify")

Reverify ==
    /\ pc = "Reverify"
    /\ IF def = target
       THEN applied' = target /\ Goto("Sleep")
       ELSE Fail /\ UNCHANGED applied
    /\ UNCHANGED <<host, previous, target, confirmations, current, expired, history>>

\* Mutant: the deadline is not looked at.
SleepOn ==
    /\ pc = "Sleep"
    /\ target' = NoRoute
    /\ Goto("Read")
    /\ UNCHANGED <<host, previous, applied, confirmations, current, expired, history>>

\* The deadline is looked at once per round, before 250 ms of sleep.
Sleep ==
    /\ pc = "Sleep"
    /\ target' = NoRoute
    /\ IF expired THEN Fail ELSE Goto("Read")
    /\ UNCHANGED <<host, previous, applied, confirmations, current, expired, history>>

\* The next session; the locals of this one are gone.
Again ==
    /\ pc = "Done"
    /\ pc' = "Snapshot" /\ failed' = FALSE
    /\ previous' = NoRoute /\ current' = NoRoute /\ target' = NoRoute
    /\ applied' = NoRoute /\ confirmations' = 0 /\ expired' = FALSE
    /\ raced' = FALSE /\ moved' = FALSE /\ disturbed' = FALSE
    /\ UNCHANGED host

Supervisor ==
    \/ CommandFails
    \/ TakeSnapshot \/ Due \/ Leave \/ AskLease \/ ReadCurrent \/ Decide
    \/ ApplyRead \/ ApplyCheck \/ ApplyWrite \/ Verify \/ Remove
    \/ RestoreStart \/ RestoreRead \/ RestoreTable \/ Judge
    \/ CheckActive \/ CheckAddress \/ AskAddress \/ AskRouter \/ AskScoped
    \/ Reread \/ RereadTable \/ Rewrite \/ Reverify \/ Sleep \/ Again

-----------------------------------------------------------------------------
(* The host.                                                                *)

\* A VPN client installs split routes, or a default of its own.
VpnUp ==
    /\ ~vpn /\ vpn' = TRUE
    /\ def' \in {def, Route(Vpn, NoGateway)}
    /\ UNCHANGED links

VpnDown ==
    /\ vpn /\ vpn' = FALSE
    /\ def' \in IF Via(def, {Vpn}) THEN Selectable ELSE {def}
    /\ UNCHANGED links

\* configd selects a default, or the kernel loses one.
Select ==
    /\ ~Via(def, {Vpn})
    /\ def' \in Selectable \ {def}
    /\ UNCHANGED <<vpn, links>>

Toggled(S, i) == (S \ {i}) \cup ({i} \ S)

\* A link or an address comes or goes, and with it perhaps the default.
LinkChanges ==
    /\ \E i \in Physical :
        /\ \/ active' = Toggled(active, i) /\ UNCHANGED addressed
           \/ addressed' = Toggled(addressed, i) /\ UNCHANGED active
        /\ def' \in {def, IF Via(def, {i}) /\ i \notin active' \cap addressed'
                         THEN NoRoute ELSE def}
    /\ UNCHANGED <<vpn, router, lease>>

RouterChanges ==
    /\ \E i \in Physical, g \in Gateways : router' = [router EXCEPT ![i] = g]
    /\ router' # router
    /\ UNCHANGED <<def, vpn, active, addressed, lease>>

LeaseChanges ==
    /\ pc \in Checking \cup {"Serve"}
    /\ lease' = ~lease
    /\ UNCHANGED <<def, vpn, active, addressed, router>>

Host ==
    /\ VpnUp \/ VpnDown \/ Select \/ LinkChanges \/ RouterChanges \/ LeaseChanges
    /\ raced' = IF UNCHANGED <<def, vpn>> THEN raced ELSE TRUE
    /\ moved' = IF UNCHANGED links THEN moved ELSE TRUE
    /\ disturbed' = TRUE
    /\ UNCHANGED <<pc, plan, current, expired, failed>>

Expire ==
    /\ pc \in Recovering /\ ~expired
    /\ expired' = TRUE /\ disturbed' = TRUE
    /\ UNCHANGED <<host, plan, current, pc, failed, raced, moved>>

Next == Supervisor \/ Host \/ Expire

\* Every command ends within its own deadline, and time passes.
Spec == Init /\ [][Next]_vars /\ WF_vars(Supervisor) /\ WF_vars(Expire)

-----------------------------------------------------------------------------
(* Properties.                                                              *)

\* The step of `route` that replaced the default.
Wrote(stage) == pc = stage /\ pc' # stage /\ def' # def

\* Unless the default or the table changed after the decision's first look, no
\* write replaces a VPN's route, and recovery replaces only a missing default or
\* the one of the removed interface.
ReplacesWhatItSaw ==
    [][(Wrote("Write") \/ Wrote("Rewrite")) /\ ~raced =>
            ~vpn /\ (pc = "Rewrite" => Permits(def))]_vars

\* "Never replay a stale cached gateway as the fallback" (route.rs): what
\* recovery writes is the router the interface has now, whatever the session
\* saved when it began, and the interface has a link and an address, unless
\* one of the three changed after recovery had asked for the link.
FreshGateway ==
    [][Wrote("Rewrite") /\ ~moved =>
            /\ previous.interface \in active \cap addressed
            /\ def' = Route(previous.interface, router[previous.interface])]_vars

\* The physical default a session replaces is the one recovery falls back to,
\* unless it changed between the check's look and apply's.
FallbackRemembered ==
    [][Wrote("Write") /\ ~raced /\ Via(def, Physical) => previous = def]_vars

\* What a session writes is what it decided on.
HonestWrites == ReplacesWhatItSaw /\ FreshGateway /\ FallbackRemembered

\* If there is an interface to fall back to, nobody interferes, no command
\* fails and time does not run out, recovery ends well, with a default that is
\* not ours.
QuietRecovery ==
    pc = "Done" /\ ~disturbed /\ ~vpn /\ Via(previous, Physical) =>
        ~failed /\ def # NoRoute /\ ~Via(def, {Owned})

\* Recovery ends, whatever the host does.
RecoveryEnds == pc \in Recovering ~> pc = "Done"

\* "An independently selected default always wins" (route.rs:174).
IndependentDefaultWins == [][Wrote("Rewrite") => Permits(def)]_vars
=============================================================================
