------------------------------ MODULE Installer ------------------------------
(***************************************************************************)
(* The installer's transaction and its rollback (install.sh), the          *)
(* uninstaller (uninstall.sh) and the worker account both manage           *)
(* (scripts/identity.sh), with what the supervisor accepts of the result   *)
(* (src/macos/identity.rs).  One installation, then uninstallations; each  *)
(* command may fail, a signal may arrive between two commands, the machine *)
(* may stop, and an administrator may change the account or its directory  *)
(* once.  What the installation made is "own", anything else "foreign".    *)
(***************************************************************************)
EXTENDS Integers, Sequences, FiniteSets

VARIABLES
    script,     \* "install" or "uninstall"
    pc,         \* its next command; "over" when no script runs
    made,       \* the first part of a step is done: a command has run whose
                \* shell variable is not set, or a look at what it will change
    flags,      \* the shell variables that are set
    receipt,    \* identity_receipt: where the script looks for it
    receipts,   \* where there is one with this installation's nonces
    paths,      \* what is at each path
    guid,       \* the nonce of the local user and group records
    step,       \* how many of the account's attributes have been written
    daemon,     \* launchd runs the service
    workers,    \* processes of the worker account exist
    meddled,    \* the administrator has acted
    \* history, read by no action
    late        \* records he changed after the script's last look at them

shell    == <<script, pc, made, flags, receipt>>
account  == <<guid, step>>
disk     == <<receipts, paths>>
running  == <<daemon, workers>>
admin    == <<meddled, late>>
vars     == <<shell, disk, account, running, admin>>

Places == {"lock", "stage", "data", "home", "destination", "link", "plist"}
Kinds  == {"user", "group"}

\* The transaction, in order.
Script == <<"lock", "stage", "receipt", "account", "data", "marker", "home", "chown",
            "destination", "move", "link", "plist", "bootstrap", "commit">>
After(s) == Script[1 + CHOOSE i \in 1 .. Len(Script) - 1 : Script[i] = s]
InScript == \E i \in DOMAIN Script : Script[i] = pc

Deleting == {"prove", "stop", "quiesce", "owner", "tree", "again", "user", "group", "parent"}

\* identity::account::create: each record gets its nonce first, and the user
\* its number last.
Writes ==
    <<"GeneratedUID", "Password", "PrimaryGroupID", "GroupMembership", "GroupMembers",
      "GeneratedUID", "Password", "AuthenticationAuthority", "UserShell", "NFSHomeDirectory",
      "IsHidden", "RealName", "PrimaryGroupID", "UniqueID">>

KindOf(i) == IF i <= 5 THEN "group" ELSE "user"
Fields(k) == {Writes[i] : i \in {j \in 1 .. step : KindOf(j) = k}}

TypeOK ==
    /\ script \in {"install", "uninstall"} /\ made \in BOOLEAN
    /\ InScript \/ pc \in Deleting \cup {"bootout", "identity", "files", "release", "over"}
    /\ flags \subseteq Places \cup {"ready", "fresh", "proof", "preserve", "committed"}
    /\ receipt \in {"stage", "destination"}
    /\ receipts \subseteq {"stage", "destination", "data"}
    /\ paths \in [Places -> {"none", "own", "new", "shared", "foreign"}]
    /\ guid \in [Kinds -> {"none", "own", "foreign"}] /\ step \in 0 .. Len(Writes)
    /\ {daemon, workers, meddled} \subseteq BOOLEAN /\ late \subseteq Kinds

Init ==
    /\ script = "install" /\ pc = "lock" /\ made = FALSE /\ flags = {}
    /\ receipt = "stage" /\ receipts = {}
    /\ \E taken \in SUBSET {"lock", "data", "destination", "link", "plist"} :
          paths = [p \in Places |-> IF p \in taken THEN "foreign" ELSE "none"]
    /\ guid \in [Kinds -> {"none", "foreign"}] /\ step = 0
    /\ daemon = FALSE /\ workers = FALSE /\ meddled = FALSE /\ late = {}

-----------------------------------------------------------------------------
(* What the scripts and the supervisor look at.                             *)

\* identity::account::user::check, group::check, check.
UserSettings ==
    {"GeneratedUID", "UniqueID", "PrimaryGroupID", "Password", "AuthenticationAuthority",
     "UserShell", "NFSHomeDirectory", "IsHidden"}
GroupSettings == {"GeneratedUID", "PrimaryGroupID", "Password", "GroupMembership", "GroupMembers"}
Complete(k) ==
    /\ guid[k] = "own"
    /\ (IF k = "user" THEN UserSettings ELSE GroupSettings) \subseteq Fields(k)
AccountCheck == Complete("user") /\ Complete("group")

\* identity::session::proof::check.
Partial == script = "install"
Proof(partial) ==
    /\ \/ "proof" \in flags
       \/ partial /\ "fresh" \in flags /\ flags \cap {"data", "home"} = {}
    /\ ~workers

\* identity::account::ownership::check.
Owned ==
    /\ receipt \in receipts /\ Proof(Partial)
    /\ \A k \in Kinds : guid[k] # "none" => guid[k] = "own" /\ (Partial \/ Complete(k))

\* identity::home::parent::check.
ParentCheck == paths["data"] = "own" /\ "data" \in receipts

\* Account::validate.
Validated ==
    [user |-> {"UniqueID", "PrimaryGroupID", "GeneratedUID", "AuthenticationAuthority",
               "UserShell", "NFSHomeDirectory", "IsHidden", "Password"},
     group |-> {"PrimaryGroupID", "GeneratedUID", "GroupMembership", "GroupMembers", "Password"}]
Validate == \A k \in Kinds : guid[k] = "own" /\ Validated[k] \subseteq Fields(k)

\* Account::lookup: both names and both numbers lead to the two records.
Lookup == "UniqueID" \in Fields("user") /\ "PrimaryGroupID" \in Fields("group")

\* Account::load.
Loads == "destination" \in receipts /\ Validate /\ Lookup

-----------------------------------------------------------------------------
(* install.sh: the transaction.                                             *)

Goto(s) == pc' = s /\ UNCHANGED <<script, made, flags, receipt>>
Half    == made' = TRUE /\ UNCHANGED <<script, pc, flags, receipt>>
Whole(s) == made' = FALSE /\ pc' = s /\ UNCHANGED <<script, flags, receipt>>
Put(p, what) == paths' = [paths EXCEPT ![p] = what]

\* Directories, the link and the copied plist: made, then noted.
Make(p) ==
    /\ pc = p /\ ~made /\ paths[p] = "none"
    /\ p = "lock" => paths["destination"] = "none" /\ paths["plist"] = "none"
    /\ p = "data" => AccountCheck
    /\ Put(p, IF p = "home" THEN "new" ELSE "own") /\ made' = TRUE
    /\ UNCHANGED <<script, pc, flags, receipt, receipts, account, running, admin>>

Note ==
    /\ made /\ InScript /\ pc \notin {"account", "chown"} /\ made' = FALSE
    /\ IF pc = "move" THEN receipt' = "destination" /\ UNCHANGED flags
       ELSE flags' = flags \cup {IF pc = "receipt" THEN "fresh" ELSE pc} /\ UNCHANGED receipt
    /\ pc' \in {After(pc)} \cup {s \in {"commit"} : pc = "link"}
    /\ UNCHANGED <<script, disk, account, running, admin>>

\* Without --auto nothing is loaded; and the link is optional.
SkipLink ==
    /\ pc = "link" /\ ~made /\ (Goto("plist") \/ Goto("commit"))
    /\ UNCHANGED <<disk, account, running, admin>>

\* identity::home::vacancy::check, identity::receipt::create.
Receipt ==
    /\ pc = "receipt" /\ ~made /\ paths["data"] = "none" /\ \A k \in Kinds : guid[k] = "none"
    /\ receipts' = {"stage"} /\ flags' = flags \cup {"ready"} /\ made' = TRUE
    /\ UNCHANGED <<script, pc, receipt, paths, account, running, admin>>

\* `dscl -create`: the first of a record's attributes is its nonce, whatever
\* record of that name there is by then; a later one makes a record that is
\* missing, with a nonce of its own.
Written(i) ==
    [guid EXCEPT ![KindOf(i)] = IF Writes[i] = "GeneratedUID" THEN "own"
                                ELSE IF @ = "none" THEN "foreign" ELSE @]

\* Mutant: the names were looked at when the receipt was made.
AccountUnlooked ==
    /\ pc = "account"
    /\ \/ ~made /\ Half /\ UNCHANGED account
       \/ /\ made /\ step < Len(Writes) /\ step' = step + 1 /\ guid' = Written(step + 1)
          /\ UNCHANGED shell
       \/ made /\ step = Len(Writes) /\ AccountCheck /\ Whole("data") /\ UNCHANGED account
    /\ UNCHANGED <<disk, running, admin>>
\* identity::account::create: names::check, the attributes one by one, and the
\* final check.
Account ==
    /\ pc = "account"
    /\ \/ ~made /\ (\A k \in Kinds : guid[k] = "none") /\ Half /\ late' = {} /\ UNCHANGED account
       \/ /\ made /\ step < Len(Writes) /\ step' = step + 1 /\ guid' = Written(step + 1)
          /\ UNCHANGED <<shell, late>>
       \/ /\ made /\ step = Len(Writes) /\ AccountCheck
          /\ Whole("data") /\ UNCHANGED <<account, late>>
    /\ UNCHANGED <<disk, running, meddled>>

\* identity::home::create: the marker, and the home's owner, with a check of
\* the parent and the home.
Marker ==
    /\ pc = "marker" /\ receipts' = receipts \cup {"data"} /\ Goto("home")
    /\ UNCHANGED <<paths, account, running, admin>>
Chown ==
    /\ pc = "chown"
    /\ \/ ~made /\ Put("home", "own") /\ Half
       \/ made /\ ParentCheck /\ paths["home"] = "own" /\ Whole("destination") /\ UNCHANGED paths
    /\ UNCHANGED <<receipts, account, running, admin>>

\* Mutant: IDENTITY is missing in the list of files.
MoveProgram ==
    /\ pc = "move" /\ ~made /\ made' = TRUE
    /\ UNCHANGED <<script, pc, flags, receipt, disk, account, running, admin>>
\* mv of all files into the reserved directory.
Move ==
    /\ pc = "move" /\ ~made /\ made' = TRUE
    /\ receipts' = (receipts \ {"stage"}) \cup {"destination"}
    /\ UNCHANGED <<script, pc, flags, receipt, paths, account, running, admin>>

Bootstrap ==
    /\ pc = "bootstrap" /\ daemon' = TRUE /\ Goto("commit")
    /\ UNCHANGED <<disk, account, workers, admin>>
Commit ==
    /\ pc = "commit" /\ flags' = flags \cup {"committed"} /\ pc' = "release"
    /\ UNCHANGED <<script, made, receipt, disk, account, running, admin>>

\* A command fails, or HUP, INT or TERM arrives: the EXIT trap.
Abort ==
    /\ InScript /\ pc' = "bootout" /\ made' = FALSE
    /\ UNCHANGED <<script, flags, receipt, disk, account, running, admin>>

Install ==
    \/ \E p \in Places : Make(p)
    \/ Note \/ SkipLink \/ Receipt \/ Account \/ Marker \/ Chown \/ Move
    \/ Bootstrap \/ Commit \/ Abort

-----------------------------------------------------------------------------
(* identity::installation::delete, for the rollback and the uninstaller.    *)

Prove ==
    /\ pc = "prove" /\ receipt \in receipts
    /\ Goto(IF Partial /\ ~Proof(TRUE) THEN "stop" ELSE "owner")
    /\ UNCHANGED <<disk, account, running, admin>>

\* identity::session::stop: the user domain is booted out.
Stop ==
    /\ pc = "stop" /\ AccountCheck /\ workers' \in {workers, FALSE}
    /\ pc' = "quiesce" /\ flags' = flags \ {"proof"}
    /\ UNCHANGED <<script, made, receipt, disk, account, daemon, admin>>

\* ... until no process of the account is left.
Quiesce ==
    /\ pc = "quiesce" /\ ~workers /\ AccountCheck
    /\ flags' = flags \cup {"proof"} /\ pc' = IF Partial THEN "owner" ELSE "prove"
    /\ UNCHANGED <<script, made, receipt, disk, account, running, admin>>

Owner ==
    /\ pc \in {"owner", "again"} /\ Owned
    /\ Goto(IF pc = "owner" THEN "tree" ELSE "user")
    /\ UNCHANGED <<disk, account, running, admin>>

\* identity::home::directory::delete.
Untouched == (Partial /\ "data" \notin flags) \/ paths["data"] = "none"
Unmarked  == Partial /\ "data" \in flags /\ "data" \notin receipts
Tree ==
    /\ pc = "tree" /\ Goto("again")
    /\ \/ Untouched /\ UNCHANGED paths
       \/ ~Untouched /\ Unmarked /\ paths["data"] = "own" /\ Put("data", "none")
       \/ /\ ~Untouched /\ ~Unmarked /\ ParentCheck /\ ~workers
          /\ \/ paths["home"] = "none" /\ UNCHANGED paths
             \/ paths["home"] = "new" /\ Partial /\ "home" \in flags /\ Put("home", "none")
             \/ /\ paths["home"] = "own" /\ AccountCheck /\ Proof(FALSE)
                /\ Put("home", "none")
    /\ UNCHANGED <<receipts, account, running, admin>>

AfterRecord(k) == IF k = "user" THEN "group" ELSE "parent"

\* Mutant: the nonces were read by identity::account::ownership::check.
RereadSkipped(k) ==
    /\ pc = k /\ ~made
    /\ IF guid[k] = "none" THEN Goto(AfterRecord(k)) ELSE Half
    /\ UNCHANGED <<disk, account, running, admin>>
\* identity::account::delete: a record that is there has its nonce read again,
\* directly before ...
Reread(k) ==
    /\ pc = k /\ ~made
    /\ \/ guid[k] = "none" /\ Goto(AfterRecord(k)) /\ UNCHANGED late
       \/ guid[k] = "own" /\ Half /\ late' = late \ {k}
    /\ UNCHANGED <<disk, account, running, meddled>>
\* ... `dscl -delete`, which removes whatever has that name by then.
Delete(k) ==
    /\ pc = k /\ made /\ guid[k] # "none"
    /\ guid' = [guid EXCEPT ![k] = "none"] /\ Whole(AfterRecord(k))
    /\ UNCHANGED <<disk, step, running, admin>>

\* identity::home::parent::delete: rm, then rmdir.
Parent ==
    /\ pc = "parent" /\ Goto("files")
    /\ \/ Untouched /\ UNCHANGED disk
       \/ /\ ~Untouched /\ ParentCheck /\ paths["home"] = "none"
          /\ \A k \in Kinds : guid[k] = "none"
          /\ receipts' = receipts \ {"data"} /\ Put("data", "none")
    /\ UNCHANGED <<account, running, admin>>

\* Mutant: the rollback goes on as if the account were gone.
RefuseQuietly ==
    /\ pc \in Deleting /\ made' = FALSE /\ pc' = IF Partial THEN "files" ELSE "release"
    /\ UNCHANGED <<script, flags, receipt, disk, account, running, admin>>
\* A check or a command fails.
Refuse ==
    /\ pc \in Deleting /\ made' = FALSE
    /\ IF Partial THEN flags' = flags \cup {"preserve"} /\ pc' = "files"
                  ELSE pc' = "release" /\ UNCHANGED flags
    /\ UNCHANGED <<script, receipt, disk, account, running, admin>>

DeleteInstallation ==
    \/ Prove \/ Stop \/ Quiesce \/ Owner \/ Tree \/ Parent \/ Refuse
    \/ \E k \in Kinds : Reread(k) \/ Delete(k)

-----------------------------------------------------------------------------
(* The rollback, the uninstaller and what ends both.                        *)

\* Mutant: the uninstaller goes on as the rollback does.
BootoutTried ==
    /\ pc = "bootout" /\ pc' = IF Partial THEN "identity" ELSE "stop"
    /\ daemon' \in {daemon, FALSE}
    /\ IF Partial /\ "plist" \in flags THEN Put("plist", "none") ELSE UNCHANGED paths
    /\ UNCHANGED <<script, made, flags, receipt, receipts, account, workers, admin>>
\* The service.  The rollback does not ask whether bootout worked; the
\* uninstaller fails, and waits for the supervisor.
Bootout ==
    /\ pc = "bootout" /\ pc' = IF Partial THEN "identity" ELSE "stop"
    /\ Partial \/ (daemon => paths["plist"] = "own")
    /\ daemon' \in {FALSE} \cup {d \in {daemon} : Partial}
    /\ IF Partial /\ "plist" \in flags THEN Put("plist", "none") ELSE UNCHANGED paths
    /\ UNCHANGED <<script, made, flags, receipt, receipts, account, workers, admin>>

Identity ==
    /\ pc = "identity"
    /\ Goto(IF "ready" \in flags /\ receipt \in receipts THEN "prove" ELSE "files")
    /\ UNCHANGED <<disk, account, running, admin>>

Preserved == "preserve" \in flags

\* The link, the plist, and the installed files.
Removed ==
    {p \in {"link", "plist"} : paths[p] = "own" /\ (Partial => p = "link" /\ "link" \in flags)}
      \cup {p \in {"destination"} : Partial => "destination" \in flags /\ ~Preserved}
Files ==
    /\ pc = "files" /\ Goto("release")
    /\ paths' = [p \in Places |-> IF p \in Removed THEN "none" ELSE paths[p]]
    /\ receipts' = IF "destination" \in Removed THEN receipts \ {"destination"} ELSE receipts
    /\ UNCHANGED <<account, running, admin>>

\* The stage and the lock.
Release ==
    /\ pc = "release" /\ Goto("over")
    /\ LET gone == {p \in {"stage"} : Partial /\ ~Preserved /\ paths[p] = "own"}
                     \cup {p \in {"lock"} : p \in flags}
       IN /\ paths' = [p \in Places |-> IF p \in gone THEN "none" ELSE paths[p]]
          /\ receipts' = IF "stage" \in gone THEN receipts \ {"stage"} ELSE receipts
    /\ UNCHANGED <<account, running, admin>>

\* uninstall.sh: its checks of what is installed, and the lock.
Uninstall ==
    /\ pc = "over" /\ paths["destination"] = "own" /\ "destination" \in receipts
    /\ paths["lock"] = "none" /\ paths["plist"] # "foreign"
    /\ script' = "uninstall" /\ pc' = "bootout" /\ flags' = {"lock"} /\ receipt' = "destination"
    /\ Put("lock", "own")
    /\ UNCHANGED <<made, receipts, account, running, admin>>

\* A signal ends a rollback, and the release of a lock; the uninstaller
\* goes on to release its lock.
Interrupt ==
    /\ ~InScript /\ pc # "over"
    /\ Whole(IF Partial \/ pc = "release" THEN "over" ELSE "release")
    /\ UNCHANGED <<disk, account, running, admin>>

-----------------------------------------------------------------------------
(* The rest of the machine.                                                 *)

\* The power goes: launchd starts what it finds when it is back.
PowerLoss ==
    /\ pc' = "over" /\ made' = FALSE /\ flags' = {}
    /\ daemon' = (paths["plist"] = "own") /\ workers' = FALSE
    /\ UNCHANGED <<script, receipt, disk, account, admin>>

\* The supervisor starts a worker under an account that loads.
Work == daemon /\ Loads /\ workers' = TRUE /\ UNCHANGED <<shell, disk, account, daemon, admin>>
Idle == workers /\ workers' = FALSE /\ UNCHANGED <<shell, disk, account, daemon, admin>>

\* An administrator makes, removes or replaces a record, or puts a file into
\* the data directory; and removes a stale lock.
Meddle ==
    /\ ~meddled /\ meddled' = TRUE
    /\ \/ /\ \E k \in {j \in Kinds : guid[j] # "foreign"} :
             /\ \E what \in {"none", "foreign"} \ {guid[k]} : guid' = [guid EXCEPT ![k] = what]
             /\ late' = IF made /\ pc \in {"account", k} THEN {k} ELSE {}
          /\ UNCHANGED paths
       \/ paths["data"] = "own" /\ Put("data", "shared") /\ UNCHANGED <<guid, late>>
    /\ UNCHANGED <<shell, receipts, step, running>>
Unlock ==
    /\ pc = "over" /\ paths["lock"] = "own" /\ Put("lock", "none")
    /\ UNCHANGED <<shell, receipts, account, running, admin>>

Next ==
    \/ Install \/ DeleteInstallation
    \/ Bootout \/ Identity \/ Files \/ Release \/ Uninstall \/ Interrupt
    \/ PowerLoss \/ Work \/ Idle \/ Meddle \/ Unlock

Spec == Init /\ [][Next]_vars

-----------------------------------------------------------------------------
(* Properties.                                                              *)

\* Neither script changes or removes what is not the installation's own: a
\* record with another nonce, unless it came to be there after the look directly
\* before the change (names::check before the first `dscl -create`, the nonce
\* before each `dscl -delete`); a path that was taken; a data directory somebody
\* else uses.
Changes(k) == guid'[k] # "foreign" \/ (step' # step /\ KindOf(step') = k)
OnlyOwn ==
    [][/\ \A k \in Kinds : guid[k] = "foreign" /\ Changes(k) => k \in late
       /\ \A p \in Places : paths[p] \in {"foreign", "shared"} => paths'[p] = paths[p]]_vars

\* The home and the user record are removed only when no process runs under
\* the account.  (A rollback goes on when bootout failed: launchd may then
\* start the service once more.)
DeletesHome == paths["home"] = "own" /\ paths'["home"] = "none"
DeletesUser == pc = "user" /\ pc' = "group" /\ guid["user"] = "own"
QuietDeletion == [][DeletesHome \/ DeletesUser => ~workers \/ (Partial /\ daemon)]_vars

\* However the scripts end, a record or a home they leave has a receipt with
\* its nonces somewhere.
Recoverable ==
    (\E k \in Kinds : guid[k] = "own") \/ paths["home"] \in {"new", "own"} => receipts # {}

\* The supervisor accepts the account of an installation that went through,
\* as long as nobody changes it and the uninstaller has not run.
CommittedLoads == "committed" \in flags /\ ~meddled => Loads

\* identity.sh:426-428 says that an installation that fails once the home is
\* there either removes its account or leaves the recovery receipts intact,
\* those of the staging or the installation directory (install.sh:273).
ReceiptsIntact ==
    pc = "over" /\ script = "install" /\ "home" \in flags /\ (\E k \in Kinds : guid[k] = "own")
        => receipts \cap {"stage", "destination"} # {}
=============================================================================
