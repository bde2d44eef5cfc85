---------------------------- MODULE NetworkSetup ----------------------------
(***************************************************************************)
(* The part of network/manager that every network manager shares:          *)
(* SetupInterfaces(), the descriptor already applied (seenMetadata), the   *)
(* detection of the active manager and FallbackToDefault().  The modules   *)
(* of the managers extend this one with what their Service methods do.     *)
(* The agent calls SetupInterfaces() on every metadata event, changed or   *)
(* not, so that a failed setup is tried again.  NetworkInterfaces.Setup is *)
(* on: without it SetupInterfaces() does nothing.                          *)
(***************************************************************************)
EXTENDS Naturals

CONSTANTS
    Nics,           \* Ethernet interfaces
    Primary,        \* the one metadata lists first
    Absent,         \* the ones whose MAC no interface of the guest has
    Vlans,          \* VLAN interfaces
    Parent,         \* the Ethernet interface of each
    UserIfaces,     \* interfaces whose files the guest's owner wrote, named like a VLAN's
    Deprecated,     \* Ethernet interfaces with files of the deprecated priority
    Metadata,       \* the descriptors the metadata server may have
    Configs,        \* configurations of the agent
    None,           \* seenMetadata is nil
    NoFile,         \* no such file
    MaxChanges,     \* bound: changes of the metadata or of the manager
    MaxFaults       \* bound: files and commands that fail, and restarts

\* Ethernet interfaces, those with DHCPv6Refresh, and VLANs.
Descriptors ==
    {d \in [nics : SUBSET Nics, v6 : SUBSET Nics, vlans : SUBSET Vlans] :
        Primary \in d.nics /\ d.v6 \subseteq d.nics}

ASSUME SetupAssumption ==
    /\ Primary \in Nics \ Absent /\ Absent \subseteq Nics /\ Deprecated \subseteq Nics
    /\ Parent \in [Vlans -> Nics]
    /\ Nics \cap Vlans = {} /\ UserIfaces \cap (Nics \cup Vlans) = {}
    /\ None \notin Descriptors
    /\ Metadata \subseteq Descriptors
    /\ Configs \subseteq [managePrimary : BOOLEAN, vlanSetup : BOOLEAN,
                          guest : {"plain", "debian12", "ubuntu1804", "dhclient"}]
    /\ MaxChanges \in Nat /\ MaxFaults \in Nat

VARIABLES
    options,   \* the agent's configuration and the guest's release, which stay
    md,        \* what the metadata server says
    target,    \* the descriptor SetupInterfaces() was called with
    seen,      \* seenMetadata
    manages,   \* whether this manager has the primary interface
    active,    \* what detectNetworkManager() found of that
    pc,        \* where the agent is
    changes,   \* changes so far
    faults,    \* faults so far
    restarts   \* restarts so far

serverVars == <<options, md, manages, changes>>
setupVars == <<serverVars, target, seen, active, pc, faults, restarts>>

ManagePrimary == options.managePrimary   \* NetworkInterfaces.ManagePrimaryNIC
VlanSetup == options.vlanSetup           \* NetworkInterfaces.VlanSetupEnabled
Debian12 == options.guest = "debian12"       \* netplan.Configure() sets interfacePrefix
Ubuntu1804 == options.guest = "ubuntu1804"   \* isUbuntu1804()
HasDhclient == options.guest = "dhclient"    \* dhclient is there besides the manager

\* shouldManageInterface() and isInvalid().
ShouldManage(n) == n \notin Absent /\ (n = Primary => ManagePrimary)

\* The parents exist: reformatVlanNics() returns no error.
VlansAreValid(d) == \A v \in d.vlans : Parent[v] \in d.nics

Fault ==
    /\ faults + restarts < MaxFaults
    /\ faults' = faults + 1

SetupInit ==
    /\ options \in Configs
    /\ md \in Metadata
    /\ target = md
    /\ seen = None
    /\ manages = TRUE
    /\ active = TRUE
    /\ pc = "boot"
    /\ changes = 0 /\ faults = 0 /\ restarts = 0

ChangeMetadata ==
    /\ changes < MaxChanges
    /\ changes' = changes + 1
    /\ md' \in Metadata \ {md}
    /\ UNCHANGED <<options, manages, target, seen, active, pc, faults, restarts>>

\* The guest's owner moves to another network manager, or back.
SwitchManager ==
    /\ changes < MaxChanges
    /\ changes' = changes + 1
    /\ manages' = ~manages
    /\ UNCHANGED <<options, md, target, seen, active, pc, faults, restarts>>

\* agentInit(): the metadata server answers the first Get().
Start ==
    /\ pc = "boot"
    /\ pc' = "idle"
    /\ UNCHANGED <<serverVars, target, seen, active, faults, restarts>>

\* agentInit(): it does not, and the configuration is rolled back first.
StartUnreachable ==
    /\ pc = "boot"
    /\ Fault
    /\ pc' = "fallback"
    /\ UNCHANGED <<serverVars, target, seen, active, restarts>>

\* detectNetworkManager(): the first manager whose IsManaging() says so.  This one
\* may want the primary interface to be up; dhclient, the last in the list, takes
\* any interface.
DetectNetworkManager(up) ==
    /\ ~manages \/ up \/ HasDhclient
    /\ active' = (manages /\ up)

\* A descriptor already seen is skipped.  When no manager is detected nothing
\* happens and the next event tries again.
SetupInterfaces(up) ==
    /\ pc = "idle" /\ md # seen
    /\ target' = md
    /\ DetectNetworkManager(up)
    /\ pc' = "leftover"
    /\ UNCHANGED <<serverVars, seen, faults, restarts>>

SetupVlans ==
    /\ pc = "vlans"
    /\ pc' = IF ~VlanSetup THEN "done" ELSE IF VlansAreValid(target) THEN "vlan" ELSE "idle"
    /\ UNCHANGED <<serverVars, target, seen, active, faults, restarts>>

Finish ==
    /\ pc = "done"
    /\ seen' = target
    /\ pc' = "idle"
    /\ UNCHANGED <<serverVars, target, active, faults, restarts>>

\* seenMetadata is lost with the process.
Restarting ==
    /\ faults + restarts < MaxFaults
    /\ restarts' = restarts + 1
    /\ pc' = "boot"
    /\ seen' = None
    /\ UNCHANGED <<serverVars, target, active, faults>>

SetupTypeOK ==
    /\ options \in Configs
    /\ {md, target} \subseteq Metadata
    /\ seen \in Metadata \cup {None}
    /\ manages \in BOOLEAN /\ active \in BOOLEAN
    /\ changes \in 0..MaxChanges
    /\ faults + restarts \in 0..MaxFaults

\* The metadata that is in force counts as applied, and is the last that was set
\* up.  (After a failed setup of another descriptor SetupInterfaces() skips the
\* one it has seen, although the failed one has changed files.)
Applied == pc = "idle" /\ seen # None /\ md = seen /\ target = seen

=============================================================================
