------------------------------- MODULE Network -------------------------------
(***************************************************************************)
(* The network subsystem: SetupInterfaces() with one of the five managers  *)
(* that can own the primary interface of a guest.  The image decides which *)
(* one it is; a guest that moves to another one and back is SwitchManager  *)
(* of NetworkSetup.                                                        *)
(***************************************************************************)
EXTENDS NetworkSetup

CONSTANT Managers   \* the managers of the images

ASSUME ManagersAssumption ==
    Managers \subseteq {"networkd", "netplan", "dhclient", "wicked", "NetworkManager"}

VARIABLES
    manager,                                                   \* the guest's
    network, old, loaded, links, todo, cur, restart, spoiled,  \* of several
    netdev,                                                    \* of Networkd
    ethernet, override, vlanFile, applied, prefixed, reload,   \* of Netplan
    procs, plan,                                               \* of Dhclient
    changed                                                    \* of Wicked

Unused == "unused"

netplanVars == <<ethernet, override, vlanFile, applied, prefixed, reload>>
dhclientVars == <<procs, plan>>
vars == <<manager, setupVars, network, old, loaded, links, todo, cur, restart, spoiled, netdev,
          netplanVars, dhclientVars, changed>>

ND == INSTANCE Networkd
NP == INSTANCE Netplan
DH == INSTANCE Dhclient
WI == INSTANCE Wicked
NM == INSTANCE NetworkManager

ASSUME FilesAssumption ==
    /\ NoFile \notin ND!NetworkFiles
    /\ \A V \in SUBSET Vlans : V # NoFile
    /\ NoFile \notin {"agent", "owner", "empty", "open", "ipv4", "yes"}

\* The variables that the guest's manager does not have.
NotNetworkd == <<netplanVars, dhclientVars, changed, spoiled>>
NotNetplan == <<network, old, loaded, cur, restart, netdev, dhclientVars, changed>>
NotDhclient == <<network, old, loaded, restart, spoiled, netdev, netplanVars, changed>>
NotWicked == <<old, links, restart, netdev, netplanVars, dhclientVars>>
NotNM == <<netdev, netplanVars, dhclientVars, changed>>

NetplanUnused ==
    /\ ethernet = Unused /\ override = Unused /\ vlanFile = Unused
    /\ applied = Unused /\ prefixed = Unused /\ reload = Unused
DhclientUnused == procs = Unused /\ plan = Unused

Init ==
    /\ manager \in Managers
    /\ manager = "networkd" => ND!Init /\ spoiled = Unused
    /\ manager = "netplan" =>
          /\ NP!Init
          /\ network = Unused /\ old = Unused /\ loaded = Unused /\ cur = Unused
          /\ restart = Unused
    /\ manager = "dhclient" =>
          /\ DH!Init
          /\ network = Unused /\ old = Unused /\ loaded = Unused
          /\ restart = Unused /\ spoiled = Unused
    /\ manager = "wicked" => WI!Init /\ old = Unused /\ links = Unused /\ restart = Unused
    /\ manager = "NetworkManager" => NM!Init
    /\ manager # "networkd" => netdev = Unused
    /\ manager # "netplan" => NetplanUnused /\ ~Debian12
    /\ manager # "dhclient" => DhclientUnused /\ ~Ubuntu1804
    /\ manager # "wicked" => changed = Unused
    /\ manager # "NetworkManager" => ~HasDhclient

NetworkdStep == manager = "networkd" /\ ND!Next /\ UNCHANGED <<manager, NotNetworkd>>
NetplanStep == manager = "netplan" /\ NP!Next /\ UNCHANGED <<manager, NotNetplan>>
DhclientStep == manager = "dhclient" /\ DH!Next /\ UNCHANGED <<manager, NotDhclient>>
WickedStep == manager = "wicked" /\ WI!Next /\ UNCHANGED <<manager, NotWicked>>
NetworkManagerStep == manager = "NetworkManager" /\ NM!Next /\ UNCHANGED <<manager, NotNM>>

Next == NetworkdStep \/ NetplanStep \/ DhclientStep \/ WickedStep \/ NetworkManagerStep

\* What the agent does on its own: metadata events never end, changed or not
\* (the long poll times out), and the setup that one starts runs to its end.
AgentStep ==
    \/ manager = "networkd" /\ (ND!Setup \/ ND!Steps) /\ UNCHANGED <<manager, NotNetworkd>>
    \/ manager = "netplan" /\ (NP!Setup \/ NP!Steps) /\ UNCHANGED <<manager, NotNetplan>>
    \/ manager = "dhclient" /\ (DH!Setup \/ DH!Steps) /\ UNCHANGED <<manager, NotDhclient>>
    \/ manager = "wicked" /\ (WI!Setup \/ WI!Steps) /\ UNCHANGED <<manager, NotWicked>>
    \/ manager = "NetworkManager" /\ (NM!Setup \/ NM!Steps) /\ UNCHANGED <<manager, NotNM>>

Spec == Init /\ [][Next]_vars /\ WF_vars(AgentStep)

-----------------------------------------------------------------------------
\* Type invariant of the manager the guest has.
TypeOK ==
    CASE manager = "networkd" -> ND!TypeOK
      [] manager = "netplan" -> NP!TypeOK
      [] manager = "dhclient" -> DH!TypeOK
      [] manager = "wicked" -> WI!TypeOK
      [] manager = "NetworkManager" -> NM!TypeOK

\* A setup that succeeds leaves the files as the metadata says, whatever an
\* earlier one left when it failed or when the agent or the guest stopped in the
\* middle of it (SetupInterfaces() setting seenMetadata).  What a write left empty
\* is repaired if metadata still has the interface; else it stays, since nothing
\* marks it as the agent's.
AppliedIsOnDisk ==
    [][seen' # seen /\ seen' # None /\ active =>
          /\ manager = "networkd" => ND!OnDisk(seen)'
          /\ manager = "netplan" => NP!OnDisk(seen)'
          /\ manager = "wicked" => WI!OnDisk(seen)'
          /\ manager = "NetworkManager" => NM!OnDisk(seen)']_vars

\* Once the guest has another manager, nothing of the Ethernet configuration of the
\* one it had is left for the interfaces in metadata (Rollback()).
InactiveIsRolledBack ==
    /\ manager = "networkd" => ND!InactiveIsRolledBack
    /\ manager = "wicked" => WI!InactiveIsRolledBack
    /\ manager = "NetworkManager" => NM!InactiveIsRolledBack

\* What counts as applied is what the manager was told to load, over setups, changes
\* and rollbacks (networkctl, reloadConfigs() of netplan, which runs only when a
\* file was written, ifreload of wicked, which is for the files that were written,
\* and NetworkManager's nmcli).  With netplan and wicked a reload that failed, or
\* that the agent did not live to ask for, is not made up for: the property says so
\* (spoiled).  With networkd the files of VLANs that are only added are not loaded.
AppliedIsLoaded ==
    /\ manager = "networkd" => ND!AppliedIsLoaded
    /\ manager = "netplan" => NP!AppliedIsLoaded
    /\ manager = "wicked" => WI!AppliedIsLoaded
    /\ manager = "NetworkManager" => NM!AppliedIsLoaded

\* Once the metadata counts as applied, and no command failed, every interface that
\* the agent manages has a dhclient process for each IP version it has, whatever was
\* rolled back, killed or left by an earlier setup (partitionInterfaces(), which
\* leaves the primary one of Ubuntu 18.04 alone); with NetworkManager the primary one
\* has a connection (rollbackConfigs(), which takes its profile away), unless that
\* was cut short.  A client that should have been released may stay.
LeasesHeld ==
    /\ manager = "dhclient" => DH!LeasesHeld
    /\ manager = "NetworkManager" => NM!PrimaryConnected

\* The VLAN links are those of the metadata that counts as applied (findVlanDiff()
\* of netplan, removeVlanInterfaces() of dhclient, cleanupVlanInterfaces() of
\* wicked).
VlanLinksMatch ==
    /\ manager = "netplan" => NP!VlanLinksMatch
    /\ manager = "dhclient" => DH!VlanLinksMatch
    /\ manager = "wicked" => WI!VlanLinksMatch

\* networkctl refuses to delete VLANs that metadata no longer has.
Refused ==
    CASE manager = "networkd" -> ND!Refused
      [] manager = "netplan" -> NP!Refused
      [] OTHER -> FALSE

\* Every valid descriptor that metadata ends up with is applied in the end,
\* failed commands and restarts notwithstanding.  There are two ways to fail: a
\* VLAN that networkctl refuses to delete because it has no link, and a primary
\* interface that NetworkManager has lost, so that no manager is detected.
DescriptorApplied ==
    <>[](\/ seen = md
         \/ VlanSetup /\ (~VlansAreValid(md) \/ Refused)
         \/ manager = "NetworkManager" /\ NM!Undetected)
=============================================================================
