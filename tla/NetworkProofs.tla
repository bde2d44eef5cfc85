---------------------------- MODULE NetworkProofs ----------------------------
(***************************************************************************)
(* Theorems about Network, for any interfaces, descriptors and             *)
(* configurations and any number of changes, faults and restarts: what is  *)
(* true of the files and of the system once a descriptor counts as         *)
(* applied.                                                                *)
(***************************************************************************)
EXTENDS Network, SequenceTheorems, TLAPS

\* The interfaces of the descriptor d that the agent manages.
Managed(d) == {n \in d.nics : ShouldManage(n)}

\* The last setup went through, and seenMetadata is its descriptor or about to be.
Finished == pc = "done" \/ seen = target

-----------------------------------------------------------------------------
(* The inductive invariants.                                               *)

\* seenMetadata is the last descriptor only between two setups: SetupInterfaces()
\* is not entered with it.
SetupInv ==
    /\ options \in Configs /\ md \in Metadata /\ target \in Metadata
    /\ faults \in Nat /\ restarts \in Nat
    /\ seen = target => pc = "idle"

\* systemd-networkd: the files of the managed interfaces are right once they are
\* written, VLANs and the reload at the end notwithstanding.
NetworkdInv ==
    LET ethernetDone == pc \in {"vlans", "vlan", "netdev", "parent", "prune"}
    IN  /\ network \in [ND!Ifaces -> ND!NetworkFiles \cup {NoFile}]
        /\ netdev \subseteq Vlans
        /\ pc = "rollback" => ~active
        /\ pc \in {"ethernet", "reload"} \/ ethernetDone => active
        /\ pc = "ethernet" => todo \subseteq Managed(target)
        /\ pc \in {"vlan", "netdev", "parent"} => todo \subseteq Vlans
        /\ pc \in {"netdev", "parent"} => cur \in Vlans
        /\ pc = "prune" => \A f \in todo : f[1] \notin Nics
        /\ pc \in {"ethernet", "reload"} \/ ethernetDone =>
              \A n \in Managed(target) :
                  \/ pc = "ethernet" /\ n \in todo
                  \/ network[n] # NoFile /\ network[n].matches /\ network[n].v6 = (n \in target.v6)
        /\ ethernetDone \/ (Finished /\ active) =>
              \A n \in Managed(target) \ old : loaded[n] # NoFile /\ loaded[n].v6 = (n \in target.v6)
        /\ Finished /\ active /\ VlanSetup /\ restart => loaded = ND!Effective(network, old)
        /\ Finished /\ ~active /\ faults = 0 =>
              \A n \in target.nics \ Absent : ~ND!IsManaged(n) /\ n \notin old

\* netplan: a file that was not loaded is known to be one, or was left so by a
\* failure or a restart.  While there was neither, the links are those of the VLAN
\* file but for those that are being deleted or about to be loaded.
VlansOf(f) == IF f = NoFile THEN {} ELSE f

NetplanInv ==
    /\ override \in [NP!Ifaces -> {"ipv4", "yes", "empty", NoFile}]
    /\ reload \in BOOLEAN /\ spoiled \in BOOLEAN
    /\ vlanFile = NoFile \/ vlanFile \subseteq Vlans
    /\ pc = "vlanYaml" => vlanFile # NoFile
    /\ pc = "rollback" => ~active
    /\ pc \in {"ethernet", "overrides", "vlans", "vlan", "vlanYaml", "vlanDirs", "vlanDropin",
               "vlanOverrides"} => active
    /\ \/ spoiled \/ applied = <<ethernet, override, vlanFile>>
       \/ pc = "vlanDirs"
       \/ reload /\ pc \in {"overrides", "vlanDropin", "vlanOverrides"}
    /\ faults = 0 /\ restarts = 0 =>
          /\ pc \notin {"vlanYaml", "vlanOverrides"} => links = VlansOf(vlanFile)
          /\ pc = "vlanYaml" =>
                /\ todo = vlanFile \ target.vlans /\ links = vlanFile \ todo
          /\ pc \in {"vlanDirs", "vlanDropin"} => VlansOf(vlanFile) \subseteq target.vlans
          /\ pc = "vlanOverrides" =>
                /\ VlansOf(vlanFile) = target.vlans
                /\ links \subseteq target.vlans
                /\ reload \/ links = target.vlans
          /\ Finished /\ active /\ VlanSetup => VlansOf(vlanFile) = target.vlans

\* dhclient: the VLANs that the loop is done with have a link.
DhclientInv ==
    LET inLoop == pc \in {"vlan", "add", "set", "address"}
    IN  /\ DOMAIN links = Vlans
        /\ pc = "rollback" => ~active
        /\ pc \in {"ethernet", "leases", "vlans"} \/ inLoop => active
        /\ inLoop => todo \subseteq target.vlans
        /\ pc \in {"add", "set", "address"} => cur \in target.vlans
        /\ inLoop =>
              \A v \in target.vlans : v \in todo \/ links[v] # "none" \/ (pc = "add" /\ v = cur)
        /\ Finished /\ active /\ VlanSetup => {v \in Vlans : links[v] # "none"} = target.vlans

\* wicked: its files and its interfaces agree, but for what is spoiled or under way.
Agrees(i) == network[i] # "empty" /\ (network[i] = "agent" <=> i \in loaded)

WickedInv ==
    LET inLoop == pc \in {"vlan", "write", "ifup", "ifreload"}
    IN  /\ network \in [WI!Ifaces -> WI!Files]
        /\ \A i \in WI!Ifaces : network[i] = "owner" <=> i \in UserIfaces \cup {Primary}
        /\ \A i \in WI!Ifaces :
              \/ i \in spoiled \/ Agrees(i)
              \/ pc = "ethernet" /\ i \in changed
              \/ pc \in {"write", "ifup", "ifreload"} /\ i = cur
        /\ pc = "rollback" => ~active
        /\ pc \in {"ethernet", "vlans"} \/ inLoop => active
        /\ pc = "ethernet" =>
              /\ todo \subseteq Managed(target)
              /\ \A i \in changed : i \in Nics /\ network[i] = "agent"
              /\ \A n \in Managed(target) : n \in todo \/ network[n] # NoFile
        /\ pc = "vlans" \/ inLoop \/ (Finished /\ active) =>
              \A n \in Managed(target) \ {Primary} : n \in loaded \cup spoiled
        /\ inLoop =>
              /\ todo \subseteq target.vlans
              /\ \A v \in target.vlans :
                    v \in todo \/ v \in loaded \/ (pc \in {"write", "ifup"} /\ v = cur)
        /\ pc \in {"write", "ifup"} => cur \in target.vlans
        /\ pc = "ifup" => network[cur] = "agent"
        /\ pc = "ifreload" => cur \in Vlans \ target.vlans /\ network[cur] = NoFile
        /\ Finished /\ active /\ VlanSetup =>
              /\ target.vlans \subseteq loaded
              /\ (loaded \cap Vlans) \ spoiled \subseteq target.vlans
        /\ Finished /\ ~active => \A n \in target.nics : network[n] # "agent" \/ n \in spoiled

\* NetworkManager: as before, with the rollbacks that return to a later step.
NMInv ==
    LET rollingBack == pc \in {"nmreload", "connect"}
        atEthernet == pc = "ethernet" \/ (rollingBack /\ cur = "ethernet")
    IN  /\ network \in [NM!Ifaces -> NM!Files]
        /\ pc = "rollback" => ~active
        /\ atEthernet \/ pc \in {"up", "vlans", "vlan"} => active
        /\ rollingBack => cur \in {"ethernet", "rollback", "done", "idle"}
        /\ rollingBack /\ cur \in {"rollback", "done"} => ~active
        /\ atEthernet =>
              /\ todo \subseteq Managed(target)
              /\ \A n \in Managed(target) : n \in todo \/ network[n] = "agent"
        /\ pc = "up" => todo \subseteq Nics
        /\ pc \in {"up", "vlans", "vlan"} =>
              \A n \in Managed(target) :
                  network[n] = "agent" /\ n \in loaded /\ (n \in links \/ (pc = "up" /\ n \in todo))
        /\ pc = "vlan" =>
              /\ todo \subseteq Vlans
              /\ \A v \in target.vlans : v \in todo \/ network[v] = "agent"
        /\ Finished /\ active =>
              /\ Managed(target) \subseteq loaded \cap links
              /\ VlanSetup => target.vlans \subseteq loaded \cap links
        /\ (Finished \/ (rollingBack /\ cur = "done")) /\ ~active /\ faults = 0 =>
              \A n \in target.nics : network[n] \in {NoFile, "empty"}

-----------------------------------------------------------------------------
(* What is on disk while a setup is under way, and when it is done.        *)

\* The .network file of a managed interface of target, with the VLANs V.
FileWith(n, V) == [managed |-> TRUE, matches |-> TRUE, v6 |-> n \in target.v6, vlans |-> V]

NetworkdDisk ==
    LET inLoop == pc \in {"vlan", "netdev", "parent"}
        Written(v) == v \in target.vlans \ todo /\ ~(pc \in {"netdev", "parent"} /\ v = cur)
    IN  /\ \A v \in Vlans :
              network[v] \in {NoFile, ND!VlanFile} \/ (network[v] = ND!EmptyFile /\ faults + restarts > 0)
        /\ inLoop \/ pc = "prune" => VlanSetup
        /\ pc \in {"ethernet", "reload", "vlans"} =>
              \A n \in Managed(target) : (pc = "ethernet" /\ n \in todo) \/ network[n] = FileWith(n, {})
        /\ inLoop =>
              /\ todo \subseteq target.vlans
              /\ \A n \in Managed(target) :
                    network[n] = FileWith(n, {v \in Vlans : Written(v) /\ Parent[v] = n})
              /\ \A v \in target.vlans \ todo :
                    network[v] = ND!VlanFile /\ (v \in netdev \/ (pc = "netdev" /\ v = cur))
        /\ pc \in {"netdev", "parent"} => cur \in target.vlans \ todo
        /\ pc = "prune" =>
              /\ \A n \in Managed(target) :
                    network[n] = FileWith(n, {v \in target.vlans : Parent[v] = n})
              /\ target.vlans \subseteq netdev
              /\ \A v \in target.vlans : network[v] = ND!VlanFile
              /\ \A f \in todo : f[1] \notin target.vlans
              /\ \A v \in Vlans \ target.vlans :
                    network[v] \in {NoFile, ND!EmptyFile} \/ <<v, "network">> \in todo
              /\ \A v \in netdev \ target.vlans : <<v, "netdev">> \in todo
        /\ pc = "done" /\ active => ND!OnDisk(target)

NetplanDisk ==
    LET vlanSteps == {"vlan", "vlanYaml", "vlanDirs", "vlanDropin", "vlanOverrides"}
        vlansWritten == vlanFile = target.vlans \/ (target.vlans = {} /\ vlanFile = NoFile)
    IN  /\ vlanFile = {} => faults + restarts > 0
        /\ pc \in {"overrides", "vlans"} \cup vlanSteps \/ (pc = "done" /\ active) =>
              /\ Managed(target) # {} =>
                    ethernet = [nics |-> Managed(target), v6 |-> Managed(target) \cap target.v6]
              /\ \A n \in Managed(target) :
                    (pc = "overrides" /\ n \in todo) \/ override[n] = NP!Dhcp(target, n)
        /\ pc = "overrides" => todo \subseteq Nics
        /\ pc \in {"vlanYaml", "vlanDirs"} => todo \subseteq Vlans
        /\ pc = "vlanYaml" => todo = vlanFile \ target.vlans
        /\ pc \in {"vlanDirs", "vlanDropin"} => VlansOf(vlanFile) \subseteq target.vlans
        /\ pc = "vlanOverrides" =>
              /\ vlansWritten /\ todo \subseteq target.vlans
              /\ \A v \in target.vlans : v \in todo \/ override[v] = NP!Dhcp(target, v)
        /\ pc = "done" /\ active /\ VlanSetup =>
              vlansWritten /\ \A v \in target.vlans : override[v] = NP!Dhcp(target, v)

WickedDisk ==
    LET inLoop == pc \in {"vlan", "write", "ifup", "ifreload"}
    IN  /\ pc = "vlans" \/ inLoop \/ (pc = "done" /\ active) =>
              \A n \in Managed(target) \ {Primary} : network[n] = "agent" \/ n \in spoiled
        /\ inLoop =>
              \A v \in target.vlans : v \in todo \/ network[v] = "agent" \/ (pc = "write" /\ v = cur)
        /\ pc = "done" /\ active /\ VlanSetup =>
              \A v \in Vlans : v \notin spoiled => (network[v] = "agent" <=> v \in target.vlans)

NMDisk ==
    LET rollingBack == pc \in {"nmreload", "connect"}
    IN  /\ pc = "ethernet" \/ (rollingBack /\ cur = "ethernet") =>
              \A n \in Managed(target) : n \in todo \/ n \notin old
        /\ pc \in {"up", "vlans", "vlan"} \/ (pc = "done" /\ active) =>
              \A n \in Managed(target) : network[n] = "agent" /\ n \notin old
        /\ pc = "done" /\ active /\ VlanSetup => \A v \in target.vlans : network[v] = "agent"

-----------------------------------------------------------------------------
(* Clients and connections.                                                *)

\* dhclient: while nothing failed, an interface has its clients or is still to get
\* them, and none that it is to keep is taken from it.
Flags == {"-4", "-6"}
Has(n, flag) == flag \in DH!ToSet(procs[n])

Leased(d) == Managed(d) \ (IF Ubuntu1804 THEN {Primary} ELSE {})

LeaseInv ==
    /\ procs \in [Nics -> Seq(Flags)]
    /\ plan \in [release : SUBSET Nics, obtain4 : SUBSET Nics, obtain6 : SUBSET Nics]
    /\ pc = "leases" => plan.release \subseteq Leased(target) \ target.v6
    /\ pc = "leases" /\ faults = 0 =>
          \A n \in Leased(target) :
              /\ n \in plan.obtain4 \/ Has(n, "-4")
              /\ n \in target.v6 => n \in plan.obtain6 \/ Has(n, "-6")
    /\ pc \in {"vlans", "vlan", "add", "set", "address"} \/ (Finished /\ active) =>
          (faults = 0 => \A n \in Leased(target) : Has(n, "-4") /\ (n \in target.v6 => Has(n, "-6")))

\* NetworkManager: the primary interface is connected, and does not depend on a
\* profile that is gone, or on one that is not whole and will not be written again;
\* a rollback that took its profile away knows that it is to connect it.
InProfile == Primary \in loaded => network[Primary] = "agent"

Secured ==
    \/ Primary \in spoiled
    \/ Primary \in links /\ (InProfile \/ (ManagePrimary /\ network[Primary] # NoFile))

ConnectionInv ==
    /\ pc \notin {"nmreload", "connect"} => Secured
    /\ pc = "nmreload" => restart = TRUE \/ (Secured /\ (Primary \in spoiled \/ InProfile))
    /\ pc = "connect" => restart = TRUE
    /\ pc \in {"connect", "up"} => InProfile
    /\ restart \in BOOLEAN

-----------------------------------------------------------------------------
NetworkInv ==
    /\ manager \in Managers /\ SetupInv
    /\ manager = "networkd" => NetworkdInv
    /\ manager = "netplan" => NetplanInv
    /\ manager = "dhclient" => DhclientInv
    /\ manager = "wicked" => WickedInv
    /\ manager = "NetworkManager" => NMInv

DiskInv ==
    /\ manager = "networkd" => NetworkdDisk
    /\ manager = "netplan" => NetplanDisk
    /\ manager = "wicked" => WickedDisk
    /\ manager = "NetworkManager" => NMDisk

HeldInv ==
    /\ manager = "dhclient" => LeaseInv
    /\ manager = "NetworkManager" => ConnectionInv

-----------------------------------------------------------------------------
\* What a descriptor is made of.
LEMMA TargetIsDescriptor ==
    ASSUME SetupInv
    PROVE  /\ target.nics \subseteq Nics /\ target.vlans \subseteq Vlans /\ Primary \in target.nics
           /\ target # None /\ Managed(target) \subseteq Nics
BY SetupAssumption DEF SetupInv, Descriptors, Managed

(* systemd-networkd.                                                       *)

\* A boot with networkd starts in its invariant.
LEMMA NetworkdInit == ND!Init => SetupInv /\ NetworkdInv
<1> SUFFICES ASSUME ND!Init PROVE SetupInv /\ NetworkdInv
  OBVIOUS
<1>1. SetupInv /\ target \in Metadata /\ seen # target /\ pc = "boot"
  BY SetupAssumption DEF ND!Init, ND!SetupInit, SetupInv
<1>2. network \in [ND!Ifaces -> ND!NetworkFiles \cup {NoFile}] /\ netdev = {}
  BY DEF ND!Init, ND!NetworkFiles, ND!UserFile
<1> QED BY <1>1, <1>2 DEF NetworkdInv, Finished

\* A write that is not finished leaves a file as it was, or empty.
LEMMA NetworkdInterrupted ==
    ASSUME NetworkdInv, ND!Interrupted
    PROVE  /\ network' \in [ND!Ifaces -> ND!NetworkFiles \cup {NoFile}] /\ netdev' \subseteq Vlans
           /\ \A i \in ND!Ifaces : network'[i] = network[i] \/ network'[i] = ND!EmptyFile
<1>1. ND!EmptyFile \in ND!NetworkFiles
  BY DEF ND!EmptyFile, ND!NetworkFiles
<1>2. \/ UNCHANGED network
      \/ \E i \in ND!Written : network' = [network EXCEPT ![i] = ND!EmptyFile]
  BY DEF ND!Interrupted
<1>3. netdev' \subseteq Vlans
  BY DEF ND!Interrupted, NetworkdInv
<1> QED BY <1>1, <1>2, <1>3 DEF NetworkdInv

\* Every step of the networkd manager, of its environment and of the setup around it
\* keeps the invariant of networkd.
LEMMA NetworkdStepKeeps == SetupInv /\ NetworkdInv /\ ND!Next => SetupInv' /\ NetworkdInv'
<1> SUFFICES ASSUME SetupInv, NetworkdInv, ND!Next PROVE SetupInv' /\ NetworkdInv'
  OBVIOUS
<1>d. /\ target.nics \subseteq Nics /\ target.vlans \subseteq Vlans /\ target # None
      /\ Managed(target) \subseteq Nics
  BY TargetIsDescriptor
<1> USE SetupAssumption, FilesAssumption, <1>d
        DEF ND!files, ND!kernel, ND!serverVars, ND!setupVars, SetupInv, Finished, Managed, ShouldManage,
            ManagePrimary, VlanSetup, ND!Fault
<1>1. CASE ND!Environment
  BY <1>1 DEF ND!Environment, ND!ChangeMetadata, ND!SwitchManager, NetworkdInv, ND!IsManaged
<1>2. CASE ND!Setup
  BY <1>2 DEF ND!Setup, ND!Start, ND!StartUnreachable, ND!SetupInterfaces, ND!DetectNetworkManager,
     ND!Finish, NetworkdInv, ND!IsManaged
<1>3. CASE ND!RollbackLeftover
  BY <1>3 DEF ND!RollbackLeftover, NetworkdInv, ND!RollbackEthernet, ND!Without, ND!ShouldManage, ND!ManagePrimary
<1>4. CASE ND!RollbackInactive
  <2>0. /\ pc = "rollback" /\ pc' = "done" /\ ~active /\ seen # target
        /\ UNCHANGED <<options, md, target, seen, active, restarts>> /\ faults' \in {faults, faults + 1}
    BY <1>4 DEF ND!RollbackInactive, NetworkdInv
  <2>1. ASSUME ND!Rollback(target.nics, TRUE) \/ ND!Rollback(target.nics, FALSE)
        PROVE  /\ netdev' \subseteq Vlans /\ network' \in [ND!Ifaces -> ND!NetworkFiles \cup {NoFile}]
               /\ \A n \in target.nics \ Absent : ~ND!IsManaged(n)' /\ n \notin old'
    <3>1. PICK removed : /\ {n \in target.nics \ Absent : ND!IsManaged(n)} \subseteq removed
                         /\ network' = ND!Without(removed)
                         /\ old' = old \ (target.nics \ Absent)
      BY <2>1 DEF ND!Rollback
    <3>2. netdev' \subseteq Vlans
      BY <2>1 DEF ND!Rollback, NetworkdInv
    <3> QED BY <3>1, <3>2 DEF ND!Without, ND!IsManaged, ND!Ifaces, NetworkdInv
  <2>2. \/ UNCHANGED faults /\ ND!Rollback(target.nics, TRUE)
        \/ faults' = faults + 1 /\ (ND!Rollback(target.nics, FALSE) \/ UNCHANGED <<network, netdev>>)
    BY <1>4 DEF ND!RollbackInactive
  <2>3. network' \in [ND!Ifaces -> ND!NetworkFiles \cup {NoFile}] /\ netdev' \subseteq Vlans
    BY <2>1, <2>2 DEF NetworkdInv
  <2>4. faults' = 0 => \A n \in target.nics \ Absent : ~ND!IsManaged(n)' /\ n \notin old'
    <3>1. CASE ND!Rollback(target.nics, TRUE)
      BY <2>1, <3>1
    <3>2. CASE faults' = faults + 1
      BY <3>2
    <3> QED BY <2>2, <3>1, <3>2
  <2>5. faults' \in Nat
    BY <2>0
  <2> QED BY <2>0, <2>3, <2>4, <2>5 DEF NetworkdInv
<1>5. CASE ND!FallbackToDefault
  BY <1>5 DEF ND!FallbackToDefault, NetworkdInv, ND!Rollback, ND!Without, ND!IsManaged
<1>6. CASE ND!WriteEthernetConfig
  <2>0. /\ pc = "ethernet" /\ seen # target
        /\ UNCHANGED <<options, md, target, seen, active, pc, faults, restarts, netdev, old, loaded>>
    BY <1>6 DEF ND!WriteEthernetConfig
  <2>1. PICK n \in todo : /\ network' = [network EXCEPT ![n] = ND!EthernetFile(n)]
                          /\ todo' = todo \ {n}
    BY <1>6 DEF ND!WriteEthernetConfig
  <2>2. n \in Nics /\ ND!EthernetFile(n) \in ND!NetworkFiles
    BY <2>0 DEF NetworkdInv, ND!EthernetFile, ND!NetworkFiles
  <2>3. network' \in [ND!Ifaces -> ND!NetworkFiles \cup {NoFile}]
    BY <2>1, <2>2 DEF NetworkdInv
  <2>4. \A m \in Managed(target) :
           \/ m \in todo'
           \/ network'[m] # NoFile /\ network'[m].matches /\ network'[m].v6 = (m \in target.v6)
    BY <2>0, <2>1, <2>2 DEF NetworkdInv, ND!EthernetFile, ND!Ifaces
  <2> QED BY <2>0, <2>1, <2>3, <2>4 DEF NetworkdInv
<1>7. CASE ND!RollbackDeprecated
  BY <1>7 DEF ND!RollbackDeprecated, NetworkdInv
<1>8. CASE ND!ReloadEthernet
  BY <1>8 DEF ND!ReloadEthernet, ND!Reload, ND!Effective, ND!Ifaces, NetworkdInv
<1>9. CASE ND!SetupVlanInterface
  BY <1>9 DEF ND!SetupVlanInterface, ND!SetupVlans, ND!VlanSetup, NetworkdInv
<1>10. CASE ND!WriteVlanNetwork
  <2>0. /\ pc = "vlan" /\ pc' = "netdev" /\ seen # target
        /\ UNCHANGED <<options, md, target, seen, active, faults, restarts, netdev, old, loaded>>
    BY <1>10 DEF ND!WriteVlanNetwork
  <2>1. PICK v \in todo : /\ network' = [network EXCEPT ![v] = ND!VlanFile]
                          /\ cur' = v /\ todo' = todo \ {v}
    BY <1>10 DEF ND!WriteVlanNetwork
  <2>2. v \in Vlans /\ v \notin Nics /\ ND!VlanFile \in ND!NetworkFiles
    BY <2>0 DEF NetworkdInv, ND!VlanFile, ND!NetworkFiles
  <2>3. /\ network' \in [ND!Ifaces -> ND!NetworkFiles \cup {NoFile}]
        /\ \A n \in Nics : network'[n] = network[n]
    BY <2>1, <2>2 DEF NetworkdInv, ND!Ifaces
  <2> QED BY <2>0, <2>1, <2>2, <2>3 DEF NetworkdInv
<1>11. CASE ND!WriteVlanNetdev
  BY <1>11 DEF ND!WriteVlanNetdev, NetworkdInv
<1>12. CASE ND!WriteVlanParent
  <2>0. /\ pc = "parent" /\ pc' = "vlan" /\ seen # target /\ cur \in Vlans
        /\ UNCHANGED <<options, md, target, seen, active, faults, restarts, todo, cur, netdev, old, loaded>>
    BY <1>12 DEF ND!WriteVlanParent, NetworkdInv
  <2> DEFINE p == Parent[cur]
             config == IF network[p] = NoFile THEN ND!EmptyFile ELSE network[p]
             new == [config EXCEPT !.vlans = @ \cup {cur}]
  <2>1. p \in ND!Ifaces /\ (network' = network \/ network' = [network EXCEPT ![p] = new])
    BY <1>12, <2>0 DEF ND!WriteVlanParent, ND!Ifaces
  <2>2. config \in ND!NetworkFiles
    BY <2>1 DEF NetworkdInv, ND!EmptyFile, ND!NetworkFiles
  <2>3. new \in ND!NetworkFiles /\ new.matches = config.matches /\ new.v6 = config.v6
    BY <2>0, <2>2 DEF ND!NetworkFiles
  <2>4. network' \in [ND!Ifaces -> ND!NetworkFiles \cup {NoFile}]
    BY <2>1, <2>3 DEF NetworkdInv
  <2>5. ASSUME NEW n \in Managed(target)
        PROVE  network'[n] # NoFile /\ network'[n].matches /\ network'[n].v6 = (n \in target.v6)
    <3>1. network[n] # NoFile /\ network[n].matches /\ network[n].v6 = (n \in target.v6) /\ n \in ND!Ifaces
      BY <2>0, <2>5 DEF NetworkdInv, ND!Ifaces
    <3>2. CASE network' = network
      BY <3>1, <3>2
    <3>3. CASE network' = [network EXCEPT ![p] = new]
      <4>1. CASE n = p
        <5>1. config = network[n] /\ network'[n] = new /\ new # NoFile
          BY <2>1, <2>3, <3>1, <3>3, <4>1 DEF NetworkdInv
        <5> QED BY <2>3, <3>1, <5>1
      <4>2. CASE n # p
        <5>1. network'[n] = network[n]
          BY <3>1, <3>3, <4>2 DEF NetworkdInv
        <5> QED BY <3>1, <5>1
      <4> QED BY <4>1, <4>2
    <3> QED BY <2>1, <3>2, <3>3
  <2> HIDE DEF p, config, new
  <2> QED BY <2>0, <2>4, <2>5 DEF NetworkdInv
<1>13. CASE ND!RemoveVlanInterfaces
  <2>0. /\ pc = "vlan" /\ seen # target
        /\ UNCHANGED <<options, md, target, seen, active, faults, restarts, network, netdev, old, loaded>>
    BY <1>13 DEF ND!RemoveVlanInterfaces
  <2>1. \/ pc' = "idle"
        \/ pc' = "prune" /\ todo' = (ND!StaleVlans(target.vlans) \X {"network"})
                                      \cup (ND!StaleNetdevs(target.vlans) \X {"netdev"})
    BY <1>13 DEF ND!RemoveVlanInterfaces
  <2>2. ND!StaleVlans(target.vlans) \cap Nics = {} /\ ND!StaleNetdevs(target.vlans) \cap Nics = {}
    BY DEF ND!StaleVlans, ND!StaleNetdevs, NetworkdInv
  <2>3. pc' = "prune" => \A f \in todo' : f[1] \notin Nics
    BY <2>1, <2>2
  <2> QED BY <2>0, <2>1, <2>3 DEF NetworkdInv
<1>14. CASE ND!RemoveVlanFile
  BY <1>14 DEF ND!RemoveVlanFile, ND!Without, ND!Ifaces, NetworkdInv
<1>15. CASE ND!ReloadVlans
  BY <1>15 DEF ND!ReloadVlans, ND!Reload, ND!Effective, ND!Ifaces, NetworkdInv
<1>16. CASE ND!Failures
  <2>1. /\ ND!Interrupted /\ pc' = "idle" /\ faults' = faults + 1 /\ active /\ seen # target
        /\ UNCHANGED <<options, md, target, seen, active, restarts>>
    BY <1>16 DEF ND!Failures, ND!WriteEthernetConfigFails, ND!ReloadEthernetFails, ND!WriteVlanFails,
       ND!RemoveVlanFileFails, ND!ReloadVlansFails, ND!StepFails, NetworkdInv
  <2> QED BY <2>1, NetworkdInterrupted DEF NetworkdInv
<1>17. CASE ND!RestartAgent \/ ND!Reboot
  <2>1. /\ ND!Interrupted /\ pc' = "boot" /\ restarts' = restarts + 1 /\ seen' = None
        /\ UNCHANGED <<options, md, target, active, faults>>
    BY <1>17 DEF ND!RestartAgent, ND!Reboot, ND!Restarting
  <2> QED BY <2>1, NetworkdInterrupted DEF NetworkdInv
<1> QED
  BY <1>1, <1>2, <1>3, <1>4, <1>5, <1>6, <1>7, <1>8, <1>9, <1>10, <1>11, <1>12, <1>13, <1>14, <1>15,
     <1>16, <1>17 DEF ND!Next, ND!Steps

-----------------------------------------------------------------------------
(* netplan.                                                                *)

\* A boot with netplan starts in its invariant.
LEMMA NetplanInit == NP!Init => SetupInv /\ NetplanInv
<1> SUFFICES ASSUME NP!Init PROVE SetupInv /\ NetplanInv
  OBVIOUS
<1>1. SetupInv /\ target \in Metadata /\ seen # target /\ pc = "boot"
  BY SetupAssumption DEF NP!Init, NP!SetupInit, SetupInv
<1>2. override \in [NP!Ifaces -> {"ipv4", "yes", "empty", NoFile}]
  BY DEF NP!Init
<1> QED BY <1>1, <1>2 DEF NP!Init, NP!files, NetplanInv, Finished, VlansOf

\* A rollback loads what it has changed, unless that fails; VLANs are not its concern.
LEMMA RollbackIsLoaded ==
    ASSUME SetupInv, NetplanInv, NEW N, NP!RollbackConfigs(N)
    PROVE  /\ override' \in [NP!Ifaces -> {"ipv4", "yes", "empty", NoFile}]
           /\ UNCHANGED vlanFile /\ faults' \in {faults, faults + 1} /\ spoiled' \in BOOLEAN
           /\ spoiled \/ applied = <<ethernet, override, vlanFile>>
                 => spoiled' \/ applied' = <<ethernet', override', vlanFile'>>
           /\ links = VlansOf(vlanFile) => links' = links
<1> USE DEF SetupInv, NetplanInv, NP!Fault, NP!files, NP!kernel
<1>1. ASSUME NP!RollbackFiles(N)
      PROVE  /\ override' \in [NP!Ifaces -> {"ipv4", "yes", "empty", NoFile}]
             /\ UNCHANGED vlanFile
  <2>1. UNCHANGED vlanFile /\ \E named : override' = [i \in NP!Ifaces |-> IF i \in named THEN NoFile ELSE override[i]]
    BY <1>1 DEF NP!RollbackFiles
  <2> QED BY <2>1
<1>2. CASE /\ NP!RollbackFiles(N) /\ UNCHANGED faults
           /\ IF NP!files' # NP!files THEN NP!Load(ethernet', override', vlanFile') ELSE UNCHANGED NP!kernel
  BY <1>1, <1>2 DEF NP!Load, VlansOf
<1>3. CASE NP!RollbackFiles(N) /\ NP!Fault /\ NP!CutShort
  BY <1>1, <1>3 DEF NP!CutShort
<1>4. CASE NP!Fault /\ UNCHANGED <<NP!files, NP!kernel>>
  BY <1>4
<1> QED BY <1>2, <1>3, <1>4 DEF NP!RollbackConfigs

\* A write that is not finished leaves a file as it was, or empty, and unread.
LEMMA NetplanInterrupted ==
    ASSUME NetplanInv, NP!Interrupted, NP!CutShort
    PROVE  /\ override' \in [NP!Ifaces -> {"ipv4", "yes", "empty", NoFile}]
           /\ vlanFile' \in {vlanFile, {}} /\ spoiled' \in BOOLEAN
           /\ spoiled' \/ applied' = <<ethernet', override', vlanFile'>>
<1>1. \/ UNCHANGED override
      \/ \E i \in todo : override' = [override EXCEPT ![i] = "empty"]
  BY DEF NP!Interrupted, NP!Truncated, NP!files
<1>2. vlanFile' \in {vlanFile, {}}
  BY DEF NP!Interrupted, NP!Truncated, NP!files
<1>3. spoiled' \in BOOLEAN /\ (spoiled' \/ applied' = <<ethernet', override', vlanFile'>>)
  BY DEF NP!CutShort, NP!files, NetplanInv
<1> QED BY <1>1, <1>2, <1>3 DEF NetplanInv

\* Every step of the netplan manager and of its environment keeps the invariant of netplan.
LEMMA NetplanStepKeeps == SetupInv /\ NetplanInv /\ NP!Next => SetupInv' /\ NetplanInv'
<1> SUFFICES ASSUME SetupInv, NetplanInv, NP!Next PROVE SetupInv' /\ NetplanInv'
  OBVIOUS
<1>d. /\ target.nics \subseteq Nics /\ target.vlans \subseteq Vlans /\ target # None
      /\ Managed(target) \subseteq Nics /\ Primary \in target.nics
  BY TargetIsDescriptor
<1> USE SetupAssumption, FilesAssumption, <1>d
        DEF NP!files, NP!kernel, NP!serverVars, NP!setupVars, SetupInv, Finished, Managed, ShouldManage,
            ManagePrimary, VlanSetup, NP!Fault
<1>1. CASE NP!Environment
  BY <1>1 DEF NP!Environment, NP!ChangeMetadata, NP!SwitchManager, NetplanInv
<1>2. CASE NP!Setup
  BY <1>2 DEF NP!Setup, NP!Start, NP!StartUnreachable, NP!SetupInterfaces, NP!DetectNetworkManager, NP!Finish, NetplanInv
<1>3. CASE NP!RollbackLeftover
  <2>1. /\ pc = "leftover" /\ pc' = (IF active THEN "ethernet" ELSE "rollback") /\ seen # target
        /\ reload' = FALSE
        /\ UNCHANGED <<options, md, target, seen, active, restarts>>
        /\ UNCHANGED <<ethernet, override, vlanFile, applied, links, spoiled, faults>> \/ NP!RollbackConfigs({Primary})
    BY <1>3 DEF NP!RollbackLeftover
  <2>2. CASE UNCHANGED <<ethernet, override, vlanFile, applied, links, spoiled, faults>>
    BY <2>1, <2>2 DEF NetplanInv
  <2>3. CASE NP!RollbackConfigs({Primary})
    <3>2. pc' \in {"ethernet", "rollback"} /\ (pc' = "ethernet" <=> active)
      BY <2>1
    <3>3. SetupInv'
      BY <2>1, <2>3, <3>2, RollbackIsLoaded
    <3>4. spoiled \/ applied = <<ethernet, override, vlanFile>>
      BY <2>1 DEF NetplanInv
    <3>5. /\ override' \in [NP!Ifaces -> {"ipv4", "yes", "empty", NoFile}]
          /\ UNCHANGED vlanFile /\ faults' \in {faults, faults + 1} /\ spoiled' \in BOOLEAN
          /\ spoiled' \/ applied' = <<ethernet', override', vlanFile'>>
          /\ links = VlansOf(vlanFile) => links' = links
      BY <2>3, <3>4, RollbackIsLoaded
    <3>6. faults' = 0 /\ restarts' = 0 => links' = VlansOf(vlanFile')
      BY <2>1, <3>5 DEF NetplanInv
    <3> QED BY <2>1, <3>2, <3>3, <3>5, <3>6 DEF NetplanInv
  <2> QED BY <2>1, <2>2, <2>3
<1>4. CASE NP!RollbackInactive
  <2>1. /\ pc = "rollback" /\ pc' = "done" /\ ~active /\ seen # target
        /\ NP!RollbackConfigs(target.nics)
        /\ UNCHANGED <<options, md, target, seen, active, restarts, reload>>
    BY <1>4 DEF NP!RollbackInactive, NetplanInv
  <2> QED BY <2>1, RollbackIsLoaded DEF NetplanInv
<1>5. CASE NP!FallbackToDefault
  <2>1. /\ pc = "fallback" /\ pc' = "idle" /\ seen # target
        /\ NP!RollbackConfigs(Nics)
        /\ UNCHANGED <<options, md, target, seen, active, restarts, reload>>
    BY <1>5 DEF NP!FallbackToDefault
  <2> QED BY <2>1, RollbackIsLoaded DEF NetplanInv
<1>6. CASE NP!WriteEthernetDropin
  BY <1>6 DEF NP!WriteEthernetDropin, NP!EthernetDropin, VlansOf, NetplanInv
<1>7. CASE NP!WriteOverride
  <2>1. /\ pc \in {"overrides", "vlanOverrides"} /\ seen # target
        /\ UNCHANGED <<options, md, target, seen, active, pc, faults, restarts, ethernet, vlanFile, applied, links, spoiled>>
    BY <1>7 DEF NP!WriteOverride
  <2>2. PICK i \in todo : /\ override' = [override EXCEPT ![i] = NP!Dhcp(target, i)]
                          /\ reload' = (reload \/ override[i] # NP!Dhcp(target, i))
    BY <1>7 DEF NP!WriteOverride
  <2>3. NP!Dhcp(target, i) \in {"ipv4", "yes"}
    BY DEF NP!Dhcp
  <2>4. override' \in [NP!Ifaces -> {"ipv4", "yes", "empty", NoFile}] /\ reload' \in BOOLEAN
    BY <2>2, <2>3 DEF NetplanInv
  <2>5. reload' \/ (~reload /\ override' = override)
    BY <2>2 DEF NetplanInv
  <2>6. reload => reload'
    BY <2>2
  <2> QED BY <2>1, <2>4, <2>5, <2>6 DEF NetplanInv
<1>8. CASE NP!ReloadConfigs
  BY <1>8 DEF NP!ReloadConfigs, NP!Load, VlansOf, NetplanInv
<1>9. CASE NP!SetupVlanInterface
  BY <1>9 DEF NP!SetupVlanInterface, NP!SetupVlans, NP!VlanSetup, VlansOf, NetplanInv
<1>10. CASE NP!DeleteVlans
  BY <1>10 DEF NP!DeleteVlans, VlansOf, NetplanInv
<1>11. CASE NP!UpdateVlanFile
  <2>1. /\ pc = "vlanYaml" /\ pc' = "vlanDirs" /\ seen # target /\ active /\ vlanFile \subseteq Vlans
        /\ vlanFile' = (IF vlanFile \subseteq todo THEN NoFile ELSE vlanFile \ todo)
        /\ UNCHANGED <<options, md, target, seen, active, faults, restarts, override, links, reload, spoiled>>
    BY <1>11 DEF NP!UpdateVlanFile, NetplanInv
  <2>2. VlansOf(vlanFile') = vlanFile \ todo /\ (vlanFile' = NoFile \/ vlanFile' \subseteq Vlans)
    BY <2>1 DEF VlansOf
  <2> QED BY <2>1, <2>2 DEF NetplanInv
<1>12. CASE NP!RemoveVlanDirs
  BY <1>12 DEF NP!RemoveVlanDirs, VlansOf, NetplanInv
<1>13. CASE NP!WriteVlanDropin
  BY <1>13 DEF NP!WriteVlanDropin, VlansOf, NetplanInv
<1>14. CASE NP!SetupFails
  <2>1. /\ NP!Interrupted /\ NP!CutShort /\ pc' = "idle" /\ faults' = faults + 1 /\ active /\ seen # target
        /\ UNCHANGED <<options, md, target, seen, active, restarts, reload>>
    BY <1>14 DEF NP!SetupFails, NP!StepFails, NetplanInv
  <2> QED BY <2>1, NetplanInterrupted DEF NetplanInv
<1>15. CASE NP!RestartAgent \/ NP!Reboot
  <2>1. /\ pc' = "boot" /\ restarts' = restarts + 1 /\ seen' = None
        /\ UNCHANGED <<options, md, target, active, faults, reload>>
    BY <1>15 DEF NP!RestartAgent, NP!Reboot, NP!Restarting
  <2>2. CASE NP!Interrupted /\ NP!CutShort
    BY <2>1, <2>2, NetplanInterrupted DEF NetplanInv
  <2>3. CASE NP!Reboot
    <3>1. /\ override' \in [NP!Ifaces -> {"ipv4", "yes", "empty", NoFile}]
          /\ vlanFile' = NoFile /\ spoiled' = FALSE /\ applied' = <<ethernet', override', vlanFile'>>
      BY <2>3 DEF NP!Reboot
    <3>2. SetupInv' /\ ~Finished' /\ restarts' # 0
      BY <2>1
    <3> QED BY <2>1, <3>1, <3>2 DEF NetplanInv
  <2> QED BY <1>15, <2>2, <2>3 DEF NP!RestartAgent
<1> QED
  BY <1>1, <1>2, <1>3, <1>4, <1>5, <1>6, <1>7, <1>8, <1>9, <1>10, <1>11, <1>12, <1>13, <1>14, <1>15 DEF NP!Next, NP!Steps

-----------------------------------------------------------------------------
(* dhclient.                                                               *)

\* A boot with dhclient starts in its invariant.
LEMMA DhclientInit == DH!Init => SetupInv /\ DhclientInv
<1> SUFFICES ASSUME DH!Init PROVE SetupInv /\ DhclientInv
  OBVIOUS
<1>1. SetupInv /\ target \in Metadata /\ seen # target /\ pc = "boot"
  BY SetupAssumption DEF DH!Init, DH!SetupInit, SetupInv
<1> QED BY <1>1 DEF DH!Init, DhclientInv, Finished

\* Every step of the dhclient manager and of its environment keeps the invariant of dhclient.
LEMMA DhclientStepKeeps == SetupInv /\ DhclientInv /\ DH!Next => SetupInv' /\ DhclientInv'
<1> SUFFICES ASSUME SetupInv, DhclientInv, DH!Next PROVE SetupInv' /\ DhclientInv'
  OBVIOUS
<1>d. /\ target.nics \subseteq Nics /\ target.vlans \subseteq Vlans /\ target # None
      /\ Managed(target) \subseteq Nics /\ Primary \in target.nics
  BY TargetIsDescriptor
<1> USE SetupAssumption, FilesAssumption, <1>d
        DEF DH!system, DH!loop, DH!serverVars, DH!setupVars, SetupInv, Finished, Managed, ShouldManage,
            ManagePrimary, VlanSetup, DH!Fault
<1>1. CASE DH!Environment
  BY <1>1 DEF DH!Environment, DH!ChangeMetadata, DH!SwitchManager, DhclientInv
<1>2. CASE DH!Setup
  BY <1>2 DEF DH!Setup, DH!Start, DH!StartUnreachable, DH!SetupInterfaces, DH!DetectNetworkManager, DH!Finish, DhclientInv
<1>3. CASE DH!RollbackLeftover
  BY <1>3 DEF DH!RollbackLeftover, DH!RollbackNics, DhclientInv
<1>4. CASE DH!RollbackInactive
  BY <1>4 DEF DH!RollbackInactive, DH!Rollback, DhclientInv
<1>5. CASE DH!FallbackToDefault
  BY <1>5 DEF DH!FallbackToDefault, DH!Rollback, DhclientInv
<1>6. CASE DH!PartitionInterfaces
  BY <1>6 DEF DH!PartitionInterfaces, DhclientInv
<1>7. CASE DH!ReleaseIpv6 \/ DH!ObtainIpv4 \/ DH!ObtainIpv6
  <2>1. /\ pc = "leases" /\ faults' \in {faults, faults + 1}
        /\ UNCHANGED <<options, md, target, seen, active, pc, restarts, links>>
    BY <1>7, Zenon DEF DH!ReleaseIpv6, DH!ObtainIpv4, DH!ObtainIpv6
  <2> QED BY <2>1 DEF DhclientInv
<1>8. CASE DH!EthernetDone
  BY <1>8 DEF DH!EthernetDone, DhclientInv
<1>9. CASE DH!SetupVlanInterface
  BY <1>9 DEF DH!SetupVlanInterface, DH!SetupVlans, DH!VlanSetup, DhclientInv
<1>10. CASE DH!StartVlan
  BY <1>10 DEF DH!StartVlan, DhclientInv
<1>11. CASE DH!ConfigureVlan
  BY <1>11 DEF DH!ConfigureVlan, DhclientInv
<1>12. CASE DH!RemoveVlanInterfaces
  BY <1>12 DEF DH!RemoveVlanInterfaces, DhclientInv
<1>13. CASE DH!StepFails
  BY <1>13 DEF DH!StepFails, DhclientInv
<1>14. CASE DH!RestartAgent \/ DH!Reboot
  BY <1>14 DEF DH!RestartAgent, DH!Reboot, DH!Restarting, DhclientInv
<1> QED
  BY <1>1, <1>2, <1>3, <1>4, <1>5, <1>6, <1>7, <1>8, <1>9, <1>10, <1>11, <1>12, <1>13, <1>14 DEF DH!Next, DH!Steps

-----------------------------------------------------------------------------
(* wicked.                                                                 *)

\* A boot with wicked starts in its invariant.
LEMMA WickedInit == WI!Init => SetupInv /\ WickedInv
<1> SUFFICES ASSUME WI!Init PROVE SetupInv /\ WickedInv
  OBVIOUS
<1>1. SetupInv /\ target \in Metadata /\ seen # target /\ pc = "boot"
  BY SetupAssumption DEF WI!Init, WI!SetupInit, SetupInv
<1>2. /\ network \in [WI!Ifaces -> WI!Files] /\ loaded = {}
      /\ \A i \in WI!Ifaces : network[i] = (IF i \in UserIfaces \cup {Primary} THEN "owner" ELSE NoFile)
  BY DEF WI!Init, WI!Files
<1> QED BY <1>1, <1>2, FilesAssumption DEF WickedInv, Finished, Agrees

\* A write that is not finished may leave a new file empty; the owner's files are
\* never written.
LEMMA WickedInterrupted ==
    ASSUME WickedInv, WI!Interrupted
    PROVE  /\ network' \in [WI!Ifaces -> WI!Files]
           /\ \A i \in WI!Ifaces : network'[i] = "owner" <=> i \in UserIfaces \cup {Primary}
           /\ WI!CutShort => \A i \in WI!Ifaces : i \in spoiled' \/ Agrees(i)'
<1>1. \/ UNCHANGED network
      \/ \E n \in todo : network[n] = NoFile /\ network' = [network EXCEPT ![n] = "empty"]
  BY DEF WI!Interrupted
<1>2. /\ network' \in [WI!Ifaces -> WI!Files]
      /\ \A i \in WI!Ifaces : network'[i] = "owner" <=> i \in UserIfaces \cup {Primary}
  BY <1>1, FilesAssumption DEF WickedInv, WI!Files
<1>3. WI!CutShort => \A i \in WI!Ifaces : i \in spoiled' \/ Agrees(i)'
  BY DEF WI!CutShort, WI!Differing, Agrees
<1> QED BY <1>2, <1>3

\* Every step of the wicked manager and of its environment keeps the invariant of wicked.
LEMMA WickedStepKeeps == SetupInv /\ WickedInv /\ WI!Next => SetupInv' /\ WickedInv'
<1> SUFFICES ASSUME SetupInv, WickedInv, WI!Next PROVE SetupInv' /\ WickedInv'
  OBVIOUS
<1>d. /\ target.nics \subseteq Nics /\ target.vlans \subseteq Vlans /\ target # None
      /\ Managed(target) \subseteq Nics /\ Primary \in target.nics
  BY TargetIsDescriptor
<1> USE SetupAssumption, FilesAssumption, <1>d
        DEF WI!loop, WI!serverVars, WI!setupVars, SetupInv, Finished, Managed, ShouldManage,
            ManagePrimary, VlanSetup, WI!Fault
<1>1. CASE WI!Environment
  BY <1>1 DEF WI!Environment, WI!ChangeMetadata, WI!SwitchManager, Agrees, WickedInv
<1>2. CASE WI!Setup
  BY <1>2 DEF WI!Setup, WI!Start, WI!StartUnreachable, WI!SetupInterfaces, WI!DetectNetworkManager, WI!Finish, Agrees, WickedInv
<1>3. CASE WI!RollbackLeftover
  BY <1>3 DEF WI!RollbackLeftover, WI!ShouldManage, WI!ManagePrimary, Agrees, WickedInv
<1>4. CASE WI!RollbackInactive
  BY <1>4 DEF WI!RollbackInactive, WI!Rollback, WI!Files, WI!Ifaces, Agrees, WickedInv
<1>5. CASE WI!FallbackToDefault
  BY <1>5 DEF WI!FallbackToDefault, WI!Rollback, WI!Files, WI!Ifaces, Agrees, WickedInv
<1>6. CASE WI!WriteEthernetConfig
  BY <1>6 DEF WI!WriteEthernetConfig, WI!Files, WI!Ifaces, Agrees, WickedInv
<1>7. CASE WI!WriteEthernetConfigFails
  <2>1. /\ WI!Interrupted /\ WI!CutShort /\ pc' = "idle" /\ faults' = faults + 1 /\ seen # target
        /\ UNCHANGED <<options, md, target, seen, active, restarts, loaded>>
    BY <1>7 DEF WI!WriteEthernetConfigFails
  <2> QED BY <2>1, WickedInterrupted DEF WickedInv
<1>8. CASE WI!IfreloadEthernet
  BY <1>8 DEF WI!IfreloadEthernet, WI!Files, WI!Ifaces, Agrees, WickedInv
<1>9. CASE WI!StepFails
  BY <1>9 DEF WI!StepFails, WI!CutShort, WI!Differing, WI!Files, WI!Ifaces, Agrees, WickedInv
<1>10. CASE WI!SetupVlanInterface
  BY <1>10 DEF WI!SetupVlanInterface, WI!SetupVlans, WI!VlanSetup, Agrees, WickedInv
<1>11. CASE WI!CreateVlanFile
  BY <1>11 DEF WI!CreateVlanFile, WI!Files, WI!Ifaces, Agrees, WickedInv
<1>12. CASE WI!WriteVlanFile
  BY <1>12 DEF WI!WriteVlanFile, WI!Files, WI!Ifaces, Agrees, WickedInv
<1>13. CASE WI!IfupVlan
  BY <1>13 DEF WI!IfupVlan, WI!Files, WI!Ifaces, Agrees, WickedInv
<1>14. CASE WI!RemoveVlanFile
  BY <1>14 DEF WI!RemoveVlanFile, WI!Files, WI!Ifaces, Agrees, WickedInv
<1>15. CASE WI!IfreloadVlan
  BY <1>15 DEF WI!IfreloadVlan, WI!Files, WI!Ifaces, Agrees, WickedInv
<1>16. CASE WI!RestartAgent
  <2>1. /\ WI!Interrupted /\ WI!CutShort /\ pc' = "boot" /\ restarts' = restarts + 1 /\ seen' = None
        /\ UNCHANGED <<options, md, target, active, faults, loaded>>
    BY <1>16 DEF WI!RestartAgent, WI!Restarting
  <2> QED BY <2>1, WickedInterrupted DEF WickedInv
<1>17. CASE WI!Reboot
  <2>1. /\ WI!Interrupted /\ pc' = "boot" /\ restarts' = restarts + 1 /\ seen' = None
        /\ UNCHANGED <<options, md, target, active, faults>>
    BY <1>17 DEF WI!Reboot, WI!Restarting
  <2>2. \A i \in WI!Ifaces : i \in spoiled' \/ Agrees(i)'
    BY <1>17 DEF WI!Reboot, Agrees
  <2> QED BY <2>1, <2>2, WickedInterrupted DEF WickedInv
<1> QED
  BY <1>1, <1>2, <1>3, <1>4, <1>5, <1>6, <1>7, <1>8, <1>9, <1>10, <1>11, <1>12, <1>13, <1>14, <1>15, <1>16, <1>17 DEF WI!Next, WI!Steps

-----------------------------------------------------------------------------
(* NetworkManager.                                                         *)

\* A boot with NetworkManager starts in its invariant.
LEMMA NMInit == NM!Init => SetupInv /\ NMInv
<1> SUFFICES ASSUME NM!Init PROVE SetupInv /\ NMInv
  OBVIOUS
<1>1. SetupInv /\ target \in Metadata /\ seen # target /\ pc = "boot"
  BY SetupAssumption DEF NM!Init, NM!SetupInit, SetupInv
<1>2. network \in [NM!Ifaces -> NM!Files]
  BY DEF NM!Init, NM!Files
<1> QED BY <1>1, <1>2 DEF NMInv, Finished

\* A write that is not finished changes one profile, the primary's only if the
\* agent manages it, and never takes one away.
LEMMA NMInterrupted ==
    ASSUME SetupInv, NMInv, NM!Interrupted
    PROVE  /\ network' \in [NM!Ifaces -> NM!Files]
           /\ \/ network'[Primary] = network[Primary]
              \/ ManagePrimary /\ network'[Primary] # NoFile
<1>1. CASE UNCHANGED network
  BY <1>1 DEF NMInv
<1>2. CASE \E i \in todo, f \in {"empty", "open", "agent"} :
              pc \in {"ethernet", "vlan"} /\ network' = [network EXCEPT ![i] = f]
  <2>1. PICK i \in todo, f \in {"empty", "open", "agent"} :
              pc \in {"ethernet", "vlan"} /\ network' = [network EXCEPT ![i] = f]
    BY <1>2
  <2>2. f \in NM!Files /\ f # NoFile /\ network \in [NM!Ifaces -> NM!Files] /\ Primary \in NM!Ifaces
    BY FilesAssumption, SetupAssumption DEF NM!Files, NM!Ifaces, NMInv
  <2>3. i = Primary => ManagePrimary
    BY <2>1, SetupAssumption DEF NMInv, Managed, ShouldManage
  <2> QED BY <2>1, <2>2, <2>3
<1> QED BY <1>1, <1>2 DEF NM!Interrupted

\* Every step of the NetworkManager manager and of its environment keeps its invariant.
LEMMA NMStepKeeps == SetupInv /\ NMInv /\ NM!Next => SetupInv' /\ NMInv'
<1> SUFFICES ASSUME SetupInv, NMInv, NM!Next PROVE SetupInv' /\ NMInv'
  OBVIOUS
<1>d. /\ target.nics \subseteq Nics /\ target.vlans \subseteq Vlans /\ target # None
      /\ Managed(target) \subseteq Nics /\ Primary \in target.nics
  BY TargetIsDescriptor
<1> USE SetupAssumption, FilesAssumption, <1>d
        DEF NM!files, NM!daemon, NM!serverVars, NM!setupVars, SetupInv, Finished, Managed, ShouldManage,
            ManagePrimary, VlanSetup, NM!Fault
<1>1. CASE NM!Environment
  BY <1>1 DEF NM!Environment, NM!ChangeMetadata, NM!SwitchManager, NMInv
<1>2. CASE NM!Setup
  BY <1>2 DEF NM!Setup, NM!Start, NM!StartUnreachable, NM!SetupInterfaces, NM!DetectNetworkManager, NM!Finish, NMInv
<1>3. CASE NM!RollbackLeftover
  BY <1>3 DEF NM!RollbackLeftover, NM!RemoveInterfaces, NM!Files, NM!Ifaces, NM!ShouldManage, NM!ManagePrimary, NMInv
<1>4. CASE NM!RollbackInactive
  BY <1>4 DEF NM!RollbackInactive, NM!RemoveInterfaces, NM!Files, NM!Ifaces, NMInv
<1>5. CASE NM!FallbackToDefault
  BY <1>5 DEF NM!FallbackToDefault, NM!RemoveInterfaces, NM!Files, NM!Ifaces, NMInv
<1>6. CASE NM!RollbackReload
  BY <1>6 DEF NM!RollbackReload, NM!Reload, NM!Ifaces, NMInv
<1>7. CASE NM!DeviceConnect
  BY <1>7 DEF NM!DeviceConnect, NMInv
<1>8. CASE NM!WriteConfig
  BY <1>8 DEF NM!WriteConfig, NM!Files, NM!Ifaces, NMInv
<1>9. CASE NM!ReloadEthernet
  BY <1>9 DEF NM!ReloadEthernet, NM!Reload, NM!Ifaces, NM!ShouldManage, NM!ManagePrimary, NMInv
<1>10. CASE NM!ConnUp
  BY <1>10 DEF NM!ConnUp, NMInv
<1>11. CASE NM!SetupVlanInterface
  <2>1. /\ pc = "vlans" /\ pc' \in {"done", "vlan", "idle"} /\ seen # target /\ active
        /\ pc' = "done" => ~VlanSetup \/ target.vlans = {}
        /\ todo' = target.vlans
        /\ UNCHANGED <<options, md, target, seen, active, faults, restarts, network, loaded, links, cur>>
    BY <1>11 DEF NM!SetupVlanInterface, NM!SetupVlans, NM!VlanSetup, NMInv
  <2> QED BY <2>1 DEF NMInv
<1>12. CASE NM!WriteVlanConfig
  BY <1>12 DEF NM!WriteVlanConfig, NM!Files, NM!Ifaces, NMInv
<1>13. CASE NM!ReloadVlans
  BY <1>13 DEF NM!ReloadVlans, NM!Reload, NM!Ifaces, NMInv
<1>14. CASE NM!RollbackFails
  BY <1>14 DEF NM!RollbackFails, NMInv
<1>15. CASE NM!WriteConfigFails
  <2>1. /\ NM!Interrupted /\ pc' = "idle" /\ faults' = faults + 1 /\ seen # target /\ pc \in {"ethernet", "vlan"}
        /\ UNCHANGED <<options, md, target, seen, active, restarts>>
    BY <1>15 DEF NM!WriteConfigFails
  <2> QED BY <2>1, NMInterrupted DEF NMInv
<1>16. CASE NM!StepFails
  BY <1>16 DEF NM!StepFails, NMInv
<1>17. CASE NM!RestartAgent \/ NM!Reboot
  <2>1. /\ NM!Interrupted /\ pc' = "boot" /\ restarts' = restarts + 1 /\ seen' = None
        /\ UNCHANGED <<options, md, target, active, faults>>
    BY <1>17 DEF NM!RestartAgent, NM!Reboot, NM!Restarting
  <2> QED BY <2>1, NMInterrupted DEF NMInv
<1> QED
  BY <1>1, <1>2, <1>3, <1>4, <1>5, <1>6, <1>7, <1>8, <1>9, <1>10, <1>11, <1>12, <1>13, <1>14, <1>15, <1>16, <1>17 DEF NM!Next, NM!Steps, NM!Failures

-----------------------------------------------------------------------------
(* What is on disk.                                                        *)

\* Nothing is claimed of NetworkManager's files before the first setup.
LEMMA NMDiskInit == NM!Init => NMDisk
BY SetupAssumption, FilesAssumption DEF NM!Init, NM!SetupInit, NMDisk, NM!Ifaces

\* writeNetworkManagerConfigs() makes the connection of one interface after another what
\* the descriptor asks for, and no other step of a setup changes one that is written.
LEMMA NMDiskKept == SetupInv /\ NMInv /\ NMDisk /\ NM!Next => NMDisk'
<1> SUFFICES ASSUME SetupInv, NMInv, NMDisk, NM!Next PROVE NMDisk'
  OBVIOUS
<1>d. /\ target.nics \subseteq Nics /\ target.vlans \subseteq Vlans
      /\ Managed(target) \subseteq Nics /\ Primary \in target.nics
  BY TargetIsDescriptor
<1> USE SetupAssumption, FilesAssumption, <1>d
        DEF NM!files, NM!daemon, NM!serverVars, NM!setupVars, Managed, ShouldManage, ManagePrimary, VlanSetup
<1>1. CASE NM!Environment
  BY <1>1 DEF NM!Environment, NM!ChangeMetadata, NM!SwitchManager, NMInv, NMDisk
<1>2. CASE NM!Setup
  BY <1>2 DEF NM!Setup, NM!Start, NM!StartUnreachable, NM!SetupInterfaces, NM!DetectNetworkManager, NM!Finish, NMInv, NMDisk
<1>3. CASE NM!RollbackLeftover
  BY <1>3 DEF NM!RollbackLeftover, NM!RemoveInterfaces, NM!ShouldManage, NM!ManagePrimary, NMInv, NMDisk
<1>4. CASE NM!RollbackInactive
  BY <1>4 DEF NM!RollbackInactive, NM!RemoveInterfaces, NMInv, NMDisk
<1>5. CASE NM!FallbackToDefault
  BY <1>5 DEF NM!FallbackToDefault, NM!RemoveInterfaces, NMInv, NMDisk
<1>6. CASE NM!RollbackReload
  BY <1>6 DEF NM!RollbackReload, NMInv, NMDisk
<1>7. CASE NM!DeviceConnect
  BY <1>7 DEF NM!DeviceConnect, NMInv, NMDisk
<1>8. CASE NM!WriteConfig
  BY <1>8 DEF NM!WriteConfig, NM!Files, NM!Ifaces, NMInv, NMDisk
<1>9. CASE NM!ReloadEthernet
  BY <1>9 DEF NM!ReloadEthernet, NMInv, NMDisk
<1>10. CASE NM!ConnUp
  BY <1>10 DEF NM!ConnUp, NMInv, NMDisk
<1>11. CASE NM!SetupVlanInterface
  BY <1>11 DEF NM!SetupVlanInterface, NM!SetupVlans, NM!VlanSetup, NMInv, NMDisk
<1>12. CASE NM!WriteVlanConfig
  BY <1>12 DEF NM!WriteVlanConfig, NM!Files, NM!Ifaces, NMInv, NMDisk
<1>13. CASE NM!ReloadVlans
  BY <1>13 DEF NM!ReloadVlans, NMInv, NMDisk
<1>14. CASE NM!RollbackFails
  BY <1>14 DEF NM!RollbackFails, NMInv, NMDisk
<1>15. CASE NM!WriteConfigFails
  BY <1>15 DEF NM!WriteConfigFails, NMInv, NMDisk
<1>16. CASE NM!StepFails
  BY <1>16 DEF NM!StepFails, NMInv, NMDisk
<1>17. CASE NM!RestartAgent \/ NM!Reboot
  BY <1>17 DEF NM!RestartAgent, NM!Reboot, NM!Restarting, NMInv, NMDisk
<1> QED
  BY <1>1, <1>2, <1>3, <1>4, <1>5, <1>6, <1>7, <1>8, <1>9, <1>10, <1>11, <1>12, <1>13, <1>14, <1>15, <1>16, <1>17 DEF NM!Next, NM!Steps, NM!Failures

\* Nothing is claimed of wicked's files before the first setup.
LEMMA WickedDiskInit == WI!Init => WickedDisk
BY SetupAssumption, FilesAssumption DEF WI!Init, WI!SetupInit, WickedDisk, WI!Ifaces

\* writeEthernetConfigs() and SetupVlanInterface() make wicked's files what the descriptor
\* asks for, one interface after another.
LEMMA WickedDiskKept == SetupInv /\ WickedInv /\ WickedDisk /\ WI!Next => WickedDisk'
<1> SUFFICES ASSUME SetupInv, WickedInv, WickedDisk, WI!Next PROVE WickedDisk'
  OBVIOUS
<1>d. /\ target.nics \subseteq Nics /\ target.vlans \subseteq Vlans
      /\ Managed(target) \subseteq Nics /\ Primary \in target.nics
  BY TargetIsDescriptor
<1> USE SetupAssumption, FilesAssumption, <1>d
        DEF WI!loop, WI!serverVars, WI!setupVars, Managed, ShouldManage, ManagePrimary, VlanSetup
<1>1. CASE WI!Environment
  BY <1>1 DEF WI!Environment, WI!ChangeMetadata, WI!SwitchManager, WickedInv, WickedDisk
<1>2. CASE WI!Setup
  BY <1>2 DEF WI!Setup, WI!Start, WI!StartUnreachable, WI!SetupInterfaces, WI!DetectNetworkManager, WI!Finish, WickedInv, WickedDisk
<1>3. CASE WI!RollbackLeftover
  BY <1>3 DEF WI!RollbackLeftover, WickedInv, WickedDisk
<1>4. CASE WI!RollbackInactive
  BY <1>4 DEF WI!RollbackInactive, WickedInv, WickedDisk
<1>5. CASE WI!FallbackToDefault
  BY <1>5 DEF WI!FallbackToDefault, WickedInv, WickedDisk
<1>6. CASE WI!WriteEthernetConfig
  BY <1>6 DEF WI!WriteEthernetConfig, WickedInv, WickedDisk
<1>7. CASE WI!WriteEthernetConfigFails
  BY <1>7 DEF WI!WriteEthernetConfigFails, WickedInv, WickedDisk
<1>8. CASE WI!IfreloadEthernet
  BY <1>8 DEF WI!IfreloadEthernet, WI!Files, WI!Ifaces, Agrees, WickedInv, WickedDisk
<1>9. CASE WI!StepFails
  BY <1>9 DEF WI!StepFails, WickedInv, WickedDisk
<1>10. CASE WI!SetupVlanInterface
  BY <1>10 DEF WI!SetupVlanInterface, WI!SetupVlans, WI!VlanSetup, WickedInv, WickedDisk
<1>11. CASE WI!CreateVlanFile
  BY <1>11 DEF WI!CreateVlanFile, WI!Files, WI!Ifaces, WickedInv, WickedDisk
<1>12. CASE WI!WriteVlanFile
  BY <1>12 DEF WI!WriteVlanFile, WI!Files, WI!Ifaces, WickedInv, WickedDisk
<1>13. CASE WI!IfupVlan
  BY <1>13 DEF WI!IfupVlan, WI!Files, WI!Ifaces, WickedInv, WickedDisk
<1>14. CASE WI!RemoveVlanFile
  BY <1>14 DEF WI!RemoveVlanFile, WI!Files, WI!Ifaces, WickedInv, WickedDisk
<1>15. CASE WI!IfreloadVlan
  BY <1>15 DEF WI!IfreloadVlan, WickedInv, WickedDisk
<1>16. CASE WI!RestartAgent \/ WI!Reboot
  BY <1>16 DEF WI!RestartAgent, WI!Reboot, WI!Restarting, WickedInv, WickedDisk
<1> QED
  BY <1>1, <1>2, <1>3, <1>4, <1>5, <1>6, <1>7, <1>8, <1>9, <1>10, <1>11, <1>12, <1>13, <1>14, <1>15, <1>16 DEF WI!Next, WI!Steps

\* A fault is not forgotten.
LEMMA FaultsCount ==
    ASSUME SetupInv, faults' \in {faults, faults + 1}, UNCHANGED restarts
    PROVE  faults + restarts > 0 => faults' + restarts' > 0
<1>1. faults \in Nat /\ restarts \in Nat /\ restarts' = restarts
  BY DEF SetupInv
<1>2. CASE faults' = faults
  BY <1>1, <1>2
<1>3. CASE faults' = faults + 1
  BY <1>1, <1>3
<1> QED BY <1>2, <1>3

\* Nothing is claimed of netplan's drop-ins before the first setup.
LEMMA NetplanDiskInit == NP!Init => NetplanDisk
BY SetupAssumption, FilesAssumption DEF NP!Init, NP!SetupInit, NetplanDisk, NP!Ifaces

\* The drop-ins of netplan are what the descriptor asks for once each is written.
LEMMA NetplanDiskKept == SetupInv /\ NetplanInv /\ NetplanDisk /\ NP!Next => NetplanDisk'
<1> SUFFICES ASSUME SetupInv, NetplanInv, NetplanDisk, NP!Next PROVE NetplanDisk'
  OBVIOUS
<1>d. /\ target.nics \subseteq Nics /\ target.vlans \subseteq Vlans
      /\ Managed(target) \subseteq Nics /\ Primary \in target.nics
  BY TargetIsDescriptor
<1> USE SetupAssumption, FilesAssumption, <1>d
        DEF NP!files, NP!kernel, NP!serverVars, NP!setupVars, Managed, ShouldManage, ManagePrimary, VlanSetup,
            SetupInv
<1>1. CASE NP!Environment
  BY <1>1 DEF NP!Environment, NP!ChangeMetadata, NP!SwitchManager, NP!Dhcp, NetplanInv, NetplanDisk
<1>2. CASE NP!Setup
  <2>1. /\ pc' \in {"idle", "fallback", "leftover"} /\ UNCHANGED <<vlanFile, restarts>>
        /\ faults' \in {faults, faults + 1}
    BY <1>2 DEF NP!Setup, NP!Start, NP!StartUnreachable, NP!SetupInterfaces, NP!Finish, NP!Fault
  <2>f. faults + restarts > 0 => faults' + restarts' > 0
    BY <2>1, FaultsCount
  <2> HIDE DEF SetupInv
  <2> QED BY <2>1, <2>f DEF NetplanDisk
<1>3. CASE NP!RollbackLeftover
  <2>1. NP!RollbackConfigs({Primary}) \/ UNCHANGED <<NP!files, NP!kernel, faults>>
    BY <1>3 DEF NP!RollbackLeftover
  <2>2. UNCHANGED vlanFile /\ faults' \in {faults, faults + 1}
    BY <2>1, RollbackIsLoaded
  <2>3. pc' \in {"ethernet", "rollback"} /\ UNCHANGED <<active, restarts>>
    BY <1>3 DEF NP!RollbackLeftover, NetplanInv
  <2>f. faults + restarts > 0 => faults' + restarts' > 0
    BY <2>2, <2>3, FaultsCount
  <2> HIDE DEF SetupInv
  <2> QED BY <2>2, <2>3, <2>f DEF NetplanDisk
<1>4. CASE NP!RollbackInactive
  <2>1. NP!RollbackConfigs(target.nics)
    BY <1>4 DEF NP!RollbackInactive
  <2>2. UNCHANGED vlanFile /\ faults' \in {faults, faults + 1}
    BY <2>1, RollbackIsLoaded
  <2>3. pc' = "done" /\ ~active /\ UNCHANGED <<active, restarts>>
    BY <1>4 DEF NP!RollbackInactive, NetplanInv
  <2>f. faults + restarts > 0 => faults' + restarts' > 0
    BY <2>2, <2>3, FaultsCount
  <2> HIDE DEF SetupInv
  <2> QED BY <2>2, <2>3, <2>f DEF NetplanDisk
<1>5. CASE NP!FallbackToDefault
  <2>1. NP!RollbackConfigs(Nics)
    BY <1>5 DEF NP!FallbackToDefault
  <2>2. UNCHANGED vlanFile /\ faults' \in {faults, faults + 1}
    BY <2>1, RollbackIsLoaded
  <2>3. pc' = "idle" /\ UNCHANGED <<active, restarts>>
    BY <1>5 DEF NP!FallbackToDefault, NetplanInv
  <2>f. faults + restarts > 0 => faults' + restarts' > 0
    BY <2>2, <2>3, FaultsCount
  <2> HIDE DEF SetupInv
  <2> QED BY <2>2, <2>3, <2>f DEF NetplanDisk
<1>6. CASE NP!WriteEthernetDropin
  BY <1>6 DEF NP!WriteEthernetDropin, NP!EthernetDropin, NP!ShouldManage, NP!ManagePrimary, NetplanInv, NetplanDisk
<1>7. CASE NP!WriteOverride
  BY <1>7 DEF NP!WriteOverride, NP!Dhcp, NP!Ifaces, NetplanInv, NetplanDisk
<1>8. CASE NP!ReloadConfigs
  BY <1>8 DEF NP!ReloadConfigs, NP!Dhcp, NetplanInv, NetplanDisk
<1>9. CASE NP!SetupVlanInterface
  BY <1>9 DEF NP!SetupVlanInterface, NP!SetupVlans, NP!VlanSetup, NP!Dhcp, NetplanInv, NetplanDisk
<1>10. CASE NP!DeleteVlans
  BY <1>10 DEF NP!DeleteVlans, NP!Dhcp, VlansOf, NetplanInv, NetplanDisk
<1>11. CASE NP!UpdateVlanFile
  BY <1>11 DEF NP!UpdateVlanFile, NP!Dhcp, VlansOf, NetplanInv, NetplanDisk
<1>12. CASE NP!RemoveVlanDirs
  BY <1>12 DEF NP!RemoveVlanDirs, NP!Dhcp, NP!Ifaces, VlansOf, NetplanInv, NetplanDisk
<1>13. CASE NP!WriteVlanDropin
  <2>0. /\ pc = "vlanDropin" /\ pc' = "vlanOverrides" /\ todo' = target.vlans
        /\ UNCHANGED <<options, target, active, faults, restarts, ethernet, override>>
    BY <1>13 DEF NP!WriteVlanDropin
  <2>1. CASE target.vlans = {} \/ vlanFile = target.vlans
    <3>1. UNCHANGED vlanFile
      BY <1>13, <2>1 DEF NP!WriteVlanDropin
    <3>2. vlanFile = target.vlans \/ (target.vlans = {} /\ vlanFile = NoFile)
      BY <2>0, <2>1 DEF NetplanDisk, VlansOf
    <3> QED BY <2>0, <3>1, <3>2 DEF NetplanDisk, NP!Dhcp
  <2>2. CASE target.vlans # {} /\ vlanFile # target.vlans
    <3>1. vlanFile' = target.vlans
      BY <1>13, <2>2 DEF NP!WriteVlanDropin
    <3> QED BY <2>0, <2>2, <3>1 DEF NetplanDisk, NP!Dhcp
  <2> QED BY <2>1, <2>2
<1>14. CASE NP!SetupFails
  <2>1. NP!Interrupted /\ NP!CutShort /\ pc' = "idle" /\ faults' = faults + 1 /\ UNCHANGED restarts
    BY <1>14 DEF NP!SetupFails, NP!StepFails, NP!Fault
  <2>2. vlanFile' \in {vlanFile, {}}
    BY <2>1, NetplanInterrupted
  <2> QED BY <2>1, <2>2 DEF NetplanDisk
<1>15. CASE NP!RestartAgent \/ NP!Reboot
  BY <1>15 DEF NP!RestartAgent, NP!Reboot, NP!Restarting, NetplanDisk
<1> QED
  BY <1>1, <1>2, <1>3, <1>4, <1>5, <1>6, <1>7, <1>8, <1>9, <1>10, <1>11, <1>12, <1>13, <1>14, <1>15 DEF NP!Next, NP!Steps

\* Nothing is claimed of networkd's files before the first setup.
LEMMA NetworkdDiskInit == ND!Init => NetworkdDisk
BY SetupAssumption, FilesAssumption DEF ND!Init, ND!SetupInit, NetworkdDisk, ND!Ifaces

\* writeVlanParent() adds to the VLANs of the parent's file and keeps the rest.
LEMMA AddedVlan ==
    ASSUME NEW m, NEW a, NEW b, NEW V, NEW W
    PROVE  [[managed |-> m, matches |-> a, v6 |-> b, vlans |-> V] EXCEPT !.vlans = @ \cup W]
              = [managed |-> m, matches |-> a, v6 |-> b, vlans |-> V \cup W]
OBVIOUS

\* The files of an interface are those of the descriptor once they are written, and that of
\* a parent names the VLANs that are set up so far.
LEMMA NetworkdDiskKept == SetupInv /\ NetworkdInv /\ NetworkdDisk /\ ND!Next => NetworkdDisk'
<1> SUFFICES ASSUME SetupInv, NetworkdInv, NetworkdDisk, ND!Next PROVE NetworkdDisk'
  OBVIOUS
<1>d. /\ target.nics \subseteq Nics /\ target.vlans \subseteq Vlans
      /\ Managed(target) \subseteq Nics /\ Primary \in target.nics
  BY TargetIsDescriptor
<1> USE SetupAssumption, FilesAssumption, <1>d
        DEF ND!files, ND!kernel, ND!serverVars, ND!setupVars, Managed, ShouldManage, ManagePrimary, VlanSetup,
            SetupInv, ND!Fault
<1>1. CASE ND!Environment
  BY <1>1 DEF ND!Environment, ND!ChangeMetadata, ND!SwitchManager, ND!OnDisk, ND!ShouldManage, ND!ManagePrimary, ND!VlanSetup, FileWith, NetworkdInv, NetworkdDisk
<1>2. CASE ND!Setup
  BY <1>2 DEF ND!Setup, ND!Start, ND!StartUnreachable, ND!SetupInterfaces, ND!DetectNetworkManager, ND!Finish, NetworkdInv, NetworkdDisk
<1>3. CASE ND!RollbackLeftover
  <2>1. \A v \in Vlans : network'[v] = network[v] \/ network'[v] = NoFile
    BY <1>3 DEF ND!RollbackLeftover, ND!RollbackEthernet, ND!Without, ND!Ifaces
  <2>2. /\ pc' = (IF active THEN "ethernet" ELSE "rollback") /\ (active => todo' = Managed(target))
        /\ UNCHANGED <<target, options>>
    BY <1>3 DEF ND!RollbackLeftover, ND!ShouldManage, ND!ManagePrimary
  <2>3. faults' \in {faults, faults + 1} /\ UNCHANGED <<restarts, active>>
    BY <1>3 DEF ND!RollbackLeftover
  <2>f. faults + restarts > 0 => faults' + restarts' > 0
    BY <2>3, FaultsCount
  <2> HIDE DEF SetupInv
  <2> QED BY <2>1, <2>2, <2>3, <2>f DEF NetworkdDisk
<1>4. CASE ND!RollbackInactive
  <2>1. \A v \in Vlans : network'[v] = network[v] \/ network'[v] = NoFile
    BY <1>4 DEF ND!RollbackInactive, ND!Rollback, ND!Without, ND!Ifaces, NetworkdInv
  <2>2. /\ pc' = "done" /\ ~active /\ UNCHANGED <<restarts, active>>
        /\ faults' \in {faults, faults + 1}
    BY <1>4 DEF ND!RollbackInactive, NetworkdInv
  <2>f. faults + restarts > 0 => faults' + restarts' > 0
    BY <2>2, FaultsCount
  <2> HIDE DEF SetupInv
  <2> QED BY <2>1, <2>2, <2>f DEF NetworkdDisk
<1>5. CASE ND!FallbackToDefault
  <2>1. \A v \in Vlans : network'[v] = network[v] \/ network'[v] = NoFile
    BY <1>5 DEF ND!FallbackToDefault, ND!Rollback, ND!Without, ND!Ifaces, NetworkdInv
  <2>2. /\ pc' = "idle" /\ UNCHANGED <<restarts, active>>
        /\ faults' \in {faults, faults + 1}
    BY <1>5 DEF ND!FallbackToDefault, NetworkdInv
  <2>f. faults + restarts > 0 => faults' + restarts' > 0
    BY <2>2, FaultsCount
  <2> HIDE DEF SetupInv
  <2> QED BY <2>1, <2>2, <2>f DEF NetworkdDisk
<1>6. CASE ND!WriteEthernetConfig
  <2>0. pc = "ethernet" /\ UNCHANGED <<options, target, active, pc, faults, restarts>>
    BY <1>6 DEF ND!WriteEthernetConfig
  <2>1. PICK n \in todo : /\ network' = [network EXCEPT ![n] = ND!EthernetFile(n)]
                          /\ todo' = todo \ {n}
    BY <1>6 DEF ND!WriteEthernetConfig
  <2>2. n \in Nics /\ ND!EthernetFile(n) = FileWith(n, {})
    BY <2>0 DEF NetworkdInv, ND!EthernetFile, FileWith
  <2>3. \A v \in Vlans : network'[v] = network[v]
    BY <2>1, <2>2 DEF NetworkdInv, ND!Ifaces
  <2>4. \A m \in Managed(target) : m \in todo' \/ network'[m] = FileWith(m, {})
    BY <2>0, <2>1, <2>2 DEF NetworkdInv, NetworkdDisk, ND!Ifaces
  <2>5. \A m \in Managed(target) : FileWith(m, {})' = FileWith(m, {})
    BY <2>0 DEF FileWith
  <2> QED BY <2>0, <2>3, <2>4, <2>5 DEF NetworkdDisk
<1>7. CASE ND!RollbackDeprecated
  <2>1. /\ pc = "ethernet" /\ todo = {} /\ pc' = "reload" /\ faults' \in {faults, faults + 1}
        /\ UNCHANGED <<options, target, active, restarts, network>>
    BY <1>7 DEF ND!RollbackDeprecated
  <2>f. faults + restarts > 0 => faults' + restarts' > 0
    BY <2>1, FaultsCount
  <2> HIDE DEF SetupInv
  <2> QED BY <2>1, <2>f DEF FileWith, NetworkdDisk
<1>8. CASE ND!ReloadEthernet
  BY <1>8 DEF ND!ReloadEthernet, FileWith, NetworkdInv, NetworkdDisk
<1>9. CASE ND!SetupVlanInterface
  BY <1>9 DEF ND!SetupVlanInterface, ND!SetupVlans, ND!OnDisk, ND!ShouldManage, ND!ManagePrimary, ND!VlanSetup, FileWith, NetworkdInv, NetworkdDisk
<1>10. CASE ND!WriteVlanNetwork
  <2>0. /\ pc = "vlan" /\ pc' = "netdev"
        /\ UNCHANGED <<options, target, active, netdev, faults, restarts>>
    BY <1>10 DEF ND!WriteVlanNetwork
  <2>1. PICK v \in todo : /\ network' = [network EXCEPT ![v] = ND!VlanFile]
                          /\ cur' = v /\ todo' = todo \ {v}
    BY <1>10 DEF ND!WriteVlanNetwork
  <2>2. v \in target.vlans /\ v \in Vlans /\ todo \subseteq target.vlans
    BY <2>0, <2>1 DEF NetworkdDisk
  <2>3. /\ \A w \in Vlans : network'[w] = IF w = v THEN ND!VlanFile ELSE network[w]
        /\ \A n \in Managed(target) : network'[n] = network[n]
    BY <2>1, <2>2 DEF NetworkdInv, ND!Ifaces
  <2>4. \A n \in Managed(target) :
           network[n] = FileWith(n, {w \in Vlans : w \in target.vlans \ todo /\ Parent[w] = n})
    BY <2>0 DEF NetworkdDisk
  <2>5. ASSUME NEW n
        PROVE  {w \in Vlans : w \in target.vlans \ todo /\ Parent[w] = n}
                 = {w \in Vlans : w \in target.vlans \ todo' /\ w # cur' /\ Parent[w] = n}
    BY <2>1, <2>2
  <2>6. \A n \in Managed(target) : network'[n] =
           FileWith(n, {w \in Vlans : w \in target.vlans \ todo /\ w # cur /\ Parent[w] = n})'
    BY <2>0, <2>3, <2>4, <2>5 DEF FileWith
  <2>7. \A w \in target.vlans \ todo' : network'[w] = ND!VlanFile /\ (w \in netdev \/ w = cur')
    BY <2>0, <2>1, <2>2, <2>3 DEF NetworkdDisk
  <2> QED BY <2>0, <2>1, <2>2, <2>3, <2>6, <2>7 DEF NetworkdDisk
<1>11. CASE ND!WriteVlanNetdev
  BY <1>11 DEF ND!WriteVlanNetdev, FileWith, NetworkdInv, NetworkdDisk
<1>12. CASE ND!WriteVlanParent
  <2>0. /\ pc = "parent" /\ pc' = "vlan" /\ cur \in Vlans /\ cur \in target.vlans \ todo
        /\ UNCHANGED <<options, target, active, todo, cur, netdev, faults, restarts>>
    BY <1>12 DEF ND!WriteVlanParent, NetworkdInv, NetworkdDisk
  <2> DEFINE p == Parent[cur]
             config == IF network[p] = NoFile THEN ND!EmptyFile ELSE network[p]
             new == [config EXCEPT !.vlans = @ \cup {cur}]
             Before(n) == {v \in Vlans : v \in target.vlans \ todo /\ v # cur /\ Parent[v] = n}
             After(n) == {v \in Vlans : v \in target.vlans \ todo /\ Parent[v] = n}
  <2>1. /\ p \in Nics
        /\ network' = IF cur \in config.vlans THEN network ELSE [network EXCEPT ![p] = new]
    BY <1>12, <2>0 DEF ND!WriteVlanParent
  <2>2. \A v \in Vlans : network'[v] = network[v]
    BY <2>1 DEF NetworkdInv, ND!Ifaces
  <2>3. ASSUME NEW n \in Managed(target) PROVE network'[n] = FileWith(n, After(n))
    <3>1. network[n] = FileWith(n, Before(n)) /\ n \in ND!Ifaces
      BY <2>0, <2>3 DEF NetworkdDisk, ND!Ifaces
    <3>2. CASE n = p
      <4>1. network[n] # NoFile
        BY <2>0, <2>3 DEF NetworkdInv
      <4>2. config = FileWith(n, Before(n)) /\ cur \notin config.vlans
        BY <3>1, <3>2, <4>1 DEF FileWith
      <4>3. network'[n] = new
        BY <2>1, <3>1, <3>2, <4>2 DEF NetworkdInv
      <4>4. Before(n) \cup {cur} = After(n)
        BY <2>0, <3>2
      <4>5. new = FileWith(n, Before(n) \cup {cur})
        <5>1. ASSUME NEW V
              PROVE  [FileWith(n, V) EXCEPT !.vlans = @ \cup {cur}] = FileWith(n, V \cup {cur})
          <6>1. PICK t, b : t = TRUE /\ b = (n \in target.v6)
            OBVIOUS
          <6>2. \A W : FileWith(n, W) = [managed |-> t, matches |-> t, v6 |-> b, vlans |-> W]
            BY <6>1, Zenon DEF FileWith
          <6>3. FileWith(n, V) = [managed |-> t, matches |-> t, v6 |-> b, vlans |-> V]
            BY <6>2, Zenon
          <6>4. FileWith(n, V \cup {cur}) = [managed |-> t, matches |-> t, v6 |-> b, vlans |-> V \cup {cur}]
            BY <6>2, Zenon
          <6>5. [[managed |-> t, matches |-> t, v6 |-> b, vlans |-> V] EXCEPT !.vlans = @ \cup {cur}]
                   = [managed |-> t, matches |-> t, v6 |-> b, vlans |-> V \cup {cur}]
            BY AddedVlan
          <6> QED BY <6>3, <6>4, <6>5
        <5> HIDE DEF Before, config
        <5> QED BY <4>2, <5>1
      <4> QED BY <4>3, <4>4, <4>5
    <3>3. CASE n # p
      <4>1. network'[n] = network[n]
        BY <2>1, <3>1, <3>3 DEF NetworkdInv
      <4>2. Before(n) = After(n)
        BY <2>0, <3>3
      <4> QED BY <3>1, <4>1, <4>2
    <3> QED BY <3>2, <3>3
  <2>4. \A n \in Managed(target) :
           network'[n] = FileWith(n, {v \in Vlans : v \in target.vlans \ todo /\ Parent[v] = n})'
    BY <2>0, <2>3 DEF FileWith
  <2> HIDE DEF p, config, new, Before, After
  <2> QED BY <2>0, <2>2, <2>4 DEF NetworkdDisk
<1>13. CASE ND!RemoveVlanInterfaces
  <2>0. /\ pc = "vlan" /\ todo = {} /\ pc' \in {"prune", "idle"}
        /\ UNCHANGED <<options, target, active, network, netdev, faults, restarts>>
    BY <1>13 DEF ND!RemoveVlanInterfaces
  <2>1. pc' = "prune" => todo' = (ND!StaleVlans(target.vlans) \X {"network"})
                                    \cup (ND!StaleNetdevs(target.vlans) \X {"netdev"})
    BY <1>13 DEF ND!RemoveVlanInterfaces
  <2>2. \A v \in Vlans \ target.vlans : network[v] \in {NoFile, ND!EmptyFile} \/ v \in ND!StaleVlans(target.vlans)
    BY DEF ND!StaleVlans, ND!IsManaged, ND!VlanFile, NetworkdDisk
  <2>3. pc' = "prune" =>
           /\ \A f \in todo' : f[1] \notin target.vlans
           /\ \A v \in Vlans \ target.vlans : network[v] \in {NoFile, ND!EmptyFile} \/ <<v, "network">> \in todo'
           /\ \A v \in netdev \ target.vlans : <<v, "netdev">> \in todo'
    <3>1. ND!StaleVlans(target.vlans) \cap target.vlans = {} /\ ND!StaleNetdevs(target.vlans) = netdev \ target.vlans
      BY DEF ND!StaleVlans, ND!StaleNetdevs
    <3> QED BY <2>1, <2>2, <3>1
  <2>4. \A n \in Managed(target) : network[n] = FileWith(n, {v \in target.vlans : Parent[v] = n})
    <3>1. ASSUME NEW n
          PROVE  {v \in Vlans : v \in target.vlans \ todo /\ Parent[v] = n} = {v \in target.vlans : Parent[v] = n}
      BY <2>0
    <3> QED BY <2>0, <3>1 DEF NetworkdDisk
  <2>5. \A n \in Managed(target) : FileWith(n, {v \in target.vlans : Parent[v] = n})'
                                      = FileWith(n, {v \in target.vlans : Parent[v] = n})
    BY <2>0 DEF FileWith
  <2> QED BY <2>0, <2>3, <2>4, <2>5 DEF NetworkdDisk
<1>14. CASE ND!RemoveVlanFile
  BY <1>14 DEF ND!RemoveVlanFile, ND!Without, ND!Ifaces, FileWith, NetworkdInv, NetworkdDisk
<1>15. CASE ND!ReloadVlans
  <2>0. /\ pc = "prune" /\ todo = {} /\ pc' = "done" /\ VlanSetup
        /\ UNCHANGED <<options, target, active, network, netdev, faults, restarts>>
    BY <1>15 DEF ND!ReloadVlans, NetworkdDisk
  <2>1. netdev = target.vlans
    BY <2>0 DEF NetworkdDisk
  <2>2. /\ \A v \in target.vlans : network[v] = ND!VlanFile
        /\ \A v \in Vlans \ target.vlans :
              network[v] = NoFile \/ (network[v] = ND!EmptyFile /\ faults + restarts > 0)
    BY <2>0 DEF NetworkdDisk, ND!EmptyFile, ND!VlanFile
  <2>3. \A n \in Managed(target) : network[n] = FileWith(n, {v \in target.vlans : Parent[v] = n})
    BY <2>0 DEF NetworkdDisk
  <2>4. ND!OnDisk(target)
    BY <2>0, <2>1, <2>2, <2>3 DEF ND!OnDisk, FileWith, ND!ShouldManage, ND!ManagePrimary, ND!VlanSetup
  <2>5. ND!OnDisk(target)'
    BY <2>0, <2>4 DEF ND!OnDisk, ND!ShouldManage, ND!ManagePrimary, ND!VlanSetup
  <2> QED BY <2>0, <2>2, <2>5 DEF NetworkdDisk
<1>16. CASE ND!Failures
  <2>1. ND!Interrupted /\ pc' = "idle" /\ faults' = faults + 1 /\ UNCHANGED restarts
    BY <1>16 DEF ND!Failures, ND!WriteEthernetConfigFails, ND!ReloadEthernetFails, ND!WriteVlanFails,
       ND!RemoveVlanFileFails, ND!ReloadVlansFails, ND!StepFails
  <2>2. \A v \in Vlans : network'[v] = network[v] \/ network'[v] = ND!EmptyFile
    BY <2>1, NetworkdInterrupted DEF ND!Ifaces
  <2> QED BY <2>1, <2>2 DEF NetworkdDisk
<1>17. CASE ND!RestartAgent \/ ND!Reboot
  <2>1. ND!Interrupted /\ pc' = "boot" /\ restarts' = restarts + 1 /\ UNCHANGED faults
    BY <1>17 DEF ND!RestartAgent, ND!Reboot, ND!Restarting
  <2>2. \A v \in Vlans : network'[v] = network[v] \/ network'[v] = ND!EmptyFile
    BY <2>1, NetworkdInterrupted DEF ND!Ifaces
  <2> QED BY <2>1, <2>2 DEF NetworkdDisk
<1> QED
  BY <1>1, <1>2, <1>3, <1>4, <1>5, <1>6, <1>7, <1>8, <1>9, <1>10, <1>11, <1>12, <1>13, <1>14, <1>15, <1>16, <1>17 DEF ND!Next, ND!Steps

-----------------------------------------------------------------------------
(* Clients and connections.                                                *)

\* The end of one client leaves those of the other IP version.
LEMMA Ended ==
    ASSUME NEW p \in Seq(Flags), NEW flag
    PROVE  /\ DH!Without(p, flag) \in Seq(Flags)
           /\ \A f \in Flags \ {flag} : f \in DH!ToSet(p) => f \in DH!ToSet(DH!Without(p, flag))
<1>1. CASE flag \notin DH!ToSet(p)
  BY <1>1 DEF DH!Without
<1>2. CASE flag \in DH!ToSet(p)
  <2> DEFINE k == CHOOSE i \in DOMAIN p : p[i] = flag
             a == SubSeq(p, 1, k - 1)
             b == SubSeq(p, k + 1, Len(p))
             q == a \o b
  <2>1. k \in 1..Len(p) /\ p[k] = flag /\ DOMAIN p = 1..Len(p) /\ Len(p) \in Nat
    BY <1>2, LenProperties DEF DH!ToSet
  <2>2. DH!Without(p, flag) = q
    BY <1>2 DEF DH!Without, DH!RemoveAt
  <2>3. \A i \in 1..Len(p) : p[i] \in Flags
    BY ElementOfSeq
  <2> HIDE DEF k
  <2>4. /\ a \in Seq(Flags) /\ Len(a) = k - 1 /\ \A j \in 1..(k - 1) : a[j] = p[j]
        /\ b \in Seq(Flags) /\ Len(b) = Len(p) - k /\ \A j \in 1..(Len(p) - k) : b[j] = p[k + j]
    <3>1. /\ a \in Seq(Flags) /\ Len(a) = (IF 1 <= k - 1 THEN k - 1 - 1 + 1 ELSE 0)
          /\ \A j \in 1..(k - 1 - 1 + 1) : a[j] = p[1 + j - 1]
      BY <2>1, <2>3, SubSeqProperties
    <3>2. /\ b \in Seq(Flags) /\ Len(b) = (IF k + 1 <= Len(p) THEN Len(p) - (k + 1) + 1 ELSE 0)
          /\ \A j \in 1..(Len(p) - (k + 1) + 1) : b[j] = p[k + 1 + j - 1]
      BY <2>1, <2>3, SubSeqProperties
    <3> HIDE DEF a, b
    <3>3. Len(a) = k - 1 /\ Len(b) = Len(p) - k
      BY <2>1, <3>1, <3>2
    <3>4. \A j \in 1..(k - 1) : a[j] = p[j]
      BY <2>1, <3>1
    <3>5. \A j \in 1..(Len(p) - k) : b[j] = p[k + j]
      <4> TAKE j \in 1..(Len(p) - k)
      <4>1. j \in 1..(Len(p) - (k + 1) + 1) /\ k + 1 + j - 1 = k + j
        BY <2>1
      <4> QED BY <3>2, <4>1
    <3> QED BY <3>1, <3>2, <3>3, <3>4, <3>5
  <2> HIDE DEF a, b
  <2>5. /\ q \in Seq(Flags) /\ Len(q) = Len(p) - 1 /\ DOMAIN q = 1..Len(q)
        /\ \A i \in 1..(Len(p) - 1) : q[i] = IF i <= k - 1 THEN a[i] ELSE b[i - (k - 1)]
    <3>1. /\ q \in Seq(Flags) /\ Len(q) = Len(a) + Len(b)
          /\ \A i \in 1..(Len(a) + Len(b)) : q[i] = IF i <= Len(a) THEN a[i] ELSE b[i - Len(a)]
      BY <2>4, ConcatProperties
    <3>2. DOMAIN q = 1..Len(q)
      BY <3>1, LenProperties
    <3>3. Len(a) + Len(b) = Len(p) - 1 /\ Len(a) = k - 1
      BY <2>1, <2>4
    <3> HIDE DEF q
    <3> QED BY <3>1, <3>2, <3>3
  <2> HIDE DEF q
  <2>6. ASSUME NEW f \in Flags \ {flag}, f \in DH!ToSet(p) PROVE f \in DH!ToSet(q)
    <3>1. PICK j \in 1..Len(p) : p[j] = f
      BY <2>1, <2>6 DEF DH!ToSet
    <3>2. CASE j < k
      <4>1. j \in 1..(Len(p) - 1) /\ j <= k - 1 /\ j \in 1..(k - 1)
        BY <2>1, <3>1, <3>2
      <4>2. q[j] = p[j]
        BY <2>4, <2>5, <4>1
      <4> QED BY <2>5, <3>1, <4>1, <4>2 DEF DH!ToSet
    <3>3. CASE j > k
      <4>1. /\ j - 1 \in 1..(Len(p) - 1) /\ ~(j - 1 <= k - 1)
            /\ j - k \in 1..(Len(p) - k) /\ (j - 1) - (k - 1) = j - k /\ k + (j - k) = j
        BY <2>1, <3>1, <3>3
      <4>2. q[j - 1] = p[j]
        BY <2>4, <2>5, <4>1
      <4> QED BY <2>5, <3>1, <4>1, <4>2 DEF DH!ToSet
    <3>4. j # k
      BY <2>1, <2>6, <3>1
    <3> QED BY <2>1, <3>1, <3>2, <3>3, <3>4
  <2> QED BY <2>2, <2>5, <2>6
<1> QED BY <1>1, <1>2

\* A client that is added is there, with those that were there before.
LEMMA Begun ==
    ASSUME NEW p \in Seq(Flags), NEW i \in 1..(Len(p) + 1), NEW flag \in Flags
    PROVE  /\ DH!InsertAt(p, i, flag) \in Seq(Flags)
           /\ flag \in DH!ToSet(DH!InsertAt(p, i, flag))
           /\ \A f \in Flags : f \in DH!ToSet(p) => f \in DH!ToSet(DH!InsertAt(p, i, flag))
<1> DEFINE a == SubSeq(p, 1, i - 1)
           b == SubSeq(p, i, Len(p))
           c == a \o <<flag>>
           q == c \o b
<1>1. DH!InsertAt(p, i, flag) = q
  BY DEF DH!InsertAt
<1>2. /\ Len(p) \in Nat /\ DOMAIN p = 1..Len(p) /\ \A j \in 1..Len(p) : p[j] \in Flags
      /\ <<flag>> \in Seq(Flags) /\ Len(<<flag>>) = 1 /\ <<flag>>[1] = flag
  BY ElementOfSeq, LenProperties
<1>3. /\ a \in Seq(Flags) /\ Len(a) = i - 1 /\ \A j \in 1..(i - 1) : a[j] = p[j]
      /\ b \in Seq(Flags) /\ Len(b) = Len(p) - i + 1 /\ \A j \in 1..(Len(p) - i + 1) : b[j] = p[i + j - 1]
  <2>1. /\ a \in Seq(Flags) /\ Len(a) = (IF 1 <= i - 1 THEN i - 1 - 1 + 1 ELSE 0)
        /\ \A j \in 1..(i - 1 - 1 + 1) : a[j] = p[1 + j - 1]
    BY <1>2, SubSeqProperties
  <2>2. /\ b \in Seq(Flags) /\ Len(b) = (IF i <= Len(p) THEN Len(p) - i + 1 ELSE 0)
        /\ \A j \in 1..(Len(p) - i + 1) : b[j] = p[i + j - 1]
    BY <1>2, SubSeqProperties
  <2> HIDE DEF a, b
  <2> QED BY <1>2, <2>1, <2>2
<1> HIDE DEF a, b
<1>4. /\ c \in Seq(Flags) /\ Len(c) = i
      /\ \A j \in 1..i : c[j] = IF j <= i - 1 THEN a[j] ELSE <<flag>>[j - (i - 1)]
  BY <1>2, <1>3, ConcatProperties
<1> HIDE DEF c
<1>5. /\ q \in Seq(Flags) /\ Len(q) = Len(p) + 1 /\ DOMAIN q = 1..(Len(p) + 1)
      /\ \A j \in 1..(Len(p) + 1) : q[j] = IF j <= i THEN c[j] ELSE b[j - i]
  <2>1. /\ q \in Seq(Flags) /\ Len(q) = Len(c) + Len(b)
        /\ \A j \in 1..(Len(c) + Len(b)) : q[j] = IF j <= Len(c) THEN c[j] ELSE b[j - Len(c)]
    BY <1>3, <1>4, ConcatProperties
  <2>2. DOMAIN q = 1..Len(q)
    BY <2>1, LenProperties
  <2>3. Len(c) + Len(b) = Len(p) + 1
    BY <1>2, <1>3, <1>4
  <2> HIDE DEF q
  <2> QED BY <1>4, <2>1, <2>2, <2>3
<1> HIDE DEF q
<1>6. flag \in DH!ToSet(q)
  <2>1. c[i] = flag /\ i \in 1..(Len(p) + 1)
    BY <1>2, <1>4
  <2>2. q[i] = flag
    BY <1>5, <2>1
  <2> QED BY <1>5, <2>1, <2>2 DEF DH!ToSet
<1>7. ASSUME NEW f \in Flags, f \in DH!ToSet(p) PROVE f \in DH!ToSet(q)
  <2>1. PICK j \in 1..Len(p) : p[j] = f
    BY <1>2, <1>7 DEF DH!ToSet
  <2>2. CASE j < i
    <3>1. j \in 1..(Len(p) + 1) /\ q[j] = p[j]
      BY <1>2, <1>3, <1>4, <1>5, <2>1, <2>2
    <3> QED BY <1>5, <2>1, <3>1 DEF DH!ToSet
  <2>3. CASE j >= i
    <3>1. /\ j + 1 \in 1..(Len(p) + 1) /\ ~(j + 1 <= i) /\ j + 1 - i \in 1..(Len(p) - i + 1)
          /\ i + (j + 1 - i) - 1 = j
      BY <1>2, <2>1, <2>3
    <3>2. b[j + 1 - i] = p[j]
      <4>1. b[j + 1 - i] = p[i + (j + 1 - i) - 1]
        BY <1>3, <3>1
      <4> QED BY <3>1, <4>1
    <3>3. q[j + 1] = p[j]
      BY <1>5, <3>1, <3>2
    <3> QED BY <1>5, <2>1, <3>1, <3>3 DEF DH!ToSet
  <2> QED BY <1>2, <2>1, <2>2, <2>3
<1> QED BY <1>1, <1>5, <1>6, <1>7

\* There are no clients of the agent's at first but one of an earlier agent.
LEMMA LeaseInit == DH!Init => LeaseInv
<1> SUFFICES ASSUME DH!Init PROVE LeaseInv
  OBVIOUS
<1>1. target \in Metadata /\ seen # target /\ pc = "boot"
  BY SetupAssumption DEF DH!Init, DH!SetupInit
<1>2. <<>> \in Seq(Flags) /\ <<"-4">> \in Seq(Flags)
  BY DEF Flags
<1>3. procs \in [Nics -> Seq(Flags)]
  BY <1>2 DEF DH!Init
<1>4. plan \in [release : SUBSET Nics, obtain4 : SUBSET Nics, obtain6 : SUBSET Nics]
  BY DEF DH!Init, DH!NoPlan
<1> QED BY <1>1, <1>3, <1>4 DEF LeaseInv, Finished

\* A release leaves sequences of clients.
LEMMA ReleasedType ==
    ASSUME procs \in [Nics -> Seq(Flags)], NEW N, NEW M
    PROVE  DH!Released(N, M) \in [Nics -> Seq(Flags)]
<1>1. \A n \in Nics : procs[n] \in Seq(Flags) /\ DH!Without(procs[n], "-4") \in Seq(Flags)
  BY Ended
<1>2. \A p \in Seq(Flags) : DH!Without(p, "-6") \in Seq(Flags)
  BY Ended
<1> QED BY <1>1, <1>2 DEF DH!Released

\* partitionInterfaces() finds every interface that lacks a client, and the steps after
\* it take none away that the interface is to have.
LEMMA LeaseKept == SetupInv /\ DhclientInv /\ LeaseInv /\ DH!Next => LeaseInv'
<1> SUFFICES ASSUME SetupInv, DhclientInv, LeaseInv, DH!Next PROVE LeaseInv'
  OBVIOUS
<1>d. /\ target.nics \subseteq Nics /\ target # None
      /\ Leased(target) \subseteq Nics
  BY TargetIsDescriptor DEF Leased
<1>p. procs \in [Nics -> Seq(Flags)]
  BY DEF LeaseInv
<1>s. seen = target => pc = "idle"
  BY DEF SetupInv
<1> USE SetupAssumption, <1>d, <1>s
        DEF DH!system, DH!loop, DH!serverVars, DH!setupVars, Finished, Leased, Managed, ShouldManage,
            ManagePrimary, Ubuntu1804, DH!Fault
<1>1. CASE DH!Environment
  BY <1>1 DEF DH!Environment, DH!ChangeMetadata, DH!SwitchManager, LeaseInv, Has
<1>2. CASE DH!Setup
  BY <1>2 DEF DH!Setup, DH!Start, DH!StartUnreachable, DH!SetupInterfaces, DH!DetectNetworkManager, DH!Finish, LeaseInv, Has, SetupInv
<1>3. CASE DH!RollbackLeftover
  <2>1. /\ pc = "leftover" /\ pc' \in {"ethernet", "rollback"} /\ UNCHANGED <<target, seen, plan>>
        /\ procs' = procs \/ procs' = DH!Released({Primary}, {Primary} \cap target.v6)
    BY <1>3, Zenon DEF DH!RollbackLeftover, DH!RollbackNics
  <2>2. procs' \in [Nics -> Seq(Flags)]
    BY <1>p, <2>1, ReleasedType
  <2> QED BY <2>1, <2>2 DEF LeaseInv
<1>4. CASE DH!RollbackInactive
  <2>1. /\ pc = "rollback" /\ pc' = "done" /\ UNCHANGED <<target, seen, active, plan>>
        /\ procs' = procs \/ procs' = DH!Released(target.nics, target.v6)
    BY <1>4, Zenon DEF DH!RollbackInactive, DH!Rollback
  <2>2. procs' \in [Nics -> Seq(Flags)]
    BY <1>p, <2>1, ReleasedType
  <2>3. ~active
    BY <2>1 DEF DhclientInv
  <2> QED BY <2>1, <2>2, <2>3 DEF LeaseInv
<1>5. CASE DH!FallbackToDefault
  <2>1. /\ pc = "fallback" /\ pc' = "idle" /\ UNCHANGED <<target, seen, active, plan>>
        /\ procs' = procs \/ procs' = DH!Released(Nics, {})
    BY <1>5, Zenon DEF DH!FallbackToDefault, DH!Rollback
  <2>2. procs' \in [Nics -> Seq(Flags)]
    BY <1>p, <2>1, ReleasedType
  <2> QED BY <2>1, <2>2 DEF LeaseInv
<1>6. CASE DH!PartitionInterfaces
  <2>0. {n \in target.nics : DH!ShouldManage(n) /\ ~(n = Primary /\ DH!Ubuntu1804)} = Leased(target)
    BY DEF DH!ShouldManage, DH!ManagePrimary, DH!Ubuntu1804
  <2>1. /\ pc' = "leases" /\ UNCHANGED <<options, target, seen, active, faults, procs>>
        /\ plan' = [release |-> {n \in Leased(target) \ target.v6 : DH!ProcessExists(procs[n], "-6")},
                    obtain4 |-> {n \in Leased(target) : ~DH!ProcessExists(procs[n], "-4")},
                    obtain6 |-> {n \in Leased(target) \cap target.v6 : ~DH!ProcessExists(procs[n], "-6")}]
    BY <1>6, <2>0 DEF DH!PartitionInterfaces
  <2>2. \A n \in Nics : DH!ProcessExists(procs[n], "-4") => Has(n, "-4")
    BY DEF DH!ProcessExists, Has
  <2>3. \A n \in Nics : DH!ProcessExists(procs[n], "-6") => Has(n, "-6")
    <3> SUFFICES ASSUME NEW n \in Nics, DH!ProcessExists(procs[n], "-6") PROVE Has(n, "-6")
      OBVIOUS
    <3>1. procs[n] \in Seq(Flags) /\ procs[n] # <<>> /\ procs[n][1] = "-6"
      BY <1>p DEF DH!ProcessExists
    <3>2. 1 \in DOMAIN procs[n]
      BY <3>1, EmptySeq, LenProperties
    <3> QED BY <3>1, <3>2 DEF Has, DH!ToSet
  <2>4. /\ plan'.release \subseteq Leased(target) \ target.v6
        /\ plan' \in [release : SUBSET Nics, obtain4 : SUBSET Nics, obtain6 : SUBSET Nics]
    BY <2>1
  <2>5. \A n \in Leased(target) :
           /\ n \in plan'.obtain4 \/ Has(n, "-4")
           /\ n \in target.v6 => n \in plan'.obtain6 \/ Has(n, "-6")
    BY <2>1, <2>2, <2>3
  <2> HIDE DEF Leased
  <2>6. Leased(target)' = Leased(target)
    BY <2>1 DEF Leased
  <2> QED BY <1>p, <2>1, <2>4, <2>5, <2>6 DEF LeaseInv, Has
<1>7. CASE DH!ReleaseIpv6
  <2>1. PICK n \in plan.release :
           /\ plan' = [plan EXCEPT !.release = @ \ {n}]
           /\ procs' = procs \/ procs' = [procs EXCEPT ![n] = DH!Without(@, "-6")]
    BY <1>7, Zenon DEF DH!ReleaseIpv6
  <2>2. pc = "leases" /\ faults' \in {faults, faults + 1} /\ UNCHANGED <<options, target, seen, active, pc>>
    BY <1>7, Zenon DEF DH!ReleaseIpv6
  <2>3. n \in Nics /\ n \notin target.v6 /\ procs[n] \in Seq(Flags)
    BY <1>p, <2>1, <2>2 DEF LeaseInv
  <2>4. procs' \in [Nics -> Seq(Flags)]
    <3>1. DH!Without(procs[n], "-6") \in Seq(Flags)
      BY <2>3, Ended
    <3> HIDE DEF Leased
    <3> QED BY <1>p, <2>1, <2>3, <3>1
  <2>5. \A m \in Nics : (Has(m, "-4") => Has(m, "-4")') /\ (m \in target.v6 /\ Has(m, "-6") => Has(m, "-6")')
    <3>1. "-4" \in DH!ToSet(procs[n]) => "-4" \in DH!ToSet(DH!Without(procs[n], "-6"))
      BY <2>3, Ended DEF Flags
    <3> QED BY <1>p, <2>1, <2>3, <3>1 DEF Has
  <2>6. /\ plan' \in [release : SUBSET Nics, obtain4 : SUBSET Nics, obtain6 : SUBSET Nics]
        /\ plan'.release \subseteq plan.release /\ plan'.obtain4 = plan.obtain4 /\ plan'.obtain6 = plan.obtain6
    BY <2>1 DEF LeaseInv
  <2>7. faults' = 0 => faults = 0
    BY <2>2 DEF SetupInv
  <2> HIDE DEF Leased
  <2>8. Leased(target)' = Leased(target)
    BY <2>2 DEF Leased
  <2> QED BY <2>2, <2>4, <2>5, <2>6, <2>7, <2>8 DEF LeaseInv
<1>8. CASE DH!ObtainIpv4
  <2>1. PICK n \in plan.obtain4 :
           /\ plan' = [plan EXCEPT !.obtain4 = @ \ {n}]
           /\ (DH!Obtain(n, "-4") /\ UNCHANGED faults) \/ (faults' = faults + 1 /\ UNCHANGED procs)
    BY <1>8, Zenon DEF DH!ObtainIpv4
  <2>2. pc = "leases" /\ UNCHANGED <<options, target, seen, active, pc>>
    BY <1>8, Zenon DEF DH!ObtainIpv4
  <2>3. n \in Nics /\ procs[n] \in Seq(Flags) /\ "-4" \in Flags
    BY <1>p, <2>1, <2>2 DEF LeaseInv, Flags
  <2>6. /\ plan' \in [release : SUBSET Nics, obtain4 : SUBSET Nics, obtain6 : SUBSET Nics]
        /\ plan'.release = plan.release /\ plan'.obtain6 = plan.obtain6
        /\ plan'.obtain4 = plan.obtain4 \ {n}
    BY <2>1 DEF LeaseInv
  <2>4. CASE faults' = faults + 1 /\ UNCHANGED procs
    <3>1. faults' # 0
      BY <2>4 DEF SetupInv
    <3> QED BY <2>2, <2>4, <2>6, <3>1 DEF LeaseInv
  <2>5. CASE DH!Obtain(n, "-4") /\ UNCHANGED faults
    <3> DEFINE Started == \E i \in 1..(Len(procs[n]) + 1) :
                              procs' = [procs EXCEPT ![n] = DH!InsertAt(@, i, "-4")]
    <3>1. (Has(n, "-4") /\ procs' = procs) \/ Started
      BY <2>5, Zenon DEF DH!Obtain, Has
    <3>2. /\ procs' \in [Nics -> Seq(Flags)] /\ Has(n, "-4")'
          /\ \A m \in Nics, g \in Flags : Has(m, g) => Has(m, g)'
      <4>1. CASE Has(n, "-4") /\ procs' = procs
        BY <1>p, <4>1 DEF Has
      <4>2. CASE Started
        <5>1. PICK i \in 1..(Len(procs[n]) + 1) : procs' = [procs EXCEPT ![n] = DH!InsertAt(procs[n], i, "-4")]
          BY <4>2
        <5> DEFINE q == DH!InsertAt(procs[n], i, "-4")
        <5>2. /\ q \in Seq(Flags) /\ "-4" \in DH!ToSet(q)
              /\ \A g \in Flags : g \in DH!ToSet(procs[n]) => g \in DH!ToSet(q)
          BY <2>3, Begun
        <5> HIDE DEF q
        <5>3. procs' = [procs EXCEPT ![n] = q]
          BY <5>1 DEF q
        <5>4. procs'[n] = q /\ \A m \in Nics \ {n} : procs'[m] = procs[m]
          BY <1>p, <2>3, <5>3
        <5>5. procs' \in [Nics -> Seq(Flags)]
          BY <1>p, <2>3, <5>2, <5>3
        <5> QED BY <5>2, <5>4, <5>5 DEF Has
      <4> QED BY <3>1, <4>1, <4>2
    <3>3. "-4" \in Flags /\ "-6" \in Flags
      BY DEF Flags
    <3> QED BY <2>2, <2>5, <2>6, <3>2, <3>3 DEF LeaseInv
  <2> QED BY <2>1, <2>4, <2>5
<1>13. CASE DH!ObtainIpv6
  <2>1. PICK n \in plan.obtain6 :
           /\ plan' = [plan EXCEPT !.obtain6 = @ \ {n}]
           /\ (DH!Obtain(n, "-6") /\ UNCHANGED faults) \/ (faults' = faults + 1 /\ UNCHANGED procs)
    BY <1>13, Zenon DEF DH!ObtainIpv6
  <2>2. pc = "leases" /\ UNCHANGED <<options, target, seen, active, pc>>
    BY <1>13, Zenon DEF DH!ObtainIpv6
  <2>3. n \in Nics /\ procs[n] \in Seq(Flags) /\ "-6" \in Flags
    BY <1>p, <2>1, <2>2 DEF LeaseInv, Flags
  <2>6. /\ plan' \in [release : SUBSET Nics, obtain4 : SUBSET Nics, obtain6 : SUBSET Nics]
        /\ plan'.release = plan.release /\ plan'.obtain4 = plan.obtain4
        /\ plan'.obtain6 = plan.obtain6 \ {n}
    BY <2>1 DEF LeaseInv
  <2>4. CASE faults' = faults + 1 /\ UNCHANGED procs
    <3>1. faults' # 0
      BY <2>4 DEF SetupInv
    <3> QED BY <2>2, <2>4, <2>6, <3>1 DEF LeaseInv
  <2>5. CASE DH!Obtain(n, "-6") /\ UNCHANGED faults
    <3> DEFINE Started == \E i \in 1..(Len(procs[n]) + 1) :
                              procs' = [procs EXCEPT ![n] = DH!InsertAt(@, i, "-6")]
    <3>1. (Has(n, "-6") /\ procs' = procs) \/ Started
      BY <2>5, Zenon DEF DH!Obtain, Has
    <3>2. /\ procs' \in [Nics -> Seq(Flags)] /\ Has(n, "-6")'
          /\ \A m \in Nics, g \in Flags : Has(m, g) => Has(m, g)'
      <4>1. CASE Has(n, "-6") /\ procs' = procs
        BY <1>p, <4>1 DEF Has
      <4>2. CASE Started
        <5>1. PICK i \in 1..(Len(procs[n]) + 1) : procs' = [procs EXCEPT ![n] = DH!InsertAt(procs[n], i, "-6")]
          BY <4>2
        <5> DEFINE q == DH!InsertAt(procs[n], i, "-6")
        <5>2. /\ q \in Seq(Flags) /\ "-6" \in DH!ToSet(q)
              /\ \A g \in Flags : g \in DH!ToSet(procs[n]) => g \in DH!ToSet(q)
          BY <2>3, Begun
        <5> HIDE DEF q
        <5>3. procs' = [procs EXCEPT ![n] = q]
          BY <5>1 DEF q
        <5>4. procs'[n] = q /\ \A m \in Nics \ {n} : procs'[m] = procs[m]
          BY <1>p, <2>3, <5>3
        <5>5. procs' \in [Nics -> Seq(Flags)]
          BY <1>p, <2>3, <5>2, <5>3
        <5> QED BY <5>2, <5>4, <5>5 DEF Has
      <4> QED BY <3>1, <4>1, <4>2
    <3>3. "-4" \in Flags /\ "-6" \in Flags
      BY DEF Flags
    <3> QED BY <2>2, <2>5, <2>6, <3>2, <3>3 DEF LeaseInv
  <2> QED BY <2>1, <2>4, <2>5
<1>9. CASE DH!EthernetDone
  BY <1>9 DEF DH!EthernetDone, DH!NoPlan, LeaseInv, Has
<1>10. CASE DH!SetupVlanInterface \/ DH!StartVlan \/ DH!ConfigureVlan \/ DH!RemoveVlanInterfaces
  <2>1. /\ pc \in {"vlans", "vlan", "add", "set", "address"} /\ pc' # "leases"
        /\ UNCHANGED <<options, target, seen, active, faults, procs, plan>>
    BY <1>10 DEF DH!SetupVlanInterface, DH!SetupVlans, DH!StartVlan, DH!ConfigureVlan, DH!RemoveVlanInterfaces
  <2> QED BY <2>1 DEF LeaseInv, Has
<1>11. CASE DH!StepFails
  BY <1>11 DEF DH!StepFails, LeaseInv
<1>12. CASE DH!RestartAgent \/ DH!Reboot
  <2>1. /\ pc' = "boot" /\ seen' = None /\ UNCHANGED <<target, plan>>
        /\ procs' = procs \/ procs' = [n \in Nics |-> <<>>]
    BY <1>12 DEF DH!RestartAgent, DH!Reboot, DH!Restarting
  <2>2. <<>> \in Seq(Flags)
    OBVIOUS
  <2> HIDE DEF Leased
  <2> QED BY <1>p, <2>1, <2>2 DEF LeaseInv
<1> QED
  BY <1>1, <1>2, <1>3, <1>4, <1>5, <1>6, <1>7, <1>8, <1>9, <1>10, <1>11, <1>12, <1>13 DEF DH!Next, DH!Steps

\* The primary interface is connected as the guest starts.
LEMMA ConnectionInit == NM!Init => ConnectionInv
  BY SetupAssumption DEF NM!Init, NM!SetupInit, NM!Ifaces, ConnectionInv, Secured, InProfile

\* A profile of the primary interface that is removed is remembered in
\* reconnectPrimaryNic until the interface is connected, or spoiled says that it is not.
LEMMA ConnectionKept == SetupInv /\ NMInv /\ ConnectionInv /\ NM!Next => ConnectionInv'
<1> SUFFICES ASSUME SetupInv, NMInv, ConnectionInv, NM!Next PROVE ConnectionInv'
  OBVIOUS
<1>d. Primary \in NM!Ifaces /\ Primary \in Nics /\ Primary \notin Vlans /\ Primary \notin Absent
  BY SetupAssumption DEF NM!Ifaces
<1>n. network \in [NM!Ifaces -> NM!Files] /\ restart \in BOOLEAN
  BY DEF NMInv, ConnectionInv
<1> USE FilesAssumption, <1>d, <1>n
        DEF NM!files, NM!daemon, NM!serverVars, NM!setupVars, Secured, InProfile, ManagePrimary
<1>1. CASE NM!Environment
  BY <1>1 DEF NM!Environment, NM!ChangeMetadata, NM!SwitchManager, ConnectionInv
<1>2. CASE NM!Setup
  BY <1>2 DEF NM!Setup, NM!Start, NM!StartUnreachable, NM!SetupInterfaces, NM!DetectNetworkManager, NM!Finish, ConnectionInv
<1>m. (pc = "ethernet" /\ todo = {}) \/ pc = "vlan" => (ManagePrimary => network[Primary] = "agent")
  <2>1. ManagePrimary => Primary \in Managed(target)
    BY TargetIsDescriptor DEF Managed, ShouldManage
  <2> QED BY <2>1 DEF NMInv
<1>r. ASSUME NEW N, NEW return, Primary \in N, NM!RemoveInterfaces(N, return),
             pc \in {"leftover", "rollback", "fallback"}
      PROVE  ConnectionInv'
  <2> DEFINE mine == {i \in N : network[i] # NoFile}
  <2>1. PICK F : /\ network' = [i \in NM!Ifaces |-> IF i \in F /\ network[i] # "empty" THEN NoFile
                                                      ELSE network[i]]
                 /\ restart' = (Primary \in F)
                 /\ \/ F = mine /\ UNCHANGED spoiled
                    \/ \E i \in mine : F = mine \ {i} /\ spoiled' = spoiled \cup {j \in {i} : network[j] # "agent"}
    BY <1>r, Zenon DEF NM!RemoveInterfaces
  <2>2. pc' = "nmreload" /\ UNCHANGED <<options, loaded, links>>
    BY <1>r, Zenon DEF NM!RemoveInterfaces
  <2>3. restart' \in BOOLEAN /\ (restart' = TRUE \/ Primary \notin F)
    <3>1. (Primary \in F) \in BOOLEAN
      OBVIOUS
    <3>2. restart' \in BOOLEAN
      BY <2>1, <3>1, Zenon
    <3>3. Primary \in F => restart' = TRUE
      BY <2>1, Zenon
    <3> QED BY <3>2, <3>3
  <2>4. Secured
    BY <1>r DEF ConnectionInv
  <2>5. ASSUME Primary \notin F PROVE Secured' /\ (Primary \in spoiled' \/ InProfile')
    <3>1. network'[Primary] = network[Primary] /\ spoiled \subseteq spoiled'
      BY <2>1, <2>5
    <3>2. network[Primary] = NoFile \/ network[Primary] = "agent" \/ Primary \in spoiled'
      BY <1>r, <2>1, <2>5
    <3> QED BY <2>2, <2>4, <3>1, <3>2
  <2> QED BY <2>2, <2>3, <2>5 DEF ConnectionInv
<1>3. CASE NM!RollbackLeftover
  <2>1. CASE UNCHANGED <<options, network, loaded, links, restart, spoiled>> /\ pc' \in {"ethernet", "rollback"}
    BY <1>3, <2>1 DEF NM!RollbackLeftover, ConnectionInv
  <2>2. CASE \E return : NM!RemoveInterfaces({Primary}, return)
    BY <1>3, <1>r, <2>2 DEF NM!RollbackLeftover
  <2> QED BY <1>3, <2>1, <2>2, Zenon DEF NM!RollbackLeftover
<1>4. CASE NM!RollbackInactive
  BY <1>4, <1>r, TargetIsDescriptor DEF NM!RollbackInactive
<1>5. CASE NM!FallbackToDefault
  BY <1>5, <1>r DEF NM!FallbackToDefault
<1>6. CASE NM!RollbackReload
  BY <1>6 DEF NM!RollbackReload, NM!Reload, ConnectionInv, NMInv
<1>7. CASE NM!DeviceConnect
  BY <1>7 DEF NM!DeviceConnect, ConnectionInv, NMInv
<1>8. CASE NM!WriteConfig
  BY <1>8 DEF NM!WriteConfig, ConnectionInv
<1>9. CASE NM!ReloadEthernet
  BY <1>9, <1>m DEF NM!ReloadEthernet, NM!Reload, ConnectionInv
<1>10. CASE NM!ConnUp
  <2>1. /\ pc = "up" /\ pc' \in {"up", "vlans"} /\ UNCHANGED <<options, network, loaded, restart>>
        /\ \E S : links' = links \cup S /\ spoiled' = spoiled \ S
    BY <1>10 DEF NM!ConnUp
  <2> QED BY <2>1 DEF ConnectionInv
<1>11. CASE NM!SetupVlanInterface
  BY <1>11 DEF NM!SetupVlanInterface, NM!SetupVlans, ConnectionInv
<1>12. CASE NM!WriteVlanConfig
  BY <1>12 DEF NM!WriteVlanConfig, ConnectionInv, NMInv
<1>13. CASE NM!ReloadVlans
  BY <1>13, <1>m DEF NM!ReloadVlans, NM!Reload, ConnectionInv
<1>14. CASE NM!RollbackFails
  BY <1>14 DEF NM!RollbackFails, NM!Connectionless, ConnectionInv, NMInv
<1>15. CASE NM!WriteConfigFails
  <2>1. /\ NM!Interrupted /\ pc \in {"ethernet", "vlan"} /\ pc' = "idle"
        /\ UNCHANGED <<options, loaded, links, restart, spoiled>>
    BY <1>15 DEF NM!WriteConfigFails
  <2> QED BY <2>1, NMInterrupted DEF ConnectionInv
<1>16. CASE NM!StepFails
  BY <1>16 DEF NM!StepFails, ConnectionInv
<1>17. CASE NM!RestartAgent
  <2>1. /\ NM!Interrupted /\ pc' = "boot" /\ UNCHANGED <<options, loaded, links, restart>>
        /\ spoiled' = IF pc \in {"nmreload", "connect"} THEN spoiled \cup NM!Connectionless ELSE spoiled
    BY <1>17 DEF NM!RestartAgent, NM!Restarting
  <2>2. CASE pc \in {"nmreload", "connect"} /\ restart = TRUE
    BY <2>1, <2>2 DEF ConnectionInv, NM!Connectionless
  <2>3. CASE ~(pc \in {"nmreload", "connect"} /\ restart = TRUE)
    BY <2>1, <2>3, NMInterrupted DEF ConnectionInv, NM!Connectionless
  <2> QED BY <2>2, <2>3
<1>18. CASE NM!Reboot
  BY <1>18 DEF NM!Reboot, NM!Restarting, ConnectionInv
<1> QED
  BY <1>1, <1>2, <1>3, <1>4, <1>5, <1>6, <1>7, <1>8, <1>9, <1>10, <1>11, <1>12, <1>13, <1>14, <1>15, <1>16, <1>17, <1>18 DEF NM!Next, NM!Steps, NM!Failures

-----------------------------------------------------------------------------
(* The guest has one of the managers.                                      *)

\* Whichever manager the guest has, its invariant holds.
THEOREM NetworkCorrect == Spec => []NetworkInv
<1>1. Init => NetworkInv
  BY NetworkdInit, NetplanInit, DhclientInit, WickedInit, NMInit, ManagersAssumption DEF Init, NetworkInv
<1>2. NetworkInv /\ [Next]_vars => NetworkInv'
  <2> SUFFICES ASSUME NetworkInv, [Next]_vars PROVE NetworkInv'
    OBVIOUS
  <2>1. CASE NetworkdStep
    BY <2>1, NetworkdStepKeeps DEF NetworkdStep, NetworkInv
  <2>2. CASE NetplanStep
    BY <2>2, NetplanStepKeeps DEF NetplanStep, NetworkInv
  <2>3. CASE DhclientStep
    BY <2>3, DhclientStepKeeps DEF DhclientStep, NetworkInv
  <2>4. CASE WickedStep
    BY <2>4, WickedStepKeeps DEF WickedStep, NetworkInv
  <2>5. CASE NetworkManagerStep
    BY <2>5, NMStepKeeps DEF NetworkManagerStep, NetworkInv
  <2>6. CASE UNCHANGED vars
    <3>1. /\ SetupInv' = SetupInv /\ NetworkdInv' = NetworkdInv /\ NetplanInv' = NetplanInv
          /\ DhclientInv' = DhclientInv /\ WickedInv' = WickedInv /\ NMInv' = NMInv /\ UNCHANGED manager
      BY <2>6 DEF vars, setupVars, serverVars, netplanVars, dhclientVars, SetupInv, NetworkdInv, NetplanInv,
         DhclientInv, WickedInv, NMInv, Finished, Managed, ShouldManage, ManagePrimary, VlanSetup, VlansOf,
         Agrees, ND!IsManaged
    <3> QED BY <3>1 DEF NetworkInv
  <2> QED BY <2>1, <2>2, <2>3, <2>4, <2>5, <2>6 DEF Next
<1> QED BY <1>1, <1>2, PTL DEF Spec

\* So does what it says of the disk, empty files of interrupted writes included.
THEOREM DiskCorrect == Spec => []DiskInv
<1>1. Init => DiskInv
  BY NetworkdDiskInit, NetplanDiskInit, WickedDiskInit, NMDiskInit DEF Init, DiskInv
<1>2. NetworkInv /\ DiskInv /\ [Next]_vars => DiskInv'
  <2> SUFFICES ASSUME NetworkInv, DiskInv, [Next]_vars PROVE DiskInv'
    OBVIOUS
  <2>1. CASE NetworkdStep
    BY <2>1, NetworkdDiskKept DEF NetworkdStep, NetworkInv, DiskInv
  <2>2. CASE NetplanStep
    BY <2>2, NetplanDiskKept DEF NetplanStep, NetworkInv, DiskInv
  <2>3. CASE DhclientStep
    BY <2>3 DEF DhclientStep, DiskInv
  <2>4. CASE WickedStep
    BY <2>4, WickedDiskKept DEF WickedStep, NetworkInv, DiskInv
  <2>5. CASE NetworkManagerStep
    BY <2>5, NMDiskKept DEF NetworkManagerStep, NetworkInv, DiskInv
  <2>6. CASE UNCHANGED vars
    <3>1. /\ NetworkdDisk' = NetworkdDisk /\ NetplanDisk' = NetplanDisk /\ WickedDisk' = WickedDisk
          /\ NMDisk' = NMDisk /\ UNCHANGED manager
      BY <2>6 DEF vars, setupVars, serverVars, netplanVars, NetworkdDisk, NetplanDisk, WickedDisk, NMDisk,
         Managed, ShouldManage, ManagePrimary, VlanSetup, VlansOf, FileWith, NP!Dhcp, ND!OnDisk,
         ND!ShouldManage, ND!ManagePrimary, ND!VlanSetup
    <3> QED BY <3>1 DEF DiskInv
  <2> QED BY <2>1, <2>2, <2>3, <2>4, <2>5, <2>6 DEF Next
<1> QED BY <1>1, <1>2, NetworkCorrect, PTL DEF Spec

\* A step that sets seenMetadata is Finish of SetupInterfaces(), which touches no file.
SetsSeen ==
    /\ pc = "done" /\ seen' = target
    /\ UNCHANGED <<options, active, faults, restarts, network, old, netdev, ethernet, override, vlanFile, spoiled>>

\* seenMetadata changes only where SetupInterfaces() returns without an error.
LEMMA OnlyFinishSetsSeen ==
    ASSUME [Next]_vars, seen' # seen, seen' # None, manager # "dhclient"
    PROVE  SetsSeen /\ UNCHANGED manager
<1>1. CASE NetworkdStep
  <2>1. ND!Finish /\ UNCHANGED <<ND!files, NotNetworkd, manager>>
    BY <1>1, SetupAssumption DEF NetworkdStep, ND!Next, ND!Environment, ND!ChangeMetadata, ND!SwitchManager, ND!Setup, ND!Start,
       ND!StartUnreachable, ND!SetupInterfaces, ND!Steps, ND!RollbackLeftover, ND!RollbackInactive,
       ND!FallbackToDefault, ND!WriteEthernetConfig, ND!RollbackDeprecated, ND!ReloadEthernet,
       ND!SetupVlanInterface, ND!SetupVlans, ND!WriteVlanNetwork, ND!WriteVlanNetdev, ND!WriteVlanParent,
       ND!RemoveVlanInterfaces, ND!RemoveVlanFile, ND!ReloadVlans, ND!Failures, ND!WriteEthernetConfigFails,
       ND!ReloadEthernetFails, ND!WriteVlanFails, ND!RemoveVlanFileFails, ND!ReloadVlansFails, ND!StepFails,
       ND!RestartAgent, ND!Reboot, ND!Restarting, ND!setupVars, ND!files
  <2> QED BY <2>1 DEF ND!Finish, ND!files, NotNetworkd, netplanVars, SetsSeen, ND!serverVars
<1>2. CASE NetplanStep
  <2>1. NP!Finish /\ UNCHANGED <<NP!files, NP!kernel, NotNetplan, manager>>
    BY <1>2 DEF NetplanStep, NP!Next, NP!Environment, NP!ChangeMetadata, NP!SwitchManager, NP!Setup, NP!Start,
       NP!StartUnreachable, NP!SetupInterfaces, NP!Steps, NP!RollbackLeftover, NP!RollbackInactive,
       NP!FallbackToDefault, NP!WriteEthernetDropin, NP!WriteOverride, NP!ReloadConfigs, NP!SetupVlanInterface,
       NP!SetupVlans, NP!DeleteVlans, NP!UpdateVlanFile, NP!RemoveVlanDirs, NP!WriteVlanDropin, NP!SetupFails,
       NP!StepFails, NP!RestartAgent, NP!Reboot, NP!Restarting, NP!setupVars, NP!files
  <2> QED BY <2>1 DEF NP!Finish, NP!files, NP!kernel, NotNetplan, SetsSeen, NP!serverVars
<1>3. CASE WickedStep
  <2>1. WI!Finish /\ UNCHANGED <<network, spoiled, NotWicked, manager>>
    BY <1>3 DEF WickedStep, WI!Next, WI!Environment, WI!ChangeMetadata, WI!SwitchManager, WI!Setup, WI!Start,
       WI!StartUnreachable, WI!SetupInterfaces, WI!Steps, WI!RollbackLeftover, WI!RollbackInactive,
       WI!FallbackToDefault, WI!WriteEthernetConfig, WI!IfreloadEthernet, WI!SetupVlanInterface, WI!SetupVlans,
       WI!CreateVlanFile, WI!WriteVlanFile, WI!IfupVlan, WI!RemoveVlanFile, WI!IfreloadVlan,
       WI!WriteEthernetConfigFails, WI!StepFails, WI!RestartAgent, WI!Reboot, WI!Restarting, WI!setupVars
  <2> QED BY <2>1 DEF WI!Finish, NotWicked, netplanVars, SetsSeen, WI!serverVars
<1>4. CASE NetworkManagerStep
  <2>1. NM!Finish /\ UNCHANGED <<NM!files, spoiled, NotNM, manager>>
    BY <1>4 DEF NetworkManagerStep, NM!Next, NM!Environment, NM!ChangeMetadata, NM!SwitchManager, NM!Setup,
       NM!Start, NM!StartUnreachable, NM!SetupInterfaces, NM!Steps, NM!RollbackLeftover, NM!RemoveInterfaces,
       NM!RollbackInactive, NM!FallbackToDefault, NM!RollbackReload, NM!DeviceConnect, NM!WriteConfig,
       NM!ReloadEthernet, NM!ConnUp, NM!SetupVlanInterface, NM!SetupVlans, NM!WriteVlanConfig, NM!ReloadVlans,
       NM!Failures, NM!RollbackFails, NM!WriteConfigFails, NM!StepFails, NM!RestartAgent, NM!Reboot,
       NM!Restarting, NM!setupVars, NM!files
  <2> QED BY <2>1 DEF NM!Finish, NM!files, NotNM, netplanVars, SetsSeen, NM!serverVars
<1>5. ~UNCHANGED vars /\ ~DhclientStep
  BY DEF vars, setupVars, DhclientStep
<1> QED BY <1>1, <1>2, <1>3, <1>4, <1>5 DEF Next

\* A setup that succeeds leaves the files as the metadata says, whatever an earlier
\* one left when it failed or when the agent or the guest stopped in the middle of it,
\* but for a file left empty of a VLAN that is gone.
THEOREM AppliedFilesAreOnDisk == Spec => AppliedIsOnDisk
<1> DEFINE OnDiskStep ==
      seen' # seen /\ seen' # None /\ active =>
          /\ manager = "networkd" => ND!OnDisk(seen)'
          /\ manager = "netplan" => NP!OnDisk(seen)'
          /\ manager = "wicked" => WI!OnDisk(seen)'
          /\ manager = "NetworkManager" => NM!OnDisk(seen)'
<1>1. NetworkInv /\ DiskInv /\ [Next]_vars => [OnDiskStep]_vars
  <2> SUFFICES ASSUME NetworkInv, DiskInv, [Next]_vars, seen' # seen, seen' # None, active,
                      manager # "dhclient"
               PROVE  OnDiskStep
    OBVIOUS
  <2>0. SetsSeen /\ SetupInv
    BY OnlyFinishSetsSeen DEF NetworkInv
  <2> USE <2>0 DEF SetsSeen
  <2>d. target.nics \subseteq Nics /\ target.vlans \subseteq Vlans /\ Primary \in target.nics
    BY TargetIsDescriptor
  <2>1. ASSUME manager = "networkd" PROVE ND!OnDisk(seen)'
    BY <2>1 DEF DiskInv, NetworkdDisk, ND!OnDisk, ND!ShouldManage, ND!ManagePrimary, ND!VlanSetup
  <2>2. ASSUME manager = "netplan" PROVE NP!OnDisk(seen)'
    BY <2>2 DEF DiskInv, NetplanDisk, NP!OnDisk, NP!EthernetDropin, NP!Dhcp, NP!ShouldManage, NP!ManagePrimary,
       NP!VlanSetup, Managed, ShouldManage, ManagePrimary, VlanSetup
  <2>3. ASSUME manager = "wicked" PROVE WI!OnDisk(seen)'
    BY <2>3, <2>d, SetupAssumption DEF NetworkInv, WickedInv, DiskInv, WickedDisk, WI!OnDisk, WI!OwnersKept, WI!Ifaces, WI!ShouldManage,
       WI!ManagePrimary, WI!VlanSetup, Managed, ShouldManage, ManagePrimary, VlanSetup
  <2>4. ASSUME manager = "NetworkManager" PROVE NM!OnDisk(seen)'
    BY <2>4 DEF DiskInv, NMDisk, NM!OnDisk, NM!ShouldManage, NM!ManagePrimary, NM!VlanSetup, Managed,
       ShouldManage, ManagePrimary, VlanSetup
  <2> QED BY <2>1, <2>2, <2>3, <2>4
<1> QED BY <1>1, NetworkCorrect, DiskCorrect, PTL DEF Spec, AppliedIsOnDisk

\* Once another manager has the interface, nothing is left of the Ethernet
\* configuration of this one.
THEOREM InactiveManagersAreRolledBack == Spec => []InactiveIsRolledBack
<1>1. NetworkInv => InactiveIsRolledBack
  BY DEF NetworkInv, InactiveIsRolledBack, ND!InactiveIsRolledBack, WI!InactiveIsRolledBack,
     NM!InactiveIsRolledBack, ND!Applied, WI!Applied, NM!Applied, NetworkdInv, WickedInv, NMInv, Finished
<1> QED BY <1>1, NetworkCorrect, PTL

\* What counts as applied is what the manager was told to load, but where a reload
\* was lost (spoiled, of netplan and wicked) and for the VLANs that networkd was only
\* given more of.
THEOREM AppliedFilesAreLoaded == Spec => []AppliedIsLoaded
<1>1. ASSUME NetworkInv, manager = "networkd" PROVE ND!AppliedIsLoaded
  BY <1>1 DEF NetworkInv, ND!AppliedIsLoaded, ND!Applied, ND!ShouldManage, ND!ManagePrimary, NetworkdInv,
     ND!VlanSetup, Finished, Managed, ShouldManage, ManagePrimary, VlanSetup
<1>2. ASSUME NetworkInv, manager = "netplan" PROVE NP!AppliedIsLoaded
  BY <1>2 DEF NetworkInv, SetupInv, NP!AppliedIsLoaded, NP!Applied, NP!files, NetplanInv
<1>3. ASSUME NetworkInv, manager = "wicked" PROVE WI!AppliedIsLoaded
  BY <1>3 DEF NetworkInv, WI!AppliedIsLoaded, WI!Applied, WI!ShouldManage, WI!ManagePrimary, WickedInv,
     Finished, Managed, ShouldManage, ManagePrimary
<1>4. ASSUME NetworkInv, manager = "NetworkManager" PROVE NM!AppliedIsLoaded
  BY <1>4 DEF NetworkInv, NM!AppliedIsLoaded, NM!Applied, NM!ShouldManage, NM!ManagePrimary, NM!VlanSetup,
     NMInv, Finished, Managed, ShouldManage, ManagePrimary, VlanSetup
<1>5. NetworkInv => AppliedIsLoaded
  BY <1>1, <1>2, <1>3, <1>4 DEF AppliedIsLoaded
<1> QED BY <1>5, NetworkCorrect, PTL

\* The VLAN links are those of the metadata that counts as applied.
THEOREM VlanLinksAreThoseOfMetadata == Spec => []VlanLinksMatch
<1>1. ASSUME NetworkInv, manager = "netplan" PROVE NP!VlanLinksMatch
  BY <1>1 DEF NetworkInv, SetupInv, NP!VlanLinksMatch, NP!Applied, NP!VlanSetup, NetplanInv, Finished, VlanSetup
<1>2. ASSUME NetworkInv, manager = "dhclient" PROVE DH!VlanLinksMatch
  BY <1>2 DEF NetworkInv, DH!VlanLinksMatch, DH!Applied, DH!VlanSetup, DhclientInv, Finished, VlanSetup
<1>3. ASSUME NetworkInv, manager = "wicked" PROVE WI!VlanLinksMatch
  BY <1>3 DEF NetworkInv, WI!VlanLinksMatch, WI!Applied, WI!VlanSetup, WickedInv, Finished, VlanSetup
<1>4. NetworkInv => VlanLinksMatch
  BY <1>1, <1>2, <1>3 DEF VlanLinksMatch
<1> QED BY <1>4, NetworkCorrect, PTL

\* Clients and connections go together with the setup as HeldInv says.
THEOREM HeldCorrect == Spec => []HeldInv
<1>1. Init => HeldInv
  BY LeaseInit, ConnectionInit DEF Init, HeldInv
<1>2. NetworkInv /\ HeldInv /\ [Next]_vars => HeldInv'
  <2> SUFFICES ASSUME NetworkInv, HeldInv, [Next]_vars PROVE HeldInv'
    OBVIOUS
  <2>1. CASE NetworkdStep \/ NetplanStep \/ WickedStep
    BY <2>1 DEF NetworkdStep, NetplanStep, WickedStep, HeldInv
  <2>2. CASE DhclientStep
    BY <2>2, LeaseKept DEF DhclientStep, NetworkInv, HeldInv
  <2>3. CASE NetworkManagerStep
    BY <2>3, ConnectionKept DEF NetworkManagerStep, NetworkInv, HeldInv
  <2>4. CASE UNCHANGED vars
    <3>1. LeaseInv' = LeaseInv /\ ConnectionInv' = ConnectionInv /\ UNCHANGED manager
      BY <2>4 DEF vars, setupVars, serverVars, dhclientVars, LeaseInv, ConnectionInv, Secured, InProfile, Has,
         Finished, Leased, Ubuntu1804, Managed, ShouldManage, ManagePrimary
    <3> QED BY <3>1 DEF HeldInv
  <2> QED BY <2>1, <2>2, <2>3, <2>4 DEF Next
<1> QED BY <1>1, <1>2, NetworkCorrect, PTL DEF Spec

\* Once the metadata counts as applied, and no command failed, every interface but the
\* primary one of Ubuntu 18.04 has its dhclient processes, and with NetworkManager the
\* primary one a connection, unless a rollback was cut short.
THEOREM LeasesAreHeld == Spec => []LeasesHeld
<1>1. ASSUME HeldInv, manager = "dhclient" PROVE DH!LeasesHeld
  BY <1>1 DEF HeldInv, LeaseInv, Has, Finished, Leased, Managed, ShouldManage, ManagePrimary, Ubuntu1804,
     DH!LeasesHeld, DH!Applied, DH!ShouldManage, DH!ManagePrimary, DH!Ubuntu1804
<1>2. ASSUME HeldInv, manager = "NetworkManager" PROVE NM!PrimaryConnected
  BY <1>2 DEF HeldInv, ConnectionInv, Secured, NM!PrimaryConnected
<1>3. HeldInv => LeasesHeld
  BY <1>1, <1>2 DEF LeasesHeld
<1> QED BY <1>3, HeldCorrect, PTL
=============================================================================
