------------------------------- MODULE Netplan -------------------------------
(***************************************************************************)
(* The netplan manager: the two netplan drop-ins (all Ethernet interfaces  *)
(* in one, all VLANs in the other), an override for systemd-networkd per   *)
(* interface, and the commands (external) that load them.  A file that     *)
(* already says what it should is not written, and when none was written   *)
(* nothing is reloaded.  All the files are under /run.                     *)
(***************************************************************************)
EXTENDS NetworkSetup

VARIABLES
    ethernet,   \* the Ethernet drop-in: interfaces, and those with DHCPv6
    override,   \* the DHCP setting of each interface's override
    vlanFile,   \* the VLANs of the VLAN drop-in
    applied,    \* the files as they were when they were last loaded
    links,      \* the VLAN links that exist
    prefixed,   \* interfacePrefix is set in this process
    todo,       \* what the loop at pc has left
    reload,     \* a file was written, by the method under way
    spoiled     \* history: files wait for a reload that failed or was never run

files == <<ethernet, override, vlanFile>>
kernel == <<applied, links, spoiled>>
vars == <<setupVars, files, kernel, prefixed, todo, reload>>

Ifaces == Nics \cup Vlans

Dhcp(d, i) == IF i \in d.v6 THEN "yes" ELSE "ipv4"

\* The drop-in of writeNetplanEthernetDropin().
EthernetDropin(d) ==
    LET mine == {n \in d.nics : ShouldManage(n)}
    IN  [nics |-> mine, v6 |-> mine \cap d.v6]

\* "netplan generate" and "networkctl reload" (external): the VLANs listed are
\* created, and a link no longer listed stays.
Load(e, o, f) ==
    /\ applied' = <<e, o, f>>
    /\ links' = links \cup (IF f = NoFile THEN {} ELSE f)
    /\ spoiled' = FALSE

\* A step that ends the setup, or the agent, leaves files unread.
CutShort ==
    /\ UNCHANGED <<applied, links>>
    /\ spoiled' = (spoiled \/ files' # applied)

\* An agent that managed the primary interface may have run before.
Init ==
    /\ SetupInit
    /\ ethernet \in {NoFile, [nics |-> {Primary}, v6 |-> {}]}
    /\ override = [i \in Ifaces |-> IF ethernet # NoFile /\ i = Primary THEN "ipv4" ELSE NoFile]
    /\ vlanFile = NoFile
    /\ applied = files
    /\ links = {}
    /\ prefixed = FALSE
    /\ todo = {}
    /\ reload = FALSE
    /\ spoiled = FALSE

----------------------------------------------------------------------------
(* rollbackConfigs()                                                       *)

\* Overrides are named with the prefix, once Configure() has set it; the keys
\* of the Ethernet drop-in are prefixed, but looked up without it.  The VLANs
\* to remove are those of the descriptor's Interfaces, which SetupInterfaces()
\* and FallbackToDefault() have not filled in: none.
RollbackFiles(N) ==
    LET named == IF Debian12 /\ ~prefixed THEN {} ELSE N \ Absent
        listed == ~Debian12 /\ ethernet # NoFile /\ ethernet.nics \cap N # {}
    IN  /\ override' = [i \in Ifaces |-> IF i \in named THEN NoFile ELSE override[i]]
        /\ ethernet' = IF listed THEN NoFile ELSE ethernet
        /\ UNCHANGED vlanFile

\* The reload may fail, and a file may not be removed: that is only logged.
RollbackConfigs(N) ==
    \/ /\ RollbackFiles(N)
       /\ IF files' # files THEN Load(ethernet', override', vlanFile') ELSE UNCHANGED kernel
       /\ UNCHANGED faults
    \/ /\ RollbackFiles(N)
       /\ files' # files
       /\ Fault
       /\ CutShort
    \/ /\ Fault
       /\ UNCHANGED <<files, kernel>>

\* rollbackLeftoverConfigs(), then Configure() of the active manager.
RollbackLeftover ==
    /\ pc = "leftover"
    /\ pc' = IF active THEN "ethernet" ELSE "rollback"
    /\ IF ManagePrimary THEN UNCHANGED <<files, kernel, faults>>
       ELSE RollbackConfigs({Primary})
    /\ prefixed' = (active /\ Debian12)
    /\ reload' = FALSE
    /\ UNCHANGED <<serverVars, target, seen, active, restarts, todo>>

RollbackInactive ==
    /\ pc = "rollback"
    /\ pc' = "done"
    /\ RollbackConfigs(target.nics)
    /\ UNCHANGED <<serverVars, target, seen, active, restarts, prefixed, todo, reload>>

FallbackToDefault ==
    /\ pc = "fallback"
    /\ pc' = "idle"
    /\ RollbackConfigs(Nics)
    /\ UNCHANGED <<serverVars, target, seen, active, restarts, prefixed, todo, reload>>

----------------------------------------------------------------------------
(* SetupEthernetInterface()                                                *)

\* writeYamlFile() and writeIniFile() truncate a file before they write it: the
\* file that is written at pc may be left empty.
Truncated ==
    \/ /\ pc = "ethernet" /\ EthernetDropin(target).nics # {} /\ ethernet # EthernetDropin(target)
       /\ ethernet' = [nics |-> {}, v6 |-> {}]
       /\ UNCHANGED <<override, vlanFile>>
    \/ /\ pc \in {"overrides", "vlanOverrides"}
       /\ \E i \in todo :
            /\ override[i] # Dhcp(target, i)
            /\ override' = [override EXCEPT ![i] = "empty"]
       /\ UNCHANGED <<ethernet, vlanFile>>
    \/ /\ \/ pc = "vlanYaml" /\ ~(vlanFile \subseteq todo)
          \/ pc = "vlanDropin" /\ target.vlans # {} /\ vlanFile # target.vlans
       /\ vlanFile' = {}
       /\ UNCHANGED <<ethernet, override>>

Interrupted == UNCHANGED files \/ Truncated

\* A file cannot be written, or a command fails: the setup returns an error.
StepFails(place) ==
    /\ pc = place
    /\ Fault
    /\ Interrupted
    /\ CutShort
    /\ pc' = "idle"
    /\ UNCHANGED <<serverVars, target, seen, active, restarts, prefixed, todo, reload>>

\* Without an interface to manage the old drop-in is left as it is.
WriteEthernetDropin ==
    /\ pc = "ethernet"
    /\ LET new == EthernetDropin(target)
       IN  IF new.nics = {} \/ ethernet = new
           THEN UNCHANGED <<ethernet, reload>>
           ELSE ethernet' = new /\ reload' = TRUE
    /\ todo' = EthernetDropin(target).nics
    /\ pc' = "overrides"
    /\ UNCHANGED <<serverVars, target, seen, active, faults, restarts, override, vlanFile,
                   kernel, prefixed>>

\* Fault: the result of the last write decides.
WriteOverrideLast ==
    /\ pc \in {"overrides", "vlanOverrides"}
    /\ \E i \in todo :
        /\ override' = [override EXCEPT ![i] = Dhcp(target, i)]
        /\ reload' = (override[i] # Dhcp(target, i))
        /\ todo' = todo \ {i}
    /\ UNCHANGED <<setupVars, ethernet, vlanFile, kernel, prefixed>>

\* One interface of writeNetworkdDropin() or writeNetworkdVLANDropin().
WriteOverride ==
    /\ pc \in {"overrides", "vlanOverrides"}
    /\ \E i \in todo :
        /\ override' = [override EXCEPT ![i] = Dhcp(target, i)]
        /\ reload' = (reload \/ override[i] # Dhcp(target, i))
        /\ todo' = todo \ {i}
    /\ UNCHANGED <<setupVars, ethernet, vlanFile, kernel, prefixed>>

ReloadConfigs ==
    /\ pc \in {"overrides", "vlanOverrides"} /\ todo = {}
    /\ pc' = IF pc = "overrides" THEN "vlans" ELSE "done"
    /\ IF reload THEN Load(ethernet, override, vlanFile) ELSE UNCHANGED kernel
    /\ reload' = FALSE
    /\ UNCHANGED <<serverVars, target, seen, active, faults, restarts, files, prefixed, todo>>

\* Where that may happen; ReloadConfigs runs commands only if reload is set.
SetupFails ==
    \/ StepFails("ethernet")
    \/ \E place \in {"overrides", "vlanOverrides"} :
          (todo # {} \/ reload) /\ StepFails(place)
    \/ \E place \in {"vlan", "vlanYaml", "vlanDirs", "vlanDropin"} : StepFails(place)

----------------------------------------------------------------------------
(* SetupVlanInterface()                                                    *)

SetupVlanInterface ==
    /\ SetupVlans
    /\ UNCHANGED <<files, kernel, prefixed, todo, reload>>

\* findVlanDiff(), which finds nothing to remove in an empty drop-in, and
\* "networkctl delete", which refuses to delete a link that
\* does not exist.
DeleteVlans ==
    LET stale == IF vlanFile = NoFile THEN {} ELSE vlanFile \ target.vlans
    IN  /\ pc = "vlan"
        /\ todo' = IF stale \subseteq links THEN stale ELSE {}
        /\ links' = IF stale \subseteq links THEN links \ stale ELSE links
        /\ pc' = IF stale = {} THEN "vlanDropin"
                 ELSE IF stale \subseteq links THEN "vlanYaml" ELSE "idle"
        /\ UNCHANGED <<serverVars, target, seen, active, faults, restarts, files, applied,
                       spoiled, prefixed, reload>>

\* rollbackVlanNics() takes the deleted ones out of the drop-in.
UpdateVlanFile ==
    /\ pc = "vlanYaml"
    /\ vlanFile' = IF vlanFile \subseteq todo THEN NoFile ELSE vlanFile \ todo
    /\ pc' = "vlanDirs"
    /\ UNCHANGED <<serverVars, target, seen, active, faults, restarts, ethernet, override,
                   kernel, prefixed, todo, reload>>

RemoveVlanDirs ==
    /\ pc = "vlanDirs"
    /\ override' = [i \in Ifaces |-> IF i \in todo THEN NoFile ELSE override[i]]
    /\ reload' = TRUE
    /\ pc' = "vlanDropin"
    /\ UNCHANGED <<serverVars, target, seen, active, faults, restarts, ethernet, vlanFile,
                   kernel, prefixed, todo>>

\* writeNetplanVLANDropin(), then the overrides of writeNetworkdVLANDropin().
WriteVlanDropin ==
    /\ pc = "vlanDropin"
    /\ IF target.vlans = {} \/ vlanFile = target.vlans
       THEN UNCHANGED <<vlanFile, reload>>
       ELSE vlanFile' = target.vlans /\ reload' = TRUE
    /\ todo' = target.vlans
    /\ pc' = "vlanOverrides"
    /\ UNCHANGED <<serverVars, target, seen, active, faults, restarts, ethernet, override,
                   kernel, prefixed>>

----------------------------------------------------------------------------

\* The agent restarts; when the guest does, /run is empty.
RestartAgent ==
    /\ Restarting
    /\ Interrupted
    /\ CutShort
    /\ prefixed' = FALSE
    /\ UNCHANGED <<todo, reload>>

Reboot ==
    /\ Restarting
    /\ ethernet' = NoFile
    /\ override' = [i \in Ifaces |-> NoFile]
    /\ vlanFile' = NoFile
    /\ applied' = files'
    /\ links' = {}
    /\ spoiled' = FALSE
    /\ prefixed' = FALSE
    /\ UNCHANGED <<todo, reload>>

Environment ==
    /\ ChangeMetadata \/ SwitchManager
    /\ UNCHANGED <<files, kernel, prefixed, todo, reload>>

Setup ==
    /\ Start \/ StartUnreachable \/ SetupInterfaces(TRUE) \/ Finish
    /\ UNCHANGED <<files, kernel, prefixed, todo, reload>>

Steps ==
    \/ RollbackLeftover \/ RollbackInactive \/ FallbackToDefault
    \/ WriteEthernetDropin \/ WriteOverride \/ ReloadConfigs
    \/ SetupVlanInterface \/ DeleteVlans \/ UpdateVlanFile \/ RemoveVlanDirs \/ WriteVlanDropin

Next == Environment \/ Setup \/ Steps \/ SetupFails \/ RestartAgent \/ Reboot

Spec == Init /\ [][Next]_vars

----------------------------------------------------------------------------

\* Type invariant of the files and of what is loaded.
TypeOK ==
    /\ SetupTypeOK
    /\ pc \in {"boot", "fallback", "idle", "leftover", "rollback", "ethernet", "overrides",
               "vlans", "vlan", "vlanYaml", "vlanDirs", "vlanDropin", "vlanOverrides", "done"}
    /\ ethernet \in [nics : SUBSET Nics, v6 : SUBSET Nics] \cup {NoFile}
    /\ override \in [Ifaces -> {"ipv4", "yes", "empty", NoFile}]
    /\ vlanFile \in (SUBSET Vlans) \cup {NoFile}
    /\ links \subseteq Vlans
    /\ prefixed \in BOOLEAN /\ reload \in BOOLEAN /\ spoiled \in BOOLEAN

\* The files say what the descriptor d says, if it has something for them.  A
\* VLAN drop-in that a write left empty stays when there are no more VLANs.
OnDisk(d) ==
    LET mine == EthernetDropin(d)
    IN  /\ mine.nics # {} => ethernet = mine
        /\ \A n \in mine.nics : override[n] = Dhcp(d, n)
        /\ VlanSetup =>
              /\ \/ d.vlans # {} /\ vlanFile = d.vlans
                 \/ d.vlans = {} /\ vlanFile = NoFile
                 \/ d.vlans = {} /\ vlanFile = {} /\ faults + restarts > 0
              /\ \A v \in d.vlans : override[v] = Dhcp(d, v)

\* The files of the metadata that counts as applied are the ones last loaded,
\* unless a reload failed or the agent died before it, and none came since: the
\* next setup finds the files as they should be and does not reload either.
AppliedIsLoaded == Applied /\ active => applied = files \/ spoiled

\* A VLAN link exists exactly when the metadata that counts as applied has it,
\* unless a reload was lost or the agent died between deleting a link and its
\* file.
VlanLinksMatch ==
    Applied /\ active /\ VlanSetup /\ faults + restarts = 0 => links = seen.vlans

\* networkctl refuses to delete the VLANs that are gone, as one has no link.
Refused == vlanFile # NoFile /\ ~(vlanFile \ md.vlans \subseteq links)

=============================================================================
