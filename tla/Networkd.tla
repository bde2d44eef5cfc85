------------------------------ MODULE Networkd ------------------------------
(***************************************************************************)
(* The systemd-networkd manager: the .network and .netdev files the agent  *)
(* keeps in the configuration directory, and networkctl (external), which  *)
(* loads them on "reload" and removes links on "delete".                   *)
(***************************************************************************)
EXTENDS NetworkSetup, FiniteSets

VARIABLES
    network,   \* the .network files, by interface
    netdev,    \* the VLANs that have a .netdev file, and not an empty one
    old,       \* the interfaces that have files of the deprecated priority
    loaded,    \* the .network files systemd-networkd has read, by interface
    links,     \* the VLAN links that exist, the owner's too
    todo,      \* what the loop at pc has left
    cur,       \* the VLAN being written
    restart    \* requiresRestart

files == <<network, netdev, old>>
kernel == <<loaded, links>>
vars == <<setupVars, files, kernel, todo, cur, restart>>

Ifaces == Nics \cup Vlans \cup UserIfaces

\* matches: the [Match] section names the interface.
NetworkFiles ==
    [managed : BOOLEAN, matches : BOOLEAN, v6 : BOOLEAN, vlans : SUBSET Vlans]

EthernetFile(n) ==
    [managed |-> TRUE, matches |-> TRUE, v6 |-> n \in target.v6, vlans |-> {}]

VlanFile == [managed |-> TRUE, matches |-> TRUE, v6 |-> TRUE, vlans |-> {}]
UserFile == [managed |-> FALSE, matches |-> TRUE, v6 |-> FALSE, vlans |-> {}]
OldFile == [managed |-> TRUE, matches |-> TRUE, v6 |-> FALSE, vlans |-> {}]
EmptyFile == [managed |-> FALSE, matches |-> FALSE, v6 |-> FALSE, vlans |-> {}]

\* isGuestAgentManaged() of an interface's .network file; an empty one is nobody's.
IsManaged(i) == network[i] # NoFile /\ network[i].managed

\* networkctl reload: a file without a valid [Match] section is ignored, a
\* deprecated file comes first, and a VLAN link is created once its .netdev
\* file and the parent that lists it are both loaded.
Effective(net, dep) ==
    [i \in Ifaces |->
        IF i \in dep THEN OldFile
        ELSE IF net[i] # NoFile /\ net[i].matches THEN net[i]
        ELSE NoFile]

Created(config, nds) ==
    {v \in nds : config[Parent[v]] # NoFile /\ v \in config[Parent[v]].vlans}

Reload ==
    /\ loaded' = Effective(network', old')
    /\ links' = links \cup Created(loaded', netdev')

\* What is left of the .network files without those of I.
Without(I) == [i \in Ifaces |-> IF i \in I THEN NoFile ELSE network[i]]

Init ==
    /\ SetupInit
    /\ network = [i \in Ifaces |-> IF i \in UserIfaces THEN UserFile ELSE NoFile]
    /\ netdev = {}
    /\ old = Deprecated
    /\ loaded = Effective(network, old)
    /\ links = UserIfaces
    /\ todo = {}
    /\ cur = CHOOSE v \in Vlans : TRUE
    /\ restart = FALSE

----------------------------------------------------------------------------
(* rollbackConfigs().  A file that cannot be removed is only logged.       *)

\* The managed .network files of the interfaces N, and the deprecated ones.
RollbackEthernet(N) ==
    LET mine == {n \in N \ Absent : IsManaged(n)}
        gone == (mine \cup (old \cap N)) \ Absent
    IN  /\ network' = Without(mine)
        /\ old' = old \ (N \ Absent)
        /\ restart' = (gone # {})

\* RollbackNics() of the primary interface, by rollbackLeftoverConfigs().
RollbackLeftover ==
    /\ pc = "leftover"
    /\ pc' = IF active THEN "ethernet" ELSE "rollback"
    /\ todo' = IF active THEN {n \in target.nics : ShouldManage(n)} ELSE {}
    /\ UNCHANGED netdev
    /\ \/ /\ ~ManagePrimary
          /\ RollbackEthernet({Primary})
          /\ \/ (IF restart' THEN Reload ELSE UNCHANGED kernel) /\ UNCHANGED faults
             \/ restart' /\ Fault /\ UNCHANGED kernel
       \/ /\ ManagePrimary
          /\ UNCHANGED <<network, old, restart, kernel, faults>>
       \/ /\ ~ManagePrimary
          /\ Fault
          /\ UNCHANGED <<network, old, restart, kernel>>
    /\ UNCHANGED <<serverVars, target, seen, active, restarts, cur>>

\* The VLANs whose files removeVlanInterfaces() removes when it keeps K.
StaleVlans(K) == {v \in (Vlans \cup UserIfaces) \ K : IsManaged(v)}
StaleNetdevs(K) == netdev \ K

\* Fault: a VLAN that cannot be deleted ends the rollback.
RollbackAllOrNothing(N, reloads) ==
    LET mine == {i \in N \ Absent : IsManaged(i)}
        stale == StaleVlans({}) \ mine
    IN  IF stale \subseteq links
        THEN /\ network' = Without(mine \cup stale)
             /\ netdev' = {}
             /\ old' = old \ (N \ Absent)
             /\ links' = links \ stale
             /\ loaded' = IF reloads THEN Effective(network', old') ELSE loaded
        ELSE UNCHANGED <<files, kernel>>

\* Rollback(): the files of N, then those of the VLANs that are left.  networkctl
\* refuses to delete a link that does not exist, and then they keep their files.
\* Errors are only logged.
Rollback(N, reloads) ==
    LET mine == {i \in N \ Absent : IsManaged(i)}
        stale == StaleVlans({}) \ mine
        removed == mine \cup (IF stale \subseteq links THEN stale ELSE {})
    IN  /\ network' = Without(removed)
        /\ netdev' = IF stale \subseteq links THEN {} ELSE netdev
        /\ old' = old \ (N \ Absent)
        /\ links' = IF stale \subseteq links THEN links \ stale ELSE links
        /\ loaded' = IF reloads /\ files' # files THEN Effective(network', old') ELSE loaded

\* Another manager is active: this one is rolled back.
RollbackInactive ==
    /\ pc = "rollback"
    /\ pc' = "done"
    /\ \/ Rollback(target.nics, TRUE) /\ UNCHANGED faults
       \/ Rollback(target.nics, FALSE) /\ Fault
       \/ Fault /\ UNCHANGED <<files, kernel>>
    /\ UNCHANGED <<serverVars, target, seen, active, restarts, todo, cur, restart>>

\* FallbackToDefault(): every link, the VLANs too, whose .network files are gone
\* when removeVlanInterfaces() looks for links to delete: they stay.
FallbackToDefault ==
    /\ pc = "fallback"
    /\ pc' = "idle"
    /\ \/ Rollback(Nics \cup links, TRUE) /\ UNCHANGED faults
       \/ Rollback(Nics \cup links, FALSE) /\ Fault
       \/ Fault /\ UNCHANGED <<files, kernel>>
    /\ UNCHANGED <<serverVars, target, seen, active, restarts, todo, cur, restart>>

----------------------------------------------------------------------------
(* SetupEthernetInterface()                                                *)

\* One interface of writeEthernetConfig(): the file loses its VLANs.
WriteEthernetConfig ==
    /\ pc = "ethernet"
    /\ \E n \in todo :
        /\ network' = [network EXCEPT ![n] = EthernetFile(n)]
        /\ todo' = todo \ {n}
    /\ UNCHANGED <<setupVars, netdev, old, kernel, cur, restart>>

\* The .network files that are written at pc.
Written ==
    IF pc \in {"ethernet", "vlan"} THEN todo
    ELSE {p \in {Parent[cur]} : pc = "parent" /\ ~(network[p] # NoFile /\ cur \in network[p].vlans)}

\* SaveTo() truncates a file before it writes it: a step that fails, or is not
\* finished, leaves the file as it was, or empty.
Interrupted ==
    /\ \/ UNCHANGED <<network, netdev>>
       \/ \E i \in Written : network' = [network EXCEPT ![i] = EmptyFile] /\ UNCHANGED netdev
       \/ pc = "netdev" /\ netdev' = netdev \ {cur} /\ UNCHANGED network
    /\ UNCHANGED old

\* A write, or a command, returns an error that ends the setup.
StepFails(place) ==
    /\ pc = place
    /\ Fault
    /\ Interrupted
    /\ pc' = "idle"
    /\ UNCHANGED <<serverVars, target, seen, active, restarts, kernel, todo, cur, restart>>

WriteEthernetConfigFails == todo # {} /\ StepFails("ethernet")

\* rollbackNetwork() of the deprecated files; a failure is only logged.
RollbackDeprecated ==
    /\ pc = "ethernet" /\ todo = {}
    /\ pc' = "reload"
    /\ \/ old' = old \ (target.nics \ Absent) /\ UNCHANGED faults
       \/ old \cap target.nics # {} /\ Fault /\ UNCHANGED old
    /\ UNCHANGED <<serverVars, target, seen, active, restarts, network, netdev, kernel,
                   todo, cur, restart>>

ReloadEthernet ==
    /\ pc = "reload"
    /\ UNCHANGED files
    /\ Reload
    /\ pc' = "vlans"
    /\ UNCHANGED <<serverVars, target, seen, active, faults, restarts, todo, cur, restart>>

ReloadEthernetFails == StepFails("reload")

SetupVlanInterface ==
    /\ SetupVlans
    /\ todo' = target.vlans
    /\ UNCHANGED <<files, kernel, cur, restart>>

----------------------------------------------------------------------------
(* SetupVlanInterface(): three files for each VLAN, in the order of a map. *)

WriteVlanNetwork ==
    /\ pc = "vlan"
    /\ \E v \in todo :
        /\ network' = [network EXCEPT ![v] = VlanFile]
        /\ cur' = v
        /\ todo' = todo \ {v}
    /\ pc' = "netdev"
    /\ UNCHANGED <<serverVars, target, seen, active, faults, restarts, netdev, old, kernel,
                   restart>>

WriteVlanNetdev ==
    /\ pc = "netdev"
    /\ netdev' = netdev \cup {cur}
    /\ pc' = "parent"
    /\ UNCHANGED <<serverVars, target, seen, active, faults, restarts, network, old, kernel,
                   todo, cur, restart>>

\* A parent without a file is given one that holds the VLAN and nothing else.
WriteVlanParent ==
    /\ pc = "parent"
    /\ LET p == Parent[cur]
           config == IF network[p] = NoFile THEN EmptyFile ELSE network[p]
       IN  network' = IF cur \in config.vlans THEN network
                      ELSE [network EXCEPT ![p] = [config EXCEPT !.vlans = @ \cup {cur}]]
    /\ pc' = "vlan"
    /\ UNCHANGED <<serverVars, target, seen, active, faults, restarts, netdev, old, kernel,
                   todo, cur, restart>>

\* At "vlan" the files to remove may not be read either, or networkctl may fail.
WriteVlanFails == StepFails("vlan") \/ StepFails("netdev") \/ StepFails("parent")

\* Fault: only the VLANs' links are looked at.
RemoveVlanInterfacesLinked ==
    LET stale == StaleVlans(target.vlans) \cap links
        nds == StaleNetdevs(target.vlans) \cap links
    IN  /\ pc = "vlan" /\ todo = {}
        /\ links' = links \ stale
        /\ todo' = (stale \X {"network"}) \cup (nds \X {"netdev"})
        /\ restart' = (todo' # {})
        /\ pc' = "prune"
        /\ UNCHANGED <<serverVars, target, seen, active, faults, restarts, files, loaded, cur>>

\* removeVlanInterfaces(): all the stale links are deleted with one networkctl
\* command, which refuses if one of them does not exist.
RemoveVlanInterfaces ==
    LET stale == StaleVlans(target.vlans)
        nds == StaleNetdevs(target.vlans)
    IN  /\ pc = "vlan" /\ todo = {}
        /\ IF stale \subseteq links
           THEN /\ links' = links \ stale
                /\ todo' = (stale \X {"network"}) \cup (nds \X {"netdev"})
                /\ restart' = (todo' # {})
                /\ pc' = "prune"
           ELSE /\ pc' = "idle"
                /\ UNCHANGED <<links, todo, cur, restart>>
        /\ UNCHANGED <<serverVars, target, seen, active, faults, restarts, files, loaded, cur>>

RemoveVlanFile ==
    /\ pc = "prune"
    /\ \E f \in todo :
        /\ network' = IF f[2] = "network" THEN Without({f[1]}) ELSE network
        /\ netdev' = IF f[2] = "netdev" THEN netdev \ {f[1]} ELSE netdev
        /\ todo' = todo \ {f}
    /\ UNCHANGED <<setupVars, old, kernel, cur, restart>>

RemoveVlanFileFails == todo # {} /\ StepFails("prune")

\* Only a removal asks for a reload.
ReloadVlans ==
    /\ pc = "prune" /\ todo = {}
    /\ pc' = "done"
    /\ UNCHANGED files
    /\ IF restart THEN Reload ELSE UNCHANGED kernel
    /\ UNCHANGED <<serverVars, target, seen, active, faults, restarts, todo, cur, restart>>

ReloadVlansFails == todo = {} /\ restart /\ StepFails("prune")

----------------------------------------------------------------------------
(* The agent is restarted, or the guest is: then systemd-networkd reads    *)
(* the files as it starts, and creates the links anew.                     *)
RestartAgent ==
    /\ Restarting
    /\ Interrupted
    /\ UNCHANGED <<kernel, todo, cur, restart>>

Reboot ==
    /\ Restarting
    /\ Interrupted
    /\ loaded' = Effective(network', old')
    /\ links' = Created(loaded', netdev') \cup UserIfaces
    /\ UNCHANGED <<todo, cur, restart>>

Environment ==
    /\ ChangeMetadata \/ SwitchManager
    /\ UNCHANGED <<files, kernel, todo, cur, restart>>

Setup ==
    /\ Start \/ StartUnreachable \/ SetupInterfaces(TRUE) \/ Finish
    /\ UNCHANGED <<files, kernel, todo, cur, restart>>

Steps ==
    \/ RollbackLeftover \/ RollbackInactive \/ FallbackToDefault
    \/ WriteEthernetConfig \/ RollbackDeprecated \/ ReloadEthernet
    \/ SetupVlanInterface
    \/ WriteVlanNetwork \/ WriteVlanNetdev \/ WriteVlanParent
    \/ RemoveVlanInterfaces \/ RemoveVlanFile \/ ReloadVlans

Failures ==
    \/ WriteEthernetConfigFails \/ ReloadEthernetFails \/ WriteVlanFails
    \/ RemoveVlanFileFails \/ ReloadVlansFails

Next == Environment \/ Setup \/ Steps \/ Failures \/ RestartAgent \/ Reboot

Spec == Init /\ [][Next]_vars

----------------------------------------------------------------------------

\* Type invariant of the files and of what systemd-networkd has loaded.
TypeOK ==
    /\ SetupTypeOK
    /\ pc \in {"boot", "fallback", "idle", "leftover", "rollback", "ethernet", "reload",
               "vlans", "vlan", "netdev", "parent", "prune", "done"}
    /\ network \in [Ifaces -> NetworkFiles \cup {NoFile}]
    /\ loaded \in [Ifaces -> NetworkFiles \cup {NoFile}]
    /\ netdev \subseteq Vlans /\ links \subseteq Vlans \cup UserIfaces
    /\ old \subseteq Nics
    /\ cur \in Vlans
    /\ restart \in BOOLEAN

\* The files say what the descriptor d says.  A file that a write left empty is
\* taken for one of the owner's once its VLAN is gone: it stays, and so does the
\* link, if there is one.
OnDisk(d) ==
    /\ \A n \in d.nics : ShouldManage(n) =>
          network[n] = [managed |-> TRUE, matches |-> TRUE, v6 |-> n \in d.v6,
                        vlans |-> IF VlanSetup THEN {v \in d.vlans : Parent[v] = n} ELSE {}]
    /\ VlanSetup =>
          /\ netdev = d.vlans
          /\ \A v \in d.vlans : network[v] = VlanFile
          /\ \A v \in Vlans \ d.vlans :
                network[v] = NoFile \/ (network[v] = EmptyFile /\ faults + restarts > 0)

\* systemd-networkd has read the Ethernet interfaces of the metadata that counts
\* as applied, unless a deprecated file could not be removed, and every file if
\* the setup removed a VLAN.  The files of one that is only added are not read
\* until something else asks for it.
AppliedIsLoaded ==
    Applied /\ active =>
        /\ \A n \in seen.nics \ old : ShouldManage(n) =>
               loaded[n] # NoFile /\ loaded[n].v6 = (n \in seen.v6)
        /\ VlanSetup /\ restart => loaded = Effective(network, old)

\* Nothing of the Ethernet configuration is left for the interfaces in metadata,
\* unless a file could not be removed.
InactiveIsRolledBack ==
    Applied /\ ~active /\ faults = 0 => \A n \in seen.nics \ Absent : ~IsManaged(n) /\ n \notin old

\* networkctl refuses to delete the VLANs that are gone, as one has no link.
Refused == ~(StaleVlans(md.vlans) \subseteq links)

=============================================================================
