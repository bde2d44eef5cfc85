--------------------------- MODULE NetworkManager ---------------------------
(***************************************************************************)
(* The NetworkManager manager: a connection profile for each interface,    *)
(* and nmcli (external), which reads the profiles on "conn reload" and     *)
(* connects interfaces.  An interface whose profile disappears loses its   *)
(* connection, and the primary one gets none until it is told to connect.  *)
(***************************************************************************)
EXTENDS NetworkSetup

VARIABLES
    network,   \* the agent's profiles, by interface
    old,       \* interfaces with an ifcfg file of an older agent
    loaded,    \* the agent's profiles NetworkManager knows
    links,     \* the interfaces that are connected, with whatever profile
    todo,      \* what the loop at pc has left
    cur,       \* where a rollback returns to
    restart,   \* reconnectPrimaryNic
    spoiled    \* history: interfaces left without a connection by a rollback cut short

files == <<network, old>>
daemon == <<loaded, links>>
vars == <<setupVars, files, daemon, todo, cur, restart, spoiled>>

Ifaces == Nics \cup Vlans

\* A profile that others can read, or that is empty, is ignored.
Files == {NoFile, "open", "empty", "agent"}

\* nmcli conn reload: profiles of VLANs connect by themselves.
Reload ==
    /\ loaded' = {i \in Ifaces : network'[i] = "agent"}
    /\ links' = (links \ (loaded \ loaded')) \cup (loaded' \cap Vlans)

\* An agent that managed the primary interface may have run before.
Init ==
    /\ SetupInit
    /\ \E f \in {NoFile, "agent"} : network = [i \in Ifaces |-> IF i = Primary THEN f ELSE NoFile]
    /\ old = Deprecated
    /\ loaded = {i \in Ifaces : network[i] = "agent"}
    /\ links = Nics \ Absent
    /\ todo = {} /\ cur = "idle" /\ restart = FALSE /\ spoiled = {}

----------------------------------------------------------------------------
(* rollbackConfigs().  There are no VLANs among the interfaces it is       *)
(* called with, but those of FallbackToDefault() are every link.           *)

Connectionless == IF restart' THEN {Primary} ELSE {}

\* removeInterface() of each: a profile without the agent's mark, as an empty one
\* is, stays but counts as removed.  A file that cannot be removed is only logged,
\* and one that NetworkManager does not read takes the connection with it.
RemoveInterfaces(N, return) ==
    LET mine == {i \in N : network[i] # NoFile}
        Removing(F) ==
            /\ network' = [i \in Ifaces |-> IF i \in F /\ network[i] # "empty" THEN NoFile
                                             ELSE network[i]]
            /\ restart' = (Primary \in F)
    IN  /\ \/ Removing(mine) /\ UNCHANGED <<faults, spoiled>>
           \/ \E i \in mine :
                /\ Removing(mine \ {i}) /\ Fault
                /\ spoiled' = spoiled \cup {j \in {i} : network[j] # "agent"}
        /\ cur' = return
        /\ pc' = "nmreload"
        /\ UNCHANGED <<serverVars, target, seen, active, restarts, old, daemon>>

RollbackLeftover ==
    /\ pc = "leftover"
    /\ LET return == IF active THEN "ethernet" ELSE "rollback"
       IN  IF ManagePrimary
           THEN pc' = return /\ UNCHANGED <<serverVars, target, seen, active, faults, restarts, files,
                                            daemon, cur, restart, spoiled>>
           ELSE RemoveInterfaces({Primary}, return)
    /\ todo' = IF active THEN {n \in target.nics : ShouldManage(n)} ELSE {}

RollbackInactive ==
    pc = "rollback" /\ RemoveInterfaces(target.nics, "done") /\ UNCHANGED todo

FallbackToDefault ==
    pc = "fallback" /\ RemoveInterfaces(Nics \cup (links \cap Vlans), "idle") /\ UNCHANGED todo

RollbackReload ==
    /\ pc = "nmreload"
    /\ UNCHANGED files
    /\ Reload
    /\ pc' = IF restart THEN "connect" ELSE cur
    /\ UNCHANGED <<serverVars, target, seen, active, faults, restarts, todo, cur, restart, spoiled>>

\* Fault: the primary interface is left to NetworkManager.
DeviceConnectSkipped ==
    /\ pc = "connect"
    /\ restart' = FALSE
    /\ pc' = cur
    /\ UNCHANGED <<serverVars, target, seen, active, faults, restarts, files, daemon, todo, cur, spoiled>>

DeviceConnect ==
    /\ pc = "connect"
    /\ links' = links \cup {Primary} /\ spoiled' = {}
    /\ restart' = FALSE
    /\ pc' = cur
    /\ UNCHANGED <<serverVars, target, seen, active, faults, restarts, files, loaded, todo, cur>>

\* Either command fails: the callers log it and go on.
RollbackFails ==
    /\ pc \in {"nmreload", "connect"} /\ Fault
    /\ UNCHANGED restart
    /\ spoiled' = spoiled \cup Connectionless
    /\ pc' = cur
    /\ UNCHANGED <<serverVars, target, seen, active, restarts, files, daemon, todo, cur>>

----------------------------------------------------------------------------
(* SetupEthernetInterface()                                                *)

WriteConfig ==
    /\ pc = "ethernet"
    /\ \E n \in todo :
        /\ todo' = todo \ {n}
        /\ network' = [network EXCEPT ![n] = "agent"]
        /\ old' = old \ {n}
    /\ UNCHANGED <<setupVars, daemon, cur, restart, spoiled>>

\* The write, the Chmod() after it or the removal of the old file is not done: the
\* profile may be empty, open if it is new, or written.
Interrupted ==
    \/ UNCHANGED network
    \/ /\ pc \in {"ethernet", "vlan"}
       /\ \E i \in todo, f \in {"empty", "open", "agent"} :
            /\ f = "open" => network[i] # "agent"
            /\ network' = [network EXCEPT ![i] = f]

WriteConfigFails ==
    /\ pc \in {"ethernet", "vlan"} /\ todo # {}
    /\ Interrupted
    /\ Fault
    /\ pc' = "idle"
    /\ UNCHANGED <<serverVars, target, seen, active, restarts, old, daemon, todo, cur, restart, spoiled>>

ReloadEthernet ==
    /\ pc = "ethernet" /\ todo = {}
    /\ UNCHANGED files
    /\ Reload
    /\ todo' = {n \in target.nics : ShouldManage(n)}
    /\ pc' = "up"
    /\ UNCHANGED <<serverVars, target, seen, active, faults, restarts, cur, restart, spoiled>>

\* nmcli conn up, one interface after the other.
ConnUp ==
    /\ pc = "up"
    /\ \/ \E n \in todo :
            /\ todo' = todo \ {n}
            /\ links' = links \cup {n} /\ spoiled' = spoiled \ {n}
            /\ UNCHANGED pc
       \/ todo = {} /\ pc' = "vlans" /\ UNCHANGED <<todo, links, spoiled>>
    /\ UNCHANGED <<serverVars, target, seen, active, faults, restarts, files, loaded, cur, restart>>

\* A command returns an error that ends the setup.
StepFails ==
    /\ \/ pc \in {"ethernet", "vlan"} /\ todo = {}
       \/ pc = "up" /\ todo # {}
    /\ Fault
    /\ pc' = "idle"
    /\ UNCHANGED <<serverVars, target, seen, active, restarts, files, daemon, todo, cur, restart, spoiled>>

----------------------------------------------------------------------------
(* SetupVlanInterface(): no profile is ever removed.                       *)

SetupVlanInterface ==
    /\ pc = "vlans"
    /\ IF VlanSetup /\ target.vlans = {}
       THEN pc' = "done" /\ UNCHANGED <<serverVars, target, seen, active, faults, restarts>>
       ELSE SetupVlans
    /\ todo' = target.vlans
    /\ UNCHANGED <<files, daemon, cur, restart, spoiled>>

WriteVlanConfig ==
    /\ pc = "vlan"
    /\ \E v \in todo :
        /\ todo' = todo \ {v}
        /\ network' = [network EXCEPT ![v] = "agent"]
    /\ UNCHANGED <<setupVars, old, daemon, cur, restart, spoiled>>

ReloadVlans ==
    /\ pc = "vlan" /\ todo = {}
    /\ UNCHANGED files
    /\ Reload
    /\ pc' = "done"
    /\ UNCHANGED <<serverVars, target, seen, active, faults, restarts, todo, cur, restart, spoiled>>

----------------------------------------------------------------------------

\* A rollback that is cut short is not taken up again: the file is gone.
RestartAgent ==
    /\ Restarting
    /\ UNCHANGED restart
    /\ spoiled' = IF pc \in {"nmreload", "connect"} THEN spoiled \cup Connectionless ELSE spoiled
    /\ Interrupted
    /\ UNCHANGED <<old, daemon, todo, cur>>

\* Every interface is connected anew, the ones without a profile by default.
Reboot ==
    /\ Restarting
    /\ Interrupted
    /\ loaded' = {i \in Ifaces : network'[i] = "agent"}
    /\ links' = (Nics \ Absent) \cup (loaded' \cap Vlans)
    /\ spoiled' = {}
    /\ UNCHANGED <<old, todo, cur, restart>>

Environment ==
    /\ ChangeMetadata \/ SwitchManager
    /\ UNCHANGED <<files, daemon, todo, cur, restart, spoiled>>

Setup ==
    /\ Start \/ StartUnreachable \/ SetupInterfaces(Primary \in links) \/ Finish
    /\ UNCHANGED <<files, daemon, todo, cur, restart, spoiled>>

Steps ==
    \/ RollbackLeftover \/ RollbackInactive \/ FallbackToDefault
    \/ RollbackReload \/ DeviceConnect
    \/ WriteConfig \/ ReloadEthernet \/ ConnUp
    \/ SetupVlanInterface \/ WriteVlanConfig \/ ReloadVlans

Failures == RollbackFails \/ WriteConfigFails \/ StepFails

Next == Environment \/ Setup \/ Steps \/ Failures \/ RestartAgent \/ Reboot

Spec == Init /\ [][Next]_vars

----------------------------------------------------------------------------

\* Type invariant of the profiles and of NetworkManager's state.
TypeOK ==
    /\ SetupTypeOK
    /\ pc \in {"boot", "fallback", "idle", "leftover", "rollback", "nmreload", "connect", "ethernet",
               "up", "vlans", "vlan", "done"}
    /\ network \in [Ifaces -> Files] /\ old \subseteq Nics
    /\ UNION {loaded, links, spoiled} \subseteq Ifaces
    /\ cur \in {"ethernet", "rollback", "done", "idle"} /\ restart \in BOOLEAN

\* The profiles of the descriptor d are there, and only they are for its Ethernet
\* interfaces.  Those of earlier VLANs stay.
OnDisk(d) ==
    /\ \A n \in d.nics : ShouldManage(n) => network[n] = "agent" /\ n \notin old
    /\ VlanSetup => \A v \in d.vlans : network[v] = "agent"

\* The interfaces of the metadata that counts as applied are connected with the
\* agent's profiles, and its VLANs are.
AppliedIsLoaded ==
    Applied /\ active =>
        \A i \in {n \in seen.nics : ShouldManage(n)} \cup (IF VlanSetup THEN seen.vlans ELSE {}) :
            i \in loaded \cap links

\* The primary interface keeps a connection, or gets one back, whoever has managed
\* it before, unless the rollback of its profile was cut short.
PrimaryConnected == pc = "idle" => Primary \in links \cup spoiled

\* No Ethernet interface in metadata keeps a profile of the agent's, unless a file
\* could not be removed.
InactiveIsRolledBack ==
    Applied /\ ~active /\ faults = 0 => \A n \in seen.nics : network[n] \in {NoFile, "empty"}

\* The primary interface is not connected, and so is nobody's.
Undetected == manages /\ Primary \notin links /\ ~HasDhclient

=============================================================================
