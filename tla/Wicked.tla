------------------------------- MODULE Wicked -------------------------------
(***************************************************************************)
(* The wicked manager: an ifcfg file for each interface, and wicked        *)
(* (external), which takes one interface up, or down if its file is gone,  *)
(* with "ifup" and "ifreload".                                             *)
(***************************************************************************)
EXTENDS NetworkSetup

VARIABLES
    network,   \* whose ifcfg file each interface has
    loaded,    \* the interfaces wicked has set up from the agent's files
    changed,   \* the interfaces whose files writeEthernetConfigs() wrote
    todo,      \* what the loop at pc has left
    cur,       \* the VLAN being written or removed
    spoiled    \* history: interfaces that a failure or a restart left half done

loop == <<changed, todo, cur>>
vars == <<setupVars, network, loaded, loop, spoiled>>

Ifaces == Nics \cup Vlans \cup UserIfaces

\* An empty file is one that was created and not written.
Files == {NoFile, "agent", "owner", "empty"}

\* The files and wicked disagree about these.
Differing == {i \in Ifaces : network'[i] = "empty" \/ (network'[i] = "agent") # (i \in loaded')}

\* A step that ends the setup leaves them so.
CutShort == spoiled' = spoiled \cup Differing

\* The image comes with a file for the primary interface.
Init ==
    /\ SetupInit
    /\ network = [i \in Ifaces |-> IF i \in UserIfaces \cup {Primary} THEN "owner" ELSE NoFile]
    /\ loaded = {} /\ changed = {} /\ todo = {} /\ spoiled = {}
    /\ cur = CHOOSE v \in Vlans : TRUE

----------------------------------------------------------------------------
(* Rollback().  The first interface is passed over, so that RollbackNics() *)
(* of the primary alone does nothing, and an error is only logged.  There  *)
(* are no VLANs among the interfaces it is called with.                    *)

RollbackLeftover ==
    /\ pc = "leftover"
    /\ pc' = IF active THEN "ethernet" ELSE "rollback"
    /\ todo' = IF active THEN {n \in target.nics : ShouldManage(n)} ELSE {}
    /\ changed' = {}
    /\ UNCHANGED <<serverVars, target, seen, active, faults, restarts, network, loaded, cur, spoiled>>

\* removeInterface() of each: one that fails leaves the file, or wicked without
\* its ifreload.
Rollback(N) ==
    LET mine == {n \in N \ {Primary} : network[n] = "agent"}
        Removing(F, L) ==
            /\ network' = [i \in Ifaces |-> IF i \in F THEN NoFile ELSE network[i]]
            /\ loaded' = loaded \ L
    IN  \/ Removing(mine, mine) /\ UNCHANGED <<faults, spoiled>>
        \/ \E n \in mine :
            /\ Removing(mine \ {n}, mine \ {n}) \/ Removing(mine, mine \ {n})
            /\ Fault
            /\ spoiled' = spoiled \cup {n}

RollbackInactive ==
    /\ pc = "rollback"
    /\ pc' = "done"
    /\ Rollback(target.nics)
    /\ UNCHANGED <<serverVars, target, seen, active, restarts, loop>>

\* FallbackToDefault(): every link that has an address, the VLANs too.
FallbackToDefault ==
    /\ pc = "fallback"
    /\ pc' = "idle"
    /\ Rollback(Nics \cup (loaded \cap Vlans))
    /\ UNCHANGED <<serverVars, target, seen, active, restarts, loop>>

----------------------------------------------------------------------------
(* SetupEthernetInterface()                                                *)

\* writeEthernetConfigs(): a file that exists is left alone.
WriteEthernetConfig ==
    /\ pc = "ethernet"
    /\ \E n \in todo :
        /\ todo' = todo \ {n}
        /\ IF network[n] = NoFile
           THEN network' = [network EXCEPT ![n] = "agent"] /\ changed' = changed \cup {n}
           ELSE UNCHANGED <<network, changed>>
    /\ UNCHANGED <<setupVars, loaded, cur, spoiled>>

\* A file that is being written may be left empty.
Interrupted ==
    \/ UNCHANGED network
    \/ /\ pc = "ethernet"
       /\ \E n \in todo : network[n] = NoFile /\ network' = [network EXCEPT ![n] = "empty"]

WriteEthernetConfigFails ==
    /\ pc = "ethernet" /\ \E n \in todo : network[n] = NoFile
    /\ Interrupted
    /\ Fault
    /\ pc' = "idle"
    /\ UNCHANGED <<serverVars, target, seen, active, restarts, loaded, loop>>
    /\ CutShort

\* One ifreload for the files that were written; none if there are none.
IfreloadEthernet ==
    /\ pc = "ethernet" /\ todo = {}
    /\ loaded' = loaded \cup changed
    /\ pc' = "vlans"
    /\ UNCHANGED <<serverVars, target, seen, active, faults, restarts, network, loop, spoiled>>

\* A command or a file operation returns an error that ends the setup; at "vlan"
\* that is creating a file, listing them, or reading or removing a stale one.
StepFails ==
    /\ \/ pc = "ethernet" /\ todo = {} /\ changed # {}
       \/ pc \in {"vlan", "write", "ifup", "ifreload"}
    /\ Fault
    /\ pc' = "idle"
    /\ UNCHANGED <<serverVars, target, seen, active, restarts, network, loaded, loop>>
    /\ CutShort

----------------------------------------------------------------------------
(* SetupVlanInterface()                                                    *)

SetupVlanInterface ==
    /\ SetupVlans
    /\ todo' = target.vlans
    /\ UNCHANGED <<network, loaded, changed, cur, spoiled>>

CreateVlanFile ==
    /\ pc = "vlan"
    /\ \E v \in todo :
        /\ todo' = todo \ {v} /\ cur' = v
        /\ network' = [network EXCEPT ![v] = "empty"]
    /\ pc' = "write"
    /\ UNCHANGED <<serverVars, target, seen, active, faults, restarts, loaded, changed, spoiled>>

WriteVlanFile ==
    /\ pc = "write"
    /\ network' = [network EXCEPT ![cur] = "agent"]
    /\ pc' = "ifup"
    /\ UNCHANGED <<serverVars, target, seen, active, faults, restarts, loaded, loop, spoiled>>

IfupVlan ==
    /\ pc = "ifup"
    /\ loaded' = loaded \cup {cur} /\ spoiled' = spoiled \ {cur}
    /\ pc' = "vlan"
    /\ UNCHANGED <<serverVars, target, seen, active, faults, restarts, network, loop>>

\* Fault: the interface is not reloaded.
RemoveVlanFileOnly ==
    /\ pc = "vlan" /\ todo = {}
    /\ \/ \E v \in (Vlans \cup UserIfaces) \ target.vlans :
            /\ network[v] = "agent"
            /\ network' = [network EXCEPT ![v] = NoFile]
            /\ UNCHANGED <<pc, cur>>
       \/ /\ \A v \in (Vlans \cup UserIfaces) \ target.vlans : network[v] # "agent"
          /\ pc' = "done"
          /\ UNCHANGED <<network, cur>>
    /\ UNCHANGED <<serverVars, target, seen, active, faults, restarts, loaded, changed, todo, spoiled>>

\* cleanupVlanInterfaces(): the files named like the agent's VLANs that metadata no
\* longer has, if they begin with the agent's comment.
RemoveVlanFile ==
    /\ pc = "vlan" /\ todo = {}
    /\ \/ \E v \in (Vlans \cup UserIfaces) \ target.vlans :
            /\ network[v] = "agent"
            /\ network' = [network EXCEPT ![v] = NoFile]
            /\ pc' = "ifreload" /\ cur' = v
       \/ /\ \A v \in (Vlans \cup UserIfaces) \ target.vlans : network[v] # "agent"
          /\ pc' = "done"
          /\ UNCHANGED <<network, cur>>
    /\ UNCHANGED <<serverVars, target, seen, active, faults, restarts, loaded, changed, todo, spoiled>>

IfreloadVlan ==
    /\ pc = "ifreload"
    /\ loaded' = loaded \ {cur}
    /\ pc' = "vlan"
    /\ UNCHANGED <<serverVars, target, seen, active, faults, restarts, network, loop, spoiled>>

----------------------------------------------------------------------------

RestartAgent ==
    /\ Restarting
    /\ Interrupted
    /\ UNCHANGED <<loaded, loop>>
    /\ CutShort

\* wicked reads every file as the guest starts.
Reboot ==
    /\ Restarting
    /\ Interrupted
    /\ loaded' = {i \in Ifaces : network'[i] = "agent"}
    /\ spoiled' = {i \in Ifaces : network'[i] = "empty"}
    /\ UNCHANGED loop

Environment ==
    /\ ChangeMetadata \/ SwitchManager
    /\ UNCHANGED <<network, loaded, loop, spoiled>>

Setup ==
    /\ Start \/ StartUnreachable \/ SetupInterfaces(TRUE) \/ Finish
    /\ UNCHANGED <<network, loaded, loop, spoiled>>

Steps ==
    \/ RollbackLeftover \/ RollbackInactive \/ FallbackToDefault
    \/ WriteEthernetConfig \/ IfreloadEthernet
    \/ SetupVlanInterface \/ CreateVlanFile \/ WriteVlanFile \/ IfupVlan
    \/ RemoveVlanFile \/ IfreloadVlan

Next ==
    Environment \/ Setup \/ Steps \/ WriteEthernetConfigFails \/ StepFails \/ RestartAgent \/ Reboot

Spec == Init /\ [][Next]_vars

----------------------------------------------------------------------------

\* Type invariant of the files and of what wicked has set up.
TypeOK ==
    /\ SetupTypeOK
    /\ pc \in {"boot", "fallback", "idle", "leftover", "rollback", "ethernet", "vlans", "vlan",
               "write", "ifup", "ifreload", "done"}
    /\ network \in [Ifaces -> Files]
    /\ UNION {loaded, changed, spoiled} \subseteq Ifaces
    /\ cur \in Ifaces

\* The owner's files are never touched.
OwnersKept == \A i \in UserIfaces \cup {Primary} : network[i] = "owner"

\* The files say what the descriptor d says.  An empty one that a failed write left
\* is taken for a file of the owner's.
OnDisk(d) ==
    /\ OwnersKept
    /\ \A n \in d.nics \ {Primary} : ShouldManage(n) => network[n] = "agent" \/ n \in spoiled
    /\ VlanSetup => \A v \in Vlans : v \notin spoiled => (network[v] = "agent" <=> v \in d.vlans)

\* The interfaces of the metadata that counts as applied are set up, unless the
\* setup that wrote the file was cut short before its ifreload: the next one finds
\* the file and changes nothing.
AppliedIsLoaded ==
    Applied /\ active =>
        \A n \in seen.nics \ {Primary} : ShouldManage(n) => n \in loaded \cup spoiled

\* The VLANs that are up are those of the metadata that counts as applied, and those
\* whose file was removed without an ifreload.
VlanLinksMatch ==
    Applied /\ active /\ VlanSetup =>
        /\ seen.vlans \subseteq loaded
        /\ (loaded \cap Vlans) \ spoiled \subseteq seen.vlans

\* No Ethernet interface in metadata keeps a file of the agent's.
InactiveIsRolledBack ==
    Applied /\ ~active => \A n \in seen.nics : network[n] # "agent" \/ n \in spoiled

=============================================================================
