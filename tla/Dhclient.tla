------------------------------ MODULE Dhclient ------------------------------
(***************************************************************************)
(* The dhclient manager: one dhclient process (external) per interface and *)
(* IP version, found again in the process table, and VLAN links set up     *)
(* with ip commands (external).  NetworkInterfaces.DHCPCommand, which      *)
(* replaces the Ethernet part by a command of the owner's, is not set.     *)
(***************************************************************************)
EXTENDS NetworkSetup, Sequences, SequencesExt

VARIABLES
    procs,   \* the flags of the dhclient processes of each interface, as /proc lists them
    links,   \* how far each VLAN link is configured
    plan,    \* what partitionInterfaces() returned, less what is done
    todo,    \* the VLANs the loop has left
    cur      \* the VLAN being set up

system == <<procs, links>>
loop == <<plan, todo, cur>>
vars == <<setupVars, system, loop>>

\* A link does not exist, exists, has its MAC address and MTU, and is up with
\* its addresses and routes.
LinkStates == {"none", "bare", "same", "full"}
NoPlan == [release |-> {}, obtain4 |-> {}, obtain6 |-> {}]

\* A dhclient process starts: its place in /proc, which is sorted by the names
\* of its entries, is anywhere.  A second one for the same files exits.
Obtain(n, flag) ==
    IF flag \in ToSet(procs[n]) THEN UNCHANGED procs
    ELSE \E i \in 1..(Len(procs[n]) + 1) :
             procs' = [procs EXCEPT ![n] = InsertAt(@, i, flag)]

\* dhclient -r ends the process of its pid file.
Without(p, flag) ==
    IF flag \in ToSet(p) THEN RemoveAt(p, CHOOSE i \in DOMAIN p : p[i] = flag) ELSE p

\* dhclientProcessExists(): for IPv6, the first process that names the
\* interface decides.
ProcessExists(p, flag) ==
    IF flag = "-6" THEN p # <<>> /\ p[1] = "-6" ELSE "-4" \in ToSet(p)

\* An agent that managed the primary interface may have run before.
Init ==
    /\ SetupInit
    /\ \E p \in {<<>>, <<"-4">>} : procs = [n \in Nics |-> IF n = Primary THEN p ELSE <<>>]
    /\ links = [v \in Vlans |-> "none"]
    /\ plan = NoPlan
    /\ todo = {}
    /\ cur = CHOOSE v \in Vlans : TRUE

----------------------------------------------------------------------------
(* Rollback() and RollbackNics()                                           *)

\* RollbackNics(): the IPv4 clients of N are released, then the IPv6 ones of
\* N6.  An error ends it, and is logged by the caller.
Released(N, N6) ==
    [n \in Nics |->
        LET p == IF n \in N \ Absent THEN Without(procs[n], "-4") ELSE procs[n]
        IN  IF n \in N6 \ Absent /\ ProcessExists(p, "-6")
            THEN Without(p, "-6") ELSE p]

RollbackNics(N, N6) ==
    \/ procs' = Released(N, N6) /\ UNCHANGED faults
    \/ Fault /\ UNCHANGED procs

\* Rollback(): VLANs are removed if there is still a client for one of N.
Rollback(N, N6) ==
    \/ /\ procs' = Released(N, N6)
       /\ LET managed == \E n \in N \ Absent : procs'[n] # <<>>
          IN  links' = IF managed THEN [v \in Vlans |-> "none"] ELSE links
       /\ UNCHANGED faults
    \/ Fault /\ UNCHANGED system

RollbackLeftover ==
    /\ pc = "leftover"
    /\ pc' = IF active THEN "ethernet" ELSE "rollback"
    /\ IF ManagePrimary THEN UNCHANGED <<procs, faults>>
       ELSE RollbackNics({Primary}, {Primary} \cap target.v6)
    /\ UNCHANGED <<serverVars, target, seen, active, restarts, links, loop>>

RollbackInactive ==
    /\ pc = "rollback"
    /\ pc' = "done"
    /\ Rollback(target.nics, target.v6)
    /\ UNCHANGED <<serverVars, target, seen, active, restarts, loop>>

\* The interfaces of FallbackToDefault() have no DHCPv6Refresh.
FallbackToDefault ==
    /\ pc = "fallback"
    /\ pc' = "idle"
    /\ Rollback(Nics, {})
    /\ UNCHANGED <<serverVars, target, seen, active, restarts, loop>>

----------------------------------------------------------------------------
(* SetupEthernetInterface(): the process table is read before anything is  *)
(* done.  A dhclient that fails is only logged.                            *)

\* On Ubuntu 18.04 the primary interface is left to the guest's netplan.
PartitionInterfaces ==
    /\ pc = "ethernet"
    /\ LET mine == {n \in target.nics : ShouldManage(n) /\ ~(n = Primary /\ Ubuntu1804)}
       IN  plan' = [release |-> {n \in mine \ target.v6 : ProcessExists(procs[n], "-6")},
                    obtain4 |-> {n \in mine : ~ProcessExists(procs[n], "-4")},
                    obtain6 |-> {n \in mine \cap target.v6 : ~ProcessExists(procs[n], "-6")}]
    /\ pc' = "leases"
    /\ UNCHANGED <<serverVars, target, seen, active, faults, restarts, system, todo, cur>>

ReleaseIpv6 ==
    /\ pc = "leases"
    /\ \E n \in plan.release :
        /\ plan' = [plan EXCEPT !.release = @ \ {n}]
        /\ \/ /\ procs' = [procs EXCEPT ![n] = Without(@, "-6")]
              /\ UNCHANGED faults
           \/ Fault /\ UNCHANGED procs
    /\ UNCHANGED <<serverVars, target, seen, active, pc, restarts, links, todo, cur>>

ObtainIpv4 ==
    /\ pc = "leases" /\ plan.release = {}
    /\ \E n \in plan.obtain4 :
        /\ plan' = [plan EXCEPT !.obtain4 = @ \ {n}]
        /\ \/ Obtain(n, "-4") /\ UNCHANGED faults
           \/ Fault /\ UNCHANGED procs
    /\ UNCHANGED <<serverVars, target, seen, active, pc, restarts, links, todo, cur>>

ObtainIpv6 ==
    /\ pc = "leases" /\ plan.release = {} /\ plan.obtain4 = {}
    /\ \E n \in plan.obtain6 :
        /\ plan' = [plan EXCEPT !.obtain6 = @ \ {n}]
        /\ \/ Obtain(n, "-6") /\ UNCHANGED faults
           \/ Fault /\ UNCHANGED procs
    /\ UNCHANGED <<serverVars, target, seen, active, pc, restarts, links, todo, cur>>

\* What ends the setup when it fails: reading the process table or the list of
\* links, sysctl before an IPv6 client, and the ip commands, which at "vlan" delete
\* a link.
StepFails ==
    /\ \/ pc = "leases" /\ plan.release = {} /\ plan.obtain4 = {} /\ plan.obtain6 # {}
       \/ pc \in {"ethernet", "vlan", "add", "set", "address"}
    /\ Fault
    /\ pc' = "idle"
    /\ UNCHANGED <<serverVars, target, seen, active, restarts, system, loop>>

EthernetDone ==
    /\ pc = "leases" /\ plan = NoPlan
    /\ pc' = "vlans"
    /\ UNCHANGED <<serverVars, target, seen, active, faults, restarts, system, loop>>

----------------------------------------------------------------------------
(* SetupVlanInterface()                                                    *)

SetupVlanInterface ==
    /\ SetupVlans
    /\ todo' = target.vlans
    /\ UNCHANGED <<system, plan, cur>>

\* Fault: a link that exists with other settings is not deleted first.
StartVlanOver ==
    /\ pc = "vlan"
    /\ \E v \in todo :
        /\ todo' = todo \ {v}
        /\ cur' = v
        /\ pc' = IF links[v] \in {"same", "full"} THEN "vlan"
                 ELSE IF links[v] = "bare" THEN "idle" ELSE "add"
    /\ UNCHANGED <<serverVars, target, seen, active, faults, restarts, system, plan>>

\* A link that has the MAC address and the MTU is kept; another one is deleted.
StartVlan ==
    /\ pc = "vlan"
    /\ \E v \in todo :
        /\ todo' = todo \ {v}
        /\ cur' = v
        /\ IF links[v] \in {"same", "full"}
           THEN UNCHANGED <<pc, links>>
           ELSE pc' = "add" /\ links' = [links EXCEPT ![v] = "none"]
    /\ UNCHANGED <<serverVars, target, seen, active, faults, restarts, procs, plan>>

\* The commands of vlanIfaceCommonSet, then those that set addresses and routes.
ConfigureVlan ==
    /\ \/ pc = "add" /\ pc' = "set" /\ links' = [links EXCEPT ![cur] = "bare"]
       \/ pc = "set" /\ pc' = "address" /\ links' = [links EXCEPT ![cur] = "same"]
       \/ pc = "address" /\ pc' = "vlan" /\ links' = [links EXCEPT ![cur] = "full"]
    /\ UNCHANGED <<serverVars, target, seen, active, faults, restarts, procs, loop>>

\* removeVlanInterfaces(): the links that are not kept, one by one.
RemoveVlanInterfaces ==
    LET stale == {v \in Vlans \ target.vlans : links[v] # "none"}
    IN  /\ pc = "vlan" /\ todo = {}
        /\ \/ stale = {} /\ pc' = "done" /\ UNCHANGED links
           \/ \E v \in stale : links' = [links EXCEPT ![v] = "none"] /\ UNCHANGED pc
        /\ UNCHANGED <<serverVars, target, seen, active, faults, restarts, procs, loop>>

----------------------------------------------------------------------------

\* google-guest-agent.service has no KillMode, so the clients end with the
\* agent; those of google-guest-agent-manager.service stay.
RestartAgent ==
    /\ Restarting
    /\ procs' \in {procs, [n \in Nics |-> <<>>]}
    /\ UNCHANGED <<links, loop>>

Reboot ==
    /\ Restarting
    /\ procs' = [n \in Nics |-> <<>>]
    /\ links' = [v \in Vlans |-> "none"]
    /\ UNCHANGED loop

Environment ==
    /\ ChangeMetadata \/ SwitchManager
    /\ UNCHANGED <<system, loop>>

Setup ==
    /\ Start \/ StartUnreachable \/ SetupInterfaces(TRUE) \/ Finish
    /\ UNCHANGED <<system, loop>>

Steps ==
    \/ RollbackLeftover \/ RollbackInactive \/ FallbackToDefault
    \/ PartitionInterfaces \/ ReleaseIpv6 \/ ObtainIpv4 \/ ObtainIpv6 \/ EthernetDone
    \/ SetupVlanInterface \/ StartVlan \/ ConfigureVlan \/ RemoveVlanInterfaces

Next == Environment \/ Setup \/ Steps \/ StepFails \/ RestartAgent \/ Reboot

Spec == Init /\ [][Next]_vars

----------------------------------------------------------------------------

\* Type invariant of the clients, the links and the setup under way.
TypeOK ==
    /\ SetupTypeOK
    /\ pc \in {"boot", "fallback", "idle", "leftover", "rollback", "ethernet", "leases",
               "vlans", "vlan", "add", "set", "address", "done"}
    /\ procs \in [Nics -> {<<>>, <<"-4">>, <<"-6">>, <<"-4", "-6">>, <<"-6", "-4">>}]
    /\ links \in [Vlans -> LinkStates]
    /\ plan \in [release : SUBSET Nics, obtain4 : SUBSET Nics, obtain6 : SUBSET Nics]
    /\ cur \in Vlans

\* Every interface has a client for each IP version it has, unless a command
\* failed: that is only logged, and not tried again.  The primary one of Ubuntu
\* 18.04 is not the agent's.
LeasesHeld ==
    Applied /\ active /\ faults = 0 =>
        \A n \in {m \in seen.nics : ShouldManage(m)} \ (IF Ubuntu1804 THEN {Primary} ELSE {}) :
            /\ "-4" \in ToSet(procs[n])
            /\ n \in seen.v6 => "-6" \in ToSet(procs[n])

\* The VLAN links are those of the metadata that counts as applied.
VlanLinksMatch ==
    Applied /\ active /\ VlanSetup => {v \in Vlans : links[v] # "none"} = seen.vlans

=============================================================================
