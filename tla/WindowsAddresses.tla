-------------------------- MODULE WindowsAddresses --------------------------
(***************************************************************************)
(* addressMgr.Set() on Windows, for one interface: the forwarded addresses *)
(* that the cluster does not own are added to the interface, and the       *)
(* registry records which of its addresses are the agent's.                *)
(***************************************************************************)
EXTENDS WindowsLoop

CONSTANTS
    WinIps,   \* addresses
    OwnIps    \* those that the owner has given the interface

VARIABLES
    configured,   \* addresses of the interface
    forwards,     \* those that the registry says are the agent's
    found,        \* configuredIPs of the running Set()
    entries,      \* its registryEntries
    addrAdd, addrRm, \* its toAdd and toRm, as far as they are left
    listed           \* history: addresses that the metadata has asked for

addressVars == <<configured, forwards, found, entries, addrAdd, addrRm, listed>>

WinAddressInit ==
    /\ configured = OwnIps /\ forwards = {}
    /\ found = {} /\ entries = {} /\ addrAdd = {} /\ addrRm = {} /\ listed = {}

\* applyWSFCFilter(): the addresses of the cluster are left to it, and all of them if
\* it is enabled without saying which.
ApplyWSFCFilter(d) ==
    IF d.wsfcAddresses # {} THEN d.ips \ d.wsfcAddresses ELSE IF d.wsfcEnable THEN {} ELSE d.ips

AddrAt(p) == mgr = "addresses" /\ wPc = p

\* Diff() is always true.  The addresses of the interface and the registry are read;
\* if the former cannot be, it looks as if there were none.
ReadForwards ==
    LET want == ApplyWSFCFilter(wNew)
        forwarded == found' \cap forwards
    IN  /\ AddrAt("start")
        /\ \/ found' = configured /\ UNCHANGED wFaults
           \/ found' = {} /\ WinFault("addrs")
        /\ addrAdd' = want \ forwarded
        /\ addrRm' = forwarded \ want
        /\ entries' = want \cap forwarded
        /\ listed' = listed \cup want
        /\ Goto("add")
        /\ UNCHANGED <<configured, forwards>>

ReadForwardsFails ==
    /\ AddrAt("start") /\ WinFault("read")
    /\ EventDone
    /\ UNCHANGED addressVars

\* The system refuses an address that it has.
SystemAdds(ip) == ip \notin configured /\ configured' = configured \cup {ip}
SystemRemoves(ip) == configured' = configured \ {ip}

\* An address that was found is recorded as the agent's, whoever configured it.
AddAddress(ip) ==
    /\ AddrAt("add") /\ ip \in addrAdd
    /\ addrAdd' = addrAdd \ {ip}
    /\ \/ /\ (ip \in found /\ UNCHANGED configured) \/ (ip \notin found /\ SystemAdds(ip))
          /\ entries' = entries \cup {ip} /\ UNCHANGED wFaults
       \/ ip \notin found /\ WinFault("add") /\ UNCHANGED <<configured, entries>>
       \/ ip \in configured \ found /\ UNCHANGED <<configured, entries, wFaults>>
    /\ Goto("add")
    /\ UNCHANGED <<forwards, found, addrRm, listed>>

RemoveAddress(ip) ==
    /\ AddrAt("add") /\ addrAdd = {} /\ ip \in addrRm
    /\ addrRm' = addrRm \ {ip}
    /\ \/ SystemRemoves(ip) /\ UNCHANGED <<entries, wFaults>>
       \/ WinFault("remove") /\ entries' = entries \cup {ip} /\ UNCHANGED configured
    /\ Goto("add")
    /\ UNCHANGED <<forwards, found, addrAdd, listed>>

WriteForwards ==
    /\ AddrAt("add") /\ addrAdd = {} /\ addrRm = {}
    /\ \/ forwards' = entries /\ UNCHANGED wFaults
       \/ WinFault("write") /\ UNCHANGED forwards
    /\ EventDone
    /\ UNCHANGED <<configured, found, entries, addrAdd, addrRm, listed>>

WinAddressStep ==
    \/ ReadForwards \/ ReadForwardsFails \/ WriteForwards
    \/ \E ip \in WinIps : AddAddress(ip) \/ RemoveAddress(ip)

WinAddressRestarted ==
    /\ found' = {} /\ entries' = {} /\ addrAdd' = {} /\ addrRm' = {}
    /\ UNCHANGED <<configured, forwards, listed>>

-----------------------------------------------------------------------------
\* Type invariant of the addresses.
WinAddressTypeOK ==
    UNION {configured, forwards, found, entries, addrAdd, addrRm, listed} \subseteq WinIps

\* The interface has the addresses the metadata asks for, keeps those of its owner
\* that the metadata never asked for, and has no other, also after some could not be
\* added or removed.  One of the owner's that the metadata asked for once is the
\* agent's from then on, and goes when it is asked for no more.  One that has lost its
\* record, because the registry could not be written in time or was overwritten when
\* the addresses could not be read, is taken for the owner's and may stay.
AddressesAsAsked ==
    LET want == ApplyWSFCFilter(wMd)
        lost == IF wFaults.kinds \cap {"write", "crash", "addrs"} = {} THEN {} ELSE configured \ forwards
    IN  /\ want \cup (OwnIps \ listed) \subseteq configured
        /\ configured \ want \subseteq OwnIps \cup lost
=============================================================================
