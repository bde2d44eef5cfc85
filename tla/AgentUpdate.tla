---------------------------- MODULE AgentUpdate ----------------------------
(***************************************************************************)
(* The agent's main loop: the metadata watcher long-polls the metadata     *)
(* tree, the LongpollEvent callback of runAgent() takes each descriptor    *)
(* and runs the managers concurrently.  Two managers are modelled, the two *)
(* ways the agent's managers decide whether to act: the address manager    *)
(* runs on every event, the clock skew manager on a new drift token only.  *)
(***************************************************************************)
EXTENDS MetadataClient, FiniteSets

CONSTANTS
    Root,       \* the key of the whole metadata, which Watch() polls
    Ips,        \* forwarded addresses of the primary interface
    Tokens,     \* virtual clock drift tokens
    NoToken,    \* the drift token of the empty descriptor
    MaxRemovals \* bound: routes removed by somebody else

Descriptors == Values[Root]

ASSUME AgentAssumption ==
    /\ Root \in DOMAIN Values
    /\ Descriptors \subseteq [ips : SUBSET Ips, token : Tokens]
    /\ NoToken \notin Tokens
    /\ MaxRemovals \in Nat

VARIABLES
    newMetadata, oldMetadata,
    hPc,       \* the callback: idle or running the managers
    addrPc,    \* addressMgr's goroutine
    clockPc,   \* clockskewMgr's goroutine
    toAdd, toRm,  \* compareRoutes() of the running Set()
    routes,    \* the agent's routes in the local table
    tried,     \* drift token Set() last ran for
    removals   \* removals so far

addrVars == <<addrPc, toAdd, toRm, routes>>
clockVars == <<clockPc, tried>>
mdVars == <<newMetadata, oldMetadata>>
agentVars == <<mdVars, hPc, addrVars, clockVars, removals>>

EmptyDescriptor == [ips |-> {}, token |-> NoToken]

AgentInit ==
    /\ newMetadata = EmptyDescriptor
    /\ oldMetadata = EmptyDescriptor
    /\ hPc = "idle"
    /\ addrPc = "off" /\ clockPc = "off"
    /\ toAdd = {} /\ toRm = {} /\ routes = {}
    /\ tried = NoToken
    /\ removals = 0

\* The watcher's Run(): one Watch() call.  runWatcher calls it again as soon
\* as the callback handler took the event, while the managers still run.
Watch == Call /\ UNCHANGED agentVars

\* A failed Watch(), or a descriptor that does not unmarshal, is ignored.
IgnoreEvent ==
    /\ hPc = "idle"
    /\ \/ pc = "fail" /\ UNCHANGED faults
       \/ pc = "ok" /\ faults < MaxFaults /\ faults' = faults + 1
    /\ pc' = "idle"
    /\ UNCHANGED <<serverVars, etag, attempt, body, err, ctxEnded, agentVars>>

\* Fault: oldMetadata is assigned before the managers run.
HandleEventOldFirst ==
    /\ hPc = "idle" /\ pc = "ok"
    /\ pc' = "idle"
    /\ newMetadata' = body
    /\ oldMetadata' = body
    /\ hPc' = "update"
    /\ addrPc' = "start" /\ clockPc' = "start"
    /\ UNCHANGED <<serverVars, etag, attempt, body, err, ctxEnded, faults, toAdd,
                   toRm, routes, tried, removals>>

\* The callback of LongpollEvent up to runUpdate()'s goroutines.
HandleEvent ==
    /\ hPc = "idle" /\ pc = "ok"
    /\ pc' = "idle"
    /\ newMetadata' = body
    /\ hPc' = "update"
    /\ addrPc' = "start" /\ clockPc' = "start"
    /\ UNCHANGED <<serverVars, etag, attempt, body, err, ctxEnded, faults, oldMetadata, toAdd,
                   toRm, routes, tried, removals>>

\* wg.Wait() and the end of the callback.
UpdateDone ==
    /\ hPc = "update" /\ addrPc = "off" /\ clockPc = "off"
    /\ oldMetadata' = newMetadata
    /\ hPc' = "idle"
    /\ UNCHANGED <<clientVars, newMetadata, addrVars, clockVars, removals>>

-----------------------------------------------------------------------------
(* addressMgr.Set() with one interface.                                    *)

CompareRoutes(configured, desired) ==
    [add |-> desired \ configured, rm |-> configured \ desired]

\* A command that fails is logged and passed over.
AddLocalRoute(ip) ==
    \/ routes' = routes \cup {ip} /\ UNCHANGED faults
    \/ faults < MaxFaults /\ faults' = faults + 1 /\ UNCHANGED routes

RemoveLocalRoute(ip) ==
    \/ routes' = routes \ {ip} /\ UNCHANGED faults
    \/ faults < MaxFaults /\ faults' = faults + 1 /\ UNCHANGED routes

\* Diff() is always true; getLocalRoutes() and compareRoutes().
AddressRead ==
    /\ addrPc = "start"
    /\ LET cmp == CompareRoutes(routes, newMetadata.ips)
       IN  toAdd' = cmp.add /\ toRm' = cmp.rm
    /\ addrPc' = "apply"
    /\ UNCHANGED <<clientVars, mdVars, hPc, routes, clockVars, removals>>

\* SetupInterfaces() or getLocalRoutes() fails.
AddressReadFails ==
    /\ addrPc = "start"
    /\ faults < MaxFaults /\ faults' = faults + 1
    /\ addrPc' = "off"
    /\ UNCHANGED <<serverVars, etag, callVars, ctxEnded, mdVars, hPc, toAdd, toRm, routes,
                   clockVars, removals>>

AddressAdd(ip) ==
    /\ addrPc = "apply" /\ ip \in toAdd
    /\ toAdd' = toAdd \ {ip}
    /\ AddLocalRoute(ip)
    /\ UNCHANGED <<serverVars, etag, callVars, ctxEnded, mdVars, hPc, addrPc, toRm, clockVars,
                   removals>>

AddressRemove(ip) ==
    /\ addrPc = "apply" /\ toAdd = {} /\ ip \in toRm
    /\ toRm' = toRm \ {ip}
    /\ RemoveLocalRoute(ip)
    /\ UNCHANGED <<serverVars, etag, callVars, ctxEnded, mdVars, hPc, addrPc, toAdd, clockVars,
                   removals>>

AddressDone ==
    /\ addrPc = "apply" /\ toAdd = {} /\ toRm = {}
    /\ addrPc' = "off"
    /\ UNCHANGED <<clientVars, mdVars, hPc, toAdd, toRm, routes, clockVars, removals>>

-----------------------------------------------------------------------------
(* clockskewMgr.                                                           *)

ClockNoDiff ==
    /\ clockPc = "start" /\ newMetadata.token = oldMetadata.token
    /\ clockPc' = "off"
    /\ UNCHANGED <<clientVars, mdVars, hPc, addrVars, tried, removals>>

\* A command that fails is only logged.
ClockSet ==
    /\ clockPc = "start" /\ newMetadata.token # oldMetadata.token
    /\ clockPc' = "off"
    /\ tried' = newMetadata.token
    /\ UNCHANGED <<clientVars, mdVars, hPc, addrVars, removals>>

-----------------------------------------------------------------------------
\* Somebody else removes a route of the agent.
RemoveRoute(ip) ==
    /\ removals < MaxRemovals
    /\ ip \in routes
    /\ routes' = routes \ {ip}
    /\ removals' = removals + 1
    /\ UNCHANGED <<clientVars, mdVars, hPc, addrPc, toAdd, toRm, clockVars>>

WatchStep == (CallStep /\ UNCHANGED agentVars) \/ Watch
HandlerStep == IgnoreEvent \/ HandleEvent \/ UpdateDone
AddressStep ==
    \/ AddressRead \/ AddressReadFails \/ AddressDone
    \/ \E ip \in Ips : AddressAdd(ip) \/ AddressRemove(ip)
ClockStep == ClockNoDiff \/ ClockSet

AgentNext ==
    \/ WatchStep \/ HandlerStep \/ AddressStep \/ ClockStep
    \/ \E ip \in Ips : RemoveRoute(ip)
    \/ (ServerChange \/ CancelWatch) /\ UNCHANGED agentVars

-----------------------------------------------------------------------------
\* Type invariant of the agent's variables.
AgentTypeOK ==
    /\ {newMetadata, oldMetadata} \subseteq Descriptors \cup {EmptyDescriptor}
    /\ hPc \in {"idle", "update"}
    /\ addrPc \in {"off", "start", "apply"} /\ clockPc \in {"off", "start"}
    /\ toAdd \subseteq Ips /\ toRm \subseteq Ips /\ routes \subseteq Ips
    /\ tried \in Tokens \cup {NoToken}
    /\ removals \in 0..MaxRemovals

\* "Always running the manager guarantees routes will be re added in case they
\* were removed by any external factor": the routes become what the metadata asks
\* for and, whoever removes one and whatever fails on the way, become so again as
\* long as the metadata stays the same; and its drift token is acted on, however
\* many other changes and failed requests there are before and after it.
DescriptorActedOn ==
    \A d \in Descriptors :
        value = d ~> ((routes = d.ips /\ tried = d.token) \/ value # d \/ ctxEnded)
=============================================================================
