---------------------------- MODULE Diagnostics ----------------------------
(***************************************************************************)
(* The diagnostics manager (diagnostics.go): a request in the metadata     *)
(* starts a program that collects logs and uploads them, beside the agent, *)
(* one at a time.  The requests it has started are kept in the registry.   *)
(***************************************************************************)
EXTENDS WindowsLoop

VARIABLES
    recorded,    \* the registry's Diagnostics
    collecting,  \* the request the program is running for, while isDiagnosticsRunning
    collected,   \* history: how often it was started for each request
    missed       \* history: the last request, if it came when it could not be served

diagnosticsVars == <<recorded, collecting, collected, missed>>

\* A request is served if it parses and has a URL that is not expired.
Requests == IF "diagnostics" \in DOMAIN Parts THEN {d.request : d \in Parts["diagnostics"]} ELSE {}

DiagnosticsInit ==
    /\ recorded = {} /\ collecting = {}
    /\ collected = [r \in Requests |-> 0]
    /\ missed = {}

\* Disabled(): diagnostics are on unless they are switched off.
DiagnosticsDisabled(d) == d.enable = "false"

\* Set() starts the program for these.
Collects == wNew.request \notin recorded /\ wNew.request.valid

\* The event is passed over: the manager is disabled, there is no new request, it was
\* started before or cannot be served, or the program is running already.
PassRequest ==
    /\ mgr = "diagnostics" /\ wPc = "start"
    /\ \/ DiagnosticsDisabled(wNew) /\ UNCHANGED wFaults
       \/ wNew.request = wOld.request /\ UNCHANGED wFaults
       \/ ~DiagnosticsDisabled(wNew) /\ wNew.request # wOld.request /\ WinFault("read")
       \/ ~Collects /\ UNCHANGED wFaults
       \/ collecting # {} /\ UNCHANGED wFaults
    /\ EventDone
    /\ missed' = IF wNew.request = wOld.request THEN missed
                 ELSE {r \in {wNew.request} : \/ DiagnosticsDisabled(wNew) \/ collecting # {}
                                              \/ wFaults' # wFaults}
    /\ UNCHANGED <<recorded, collecting, collected>>

\* The program is started before the request is recorded.
CollectLogs ==
    /\ mgr = "diagnostics" /\ wPc = "start"
    /\ ~DiagnosticsDisabled(wNew) /\ wNew.request # wOld.request
    /\ Collects /\ collecting = {}
    /\ collecting' = {wNew.request}
    /\ collected' = [collected EXCEPT ![wNew.request] = @ + 1]
    /\ missed' = {}
    /\ Goto("record")
    /\ UNCHANGED <<wFaults, recorded>>

RecordRequest ==
    /\ mgr = "diagnostics" /\ wPc = "record"
    /\ \/ recorded' = recorded \cup {wNew.request} /\ UNCHANGED wFaults
       \/ WinFault("write") /\ UNCHANGED recorded
    /\ EventDone
    /\ UNCHANGED <<collecting, collected, missed>>

\* The program ends, failed or not.
CollectDone ==
    /\ collecting # {}
    /\ collecting' = {}
    /\ UNCHANGED <<eventVars, recorded, collected, missed>>

DiagnosticsStep == PassRequest \/ CollectLogs \/ RecordRequest

\* Neither isDiagnosticsRunning nor oldMetadata outlives the process.
DiagnosticsRestarted == collecting' = {} /\ missed' = {} /\ UNCHANGED <<recorded, collected>>

-----------------------------------------------------------------------------
\* Type invariant of the diagnostics.
DiagnosticsTypeOK ==
    /\ UNION {recorded, collecting, missed} \subseteq Requests
    /\ collected \in [Requests -> Nat]

\* A request that can be served is served, at the latest when the agent is restarted
\* or the request is made again.  Until then one may wait that was looked at while
\* diagnostics were off, the program was running or the registry could not be read:
\* its descriptor has become oldMetadata.
RequestsServed ==
    wMd.request.valid => collected[wMd.request] > 0 \/ wMd.request \in missed

\* Logs are collected once for a request, however often the agent restarts and the
\* request comes back, unless its record was lost.
CollectedOnce == \A r \in Requests : collected[r] <= 1 + wFaults.number
=============================================================================
