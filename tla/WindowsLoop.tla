---------------------------- MODULE WindowsLoop ----------------------------
(***************************************************************************)
(* The managers that availableManagers() adds on Windows, and the events   *)
(* that run them: runAgent()'s callback takes the metadata of the time,    *)
(* runs every manager and keeps the descriptor as oldMetadata.  The        *)
(* managers share nothing, so that a behaviour follows one of them, and a  *)
(* descriptor is the part of it that this one reads.                       *)
(***************************************************************************)
EXTENDS Naturals, Sequences, SequencesExt

CONSTANTS
    Parts,           \* for each manager, what its part of the metadata may be
    NoPart,          \* and what it is in the empty descriptor
    MaxWinChanges,   \* bound: changes of the metadata
    MaxRestarts,     \* bound: restarts of the agent, crashes included
    MaxWinFaults     \* bound: crashes and system calls that fail

WindowsManagers == {"accounts", "diagnostics", "wsfc", "addresses"}

ASSUME WindowsAssumption ==
    /\ DOMAIN Parts \subseteq WindowsManagers
    /\ DOMAIN NoPart = DOMAIN Parts
    /\ {MaxWinChanges, MaxRestarts, MaxWinFaults} \subseteq Nat

VARIABLES
    mgr,          \* the manager
    wMd,          \* what the metadata server holds
    wNew, wOld,   \* newMetadata and oldMetadata
    wPc,          \* the manager's goroutine; "idle" between two events
    wChanges, wRestarts,
    wFaults       \* how many faults there were, and of which kinds

eventVars == <<mgr, wMd, wNew, wOld, wPc, wChanges, wRestarts, wFaults>>

LoopInit ==
    /\ mgr \in DOMAIN Parts
    /\ wMd \in Parts[mgr]
    /\ wNew = NoPart[mgr] /\ wOld = NoPart[mgr]
    /\ wPc = "idle"
    /\ wChanges = 0 /\ wRestarts = 0 /\ wFaults = [number |-> 0, kinds |-> {}]

ChangeMetadata ==
    /\ wChanges < MaxWinChanges /\ wChanges' = wChanges + 1
    /\ wMd' \in Parts[mgr] \ {wMd}
    /\ UNCHANGED <<mgr, wNew, wOld, wPc, wRestarts, wFaults>>

\* The long poll is answered on a change or after timeout_sec.
MetadataEvent ==
    /\ wPc = "idle"
    /\ wNew' = wMd
    /\ wPc' = "start"
    /\ UNCHANGED <<mgr, wMd, wOld, wChanges, wRestarts, wFaults>>

WinFault(kind) ==
    /\ wFaults.number < MaxWinFaults
    /\ wFaults' = [number |-> wFaults.number + 1, kinds |-> wFaults.kinds \cup {kind}]

\* A step of the manager: of the loop it changes wPc, and wFaults if it can fail.
Goto(next) ==
    /\ wPc' = next
    /\ UNCHANGED <<mgr, wMd, wNew, wOld, wChanges, wRestarts>>

\* The manager has returned, with or without an error, and so does the callback.
EventDone ==
    /\ wPc' = "idle"
    /\ wOld' = wNew
    /\ UNCHANGED <<mgr, wMd, wNew, wChanges, wRestarts>>

\* A new agent process.  To stop one in the middle of an event is a fault.
RestartAgent ==
    /\ wRestarts < MaxRestarts /\ wRestarts' = wRestarts + 1
    /\ IF wPc = "idle" THEN UNCHANGED wFaults ELSE WinFault("crash")
    /\ wPc' = "idle"
    /\ wNew' = NoPart[mgr] /\ wOld' = NoPart[mgr]
    /\ UNCHANGED <<mgr, wMd, wChanges>>
=============================================================================
