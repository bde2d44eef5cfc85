-------------------------- MODULE GracefulShutdown --------------------------
(***************************************************************************)
(* The graceful shutdown watcher (events/gracefulshutdown): it watches     *)
(* instance/shutdown-details/stop-state with a metadata client of its own  *)
(* and has the graceful shutdown scripts run when the VM is about to stop. *)
(***************************************************************************)
EXTENDS MetadataClient, ScriptRunner

CONSTANTS
    StopState,      \* the key
    PendingStop     \* its value "PENDING_STOP"

ASSUME ShutdownAssumption == StopState \in DOMAIN Values /\ PendingStop \in Values[StopState]

VARIABLE gPc       \* the watcher's Run(), and runWatcher around it

shutdownVars == <<gPc, scriptVars>>

ShutdownInit ==
    /\ gPc = "start"
    /\ ScriptInit

WatchKey ==
    /\ gPc = "start"
    /\ Call
    /\ gPc' = "watch"
    /\ UNCHANGED scriptVars

\* The error branches: which delay Run() waits for.
WatchFailed ==
    /\ gPc = "watch" /\ pc = "fail"
    /\ pc' = "idle"
    /\ gPc' = IF err.isMDS /\ err.status = "404" THEN "minute" ELSE "seconds"
    /\ UNCHANGED <<serverVars, etag, attempt, body, err, ctxEnded, faults, scriptVars>>

DelayEnds ==
    /\ gPc \in {"minute", "seconds"}
    /\ gPc' = IF ctxEnded THEN "end" ELSE "start"
    /\ UNCHANGED <<clientVars, scriptVars>>

\* WatchKey() returned a value.
Watched ==
    /\ gPc = "watch" /\ pc = "ok"
    /\ pc' = "idle"
    /\ gPc' = IF body = PendingStop THEN "scripts" ELSE "start"
    /\ UNCHANGED <<serverVars, etag, attempt, body, err, ctxEnded, faults, scriptVars>>

\* runGracefulShutdownScript(): "systemctl start" of the service, or the program
\* itself, which may fail to start.
RunGracefulShutdownScript ==
    /\ gPc = "scripts"
    /\ StartRunner \/ StartRunnerFails
    /\ UNCHANGED <<clientVars, gPc>>

\* The command ends with the program, and with it the watcher.
ScriptsDone ==
    /\ gPc = "scripts" /\ Ended
    /\ gPc' = "end"
    /\ UNCHANGED <<clientVars, scriptVars>>

\* The event manager does not renew a watcher once it is leaving.
Leave ==
    /\ gPc = "start" /\ ctxEnded
    /\ gPc' = "end"
    /\ UNCHANGED <<clientVars, scriptVars>>

WatchKeyStep == CallStep /\ UNCHANGED shutdownVars
StopWatcherStep ==
    \/ WatchKey \/ WatchFailed \/ DelayEnds \/ Watched
    \/ RunGracefulShutdownScript \/ ScriptsDone \/ Leave
RunnerStep == ScriptStep /\ UNCHANGED <<clientVars, gPc>>

ShutdownNext ==
    \/ WatchKeyStep \/ StopWatcherStep \/ RunnerStep
    \/ (ServerChange \/ CancelWatch) /\ UNCHANGED shutdownVars

-----------------------------------------------------------------------------
\* Type invariant of the watcher.
ShutdownTypeOK ==
    /\ ScriptTypeOK
    /\ gPc \in {"start", "watch", "minute", "seconds", "scripts", "end"}

\* The scripts of the instance, or else those of the project.
ScriptsToRun ==
    LET own == ParseMetadata("instance") IN IF own # <<>> THEN own ELSE ParseMetadata("project")

\* A stop that stays pending gets every script run, in the order of getWantedKeys(),
\* whichever of them fail before it and also when the answer that announced the stop
\* was lost after the etag had been stored; only a runner that cannot start or cannot
\* read the attributes is given up.
StopRunsScripts ==
    value = PendingStop ~>
        \/ rPc = "end" /\ attempted = ScriptsToRun
        \/ rPc = "fatal" \/ value # PendingStop \/ ctxEnded

\* A cancelled watcher gives up whatever its client is doing; scripts that run by
\* then are let finish.
CancelEndsWatch == (key = StopState /\ ctxEnded) ~> (gPc = "end" /\ tmpDirs = {})
=============================================================================
