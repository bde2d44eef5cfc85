------------------------------ MODULE Watchers ------------------------------
(***************************************************************************)
(* The agent's watchers of the metadata: the metadata watcher, which polls *)
(* the whole tree, with what its event makes the agent do, and the watcher *)
(* of stop-state.  Each has a client with an etag of its own and they share*)
(* nothing, so a behaviour is one of the one or of the other.              *)
(***************************************************************************)
EXTENDS AgentUpdate, GracefulShutdown

watchersVars == <<clientVars, agentVars, shutdownVars>>

\* The scripts matter to the watcher of stop-state only.
WatchersInit ==
    /\ ClientInit /\ AgentInit /\ ShutdownInit
    /\ key = Root => [os |-> os, attrs |-> attrs, urlKind |-> urlKind] = CHOOSE g \in Guests : TRUE

WatchersNext ==
    \/ key = Root /\ AgentNext /\ UNCHANGED shutdownVars
    \/ key = StopState /\ ShutdownNext /\ UNCHANGED agentVars

WatchersSpec == WatchersInit /\ [][WatchersNext]_watchersVars

OfAgent(A) == key = Root /\ A /\ UNCHANGED shutdownVars
OfShutdown(A) == key = StopState /\ A /\ UNCHANGED agentVars

\* Every goroutine goes on, and the server answers a hanging request at the latest
\* after timeout_sec; a script comes to its end.
WatchersFairSpec ==
    /\ WatchersSpec
    /\ WF_watchersVars(OfAgent(WatchStep)) /\ WF_watchersVars(OfAgent(HandlerStep))
    /\ WF_watchersVars(OfAgent(AddressStep)) /\ WF_watchersVars(OfAgent(ClockStep))
    /\ WF_watchersVars(OfShutdown(WatchKeyStep)) /\ WF_watchersVars(OfShutdown(StopWatcherStep))
    /\ WF_watchersVars(OfShutdown(RunnerStep))

-----------------------------------------------------------------------------
\* Type invariant of a watcher and its client.
WatchersTypeOK == ClientTypeOK /\ AgentTypeOK /\ ShutdownTypeOK
=============================================================================
