------------------------ MODULE EventManagerProofs ------------------------
(* Theorems about EventManager, for any number of watchers, event types,   *)
(* subscribers and API callers, and about the scripts that the watcher of  *)
(* stop-state has run, for any number of faults.                           *)
EXTENDS EventManager, Watchers, SequenceTheorems, TLAPS

\* The manager starts within its types.
LEMMA TypeInit == Init => TypeOK
<1> SUFFICES ASSUME Init PROVE TypeOK
  OBVIOUS
<1>1. Idle \in Calls
  BY DEF Idle, Calls
<1>2. api \in [Callers -> Calls]
  BY <1>1 DEF Init
<1>3. /\ subscribers \in [Events -> SUBSET Subs]
      /\ wPc \in [Insts -> {"off"}] /\ lPc \in [Insts -> {"off"}]
      /\ renew \in [Insts -> BOOLEAN]
  BY DEF Init
<1> QED BY <1>2, <1>3 DEF Init, TypeOK

\* Every action keeps the manager's fields, its goroutines and the API calls
\* in progress within their types.
LEMMA TypeStep == TypeOK /\ [Next]_vars => TypeOK'
<1> SUFFICES ASSUME TypeOK, [Next]_vars PROVE TypeOK'
  OBVIOUS
<1> USE ConstAssumption DEF TypeOK, mngrVars, queueVars, runVars, cbVars, watchVars
<1>1. ASSUME NEW c \in Callers, NEW e \in Events, NEW f \in Fns,
             Subscribe(c, e, f) \/ Unsubscribe(c, e, f)
      PROVE  TypeOK'
  <2>1. subscribers' \in [Events -> SUBSET Subs]
    BY <1>1 DEF Subscribe, Unsubscribe, Without, FreshPtrs, Subs
  <2> QED BY <1>1, <2>1 DEF Subscribe, Unsubscribe
<1>2. ASSUME NEW c \in Callers, NEW w \in Watchers, AddWatcher(c, w) PROVE TypeOK'
  BY <1>2 DEF AddWatcher, EventsOf, Calls
<1>3. ASSUME NEW c \in Callers, NEW w \in Watchers, RemoveWatcher(c, w) PROVE TypeOK'
  BY <1>3 DEF RemoveWatcher, EventsOf, Calls
<1>4. ASSUME NEW c \in Callers, NEW e \in Events, AddWatcherLaunch(c, e) PROVE TypeOK'
  <2>1. Ev(<<e, "add">>) \in Events /\ <<e, "add">> \in Insts
    BY DEF Ev, Insts
  <2>2. api' \in [Callers -> Calls]
    BY <1>4 DEF AddWatcherLaunch, Calls
  <2> QED BY <1>4, <2>1, <2>2 DEF AddWatcherLaunch, Launch
<1>5. ASSUME NEW c \in Callers, NEW e \in Events, RemoveWatcherNext(c, e) PROVE TypeOK'
  <2>1. api' \in [Callers -> Calls]
    <3>1. api[c] \in Calls
      OBVIOUS
    <3>2. [api[c] EXCEPT !.todo = @ \ {e}] \in Calls
      BY <3>1 DEF Calls
    <3>3. [op |-> "removeSend", todo |-> api[c].todo \ {e}, ev |-> e] \in Calls
      BY <3>1 DEF Calls
    <3> QED BY <1>5, <3>2, <3>3 DEF RemoveWatcherNext
  <2> QED BY <1>5, <2>1 DEF RemoveWatcherNext
<1>6. ASSUME NEW c \in Callers, NEW i \in Insts, RemoveWatcherSend(c, i) PROVE TypeOK'
  <2>1. api' \in [Callers -> Calls]
    BY <1>6 DEF RemoveWatcherSend, Calls
  <2> QED BY <1>6, <2>1 DEF RemoveWatcherSend
<1>7. ASSUME NEW c \in Callers, AddWatcherReturn(c) \/ RemoveWatcherReturn(c) PROVE TypeOK'
  BY <1>7 DEF AddWatcherReturn, RemoveWatcherReturn, Idle, Calls
<1>8. CASE RunStart \/ RunRange \/ RunMonitor \/ RunReturn
  <2>1. CASE RunStart
    BY <2>1 DEF RunStart
  <2>2. CASE RunRange
    BY <2>2 DEF RunRange
  <2>3. CASE RunMonitor
    BY <2>3 DEF RunMonitor
  <2>4. CASE RunReturn
    BY <2>4 DEF RunReturn
  <2> QED BY <1>8, <2>1, <2>2, <2>3, <2>4
<1>9. ASSUME NEW e \in Events, RunLaunch(e) PROVE TypeOK'
  <2>1. Ev(<<e, "run">>) \in Events /\ <<e, "run">> \in Insts
    BY DEF Ev, Insts
  <2> QED BY <1>9, <2>1 DEF RunLaunch, Launch
<1>10. CASE CtxHandlerStep
  <2>1. CASE CtxHandlerDone \/ CtxHandlerLeave
    BY <2>1 DEF CtxHandlerDone, CtxHandlerLeave
  <2>2. CASE CtxHandlerFinishCb
    BY <2>2 DEF CtxHandlerFinishCb
  <2> QED BY <1>10, <2>1, <2>2 DEF CtxHandlerStep
<1>11. CASE MonitorLength \/ MonitorFinishCtx \/ MonitorFinishCb
  BY <1>11 DEF MonitorLength, MonitorFinishCtx, MonitorFinishCb
<1>12. ASSUME NEW i \in Insts, MonitorDone(i) PROVE TypeOK'
  BY <1>12 DEF MonitorDone
<1>13. ASSUME NEW i \in Insts, CallbackReceive(i) PROVE TypeOK'
  <2>1. Ev(i) \in Events
    BY DEF Ev, Insts
  <2> QED BY <1>13, <2>1 DEF CallbackReceive
<1>14. ASSUME NEW s \in cbTodo, NEW keep \in BOOLEAN, Callback(s, keep) PROVE TypeOK'
  BY <1>14 DEF Callback, Subs
<1>15. CASE CallbackUnsubscribe
  BY <1>15 DEF CallbackUnsubscribe, Without
<1>16. ASSUME NEW i \in Insts, WatcherStep(i) PROVE TypeOK'
  BY <1>16 DEF WatcherStep, WatcherRun, WatcherCheck, WatcherFinish, WatcherSelfRemove,
               ListenerCancel
<1>17. CASE CancelContext
  BY <1>17 DEF CancelContext
<1>18. CASE UNCHANGED vars
  BY <1>18 DEF vars
<1> QED
  BY <1>1, <1>2, <1>3, <1>4, <1>5, <1>6, <1>7, <1>8, <1>9, <1>10, <1>11, <1>12, <1>13,
     <1>14, <1>15, <1>16, <1>17, <1>18
  DEF Next, ApiStep, RunStep, MonitorStep, CallbackStep

\* Type correctness of the event manager for any number of watchers, event
\* types, subscriptions and concurrent API callers.
THEOREM TypeCorrect == Spec => []TypeOK
  BY TypeInit, TypeStep, PTL DEF Spec


-----------------------------------------------------------------------------
(***************************************************************************)
(* RemovedIsAborted is not inductive: Launch() resets the listener of the  *)
(* launched goroutine, so no goroutine may be launched twice.  What makes  *)
(* that so: watchersMutex is held throughout an AddWatcher() call, and a   *)
(* watcher is never taken out of watchersMap.                              *)
(***************************************************************************)
LockHeld == \A c \in Callers : api[c].op # "idle" => wlock = c

OffUntilLaunched ==
    /\ \A i \in Insts : wPc[i] = "off" => lPc[i] = "off"
    /\ runPc \in {"init", "range"} => \A e \in Events : wPc[<<e, "run">>] = "off"
    /\ \A e \in toLaunch : wPc[<<e, "run">>] = "off"
    /\ \A c \in Callers : api[c].op = "add" =>
          \A e \in api[c].todo : wPc[<<e, "add">>] = "off" /\ Owner[e] \in watchersMap
    /\ \A e \in Events : wPc[<<e, "add">>] # "off" => Owner[e] \in watchersMap

RemoveInv == TypeOK /\ LockHeld /\ OffUntilLaunched /\ RemovedIsAborted

\* A goroutine is the pair of its event type and of who launched it.
LEMMA InstFacts ==
    /\ \A e \in Events : /\ <<e, "run">> \in Insts /\ Ev(<<e, "run">>) = e
                         /\ <<e, "add">> \in Insts /\ Ev(<<e, "add">>) = e
    /\ \A i \in Insts : /\ Ev(i) \in Events
                        /\ i = <<Ev(i), "run">> \/ i = <<Ev(i), "add">>
    /\ \A e, f \in Events : /\ <<e, "run">> # <<f, "add">>
                            /\ <<e, "run">> = <<f, "run">> => e = f
                            /\ <<e, "add">> = <<f, "add">> => e = f
  BY DEF Insts, Ev

\* Every action keeps RemoveInv.
LEMMA RemoveStep == RemoveInv /\ [Next]_vars => RemoveInv'
<1> SUFFICES ASSUME RemoveInv, [Next]_vars PROVE LockHeld' /\ OffUntilLaunched' /\ RemovedIsAborted'
  BY TypeStep DEF RemoveInv
<1> TypeOK /\ TypeOK'
  BY TypeStep DEF RemoveInv
<1> USE ConstAssumption, InstFacts
    DEF RemoveInv, LockHeld, OffUntilLaunched, RemovedIsAborted, Abort,
        mngrVars, queueVars, runVars, cbVars, watchVars
<1> DEFINE Kept == LockHeld' /\ OffUntilLaunched' /\ RemovedIsAborted'
<1>1. ASSUME NEW c \in Callers, NEW e \in Events, NEW f \in Fns,
             Subscribe(c, e, f) \/ Unsubscribe(c, e, f)
      PROVE  Kept
  BY <1>1 DEF Subscribe, Unsubscribe
<1>2. ASSUME NEW c \in Callers, NEW w \in Watchers, AddWatcher(c, w) PROVE Kept
  <2>1. /\ api[c].op = "idle"
        /\ api'[c] = [op |-> "add", todo |-> EventsOf(w), ev |-> NoEvent]
        /\ \A d \in Callers \ {c} : api'[d] = api[d] /\ api[d].op = "idle"
    BY <1>2 DEF AddWatcher, CanCall, Idle, TypeOK
  <2>2. \A e \in EventsOf(w) : wPc[<<e, "add">>] = "off" /\ Owner[e] \in watchersMap'
    BY <1>2 DEF AddWatcher, EventsOf
  <2>3. LockHeld'
    BY <1>2, <2>1 DEF AddWatcher
  <2>4. OffUntilLaunched'
    BY <1>2, <2>1, <2>2 DEF AddWatcher
  <2>5. RemovedIsAborted'
    BY <1>2, <2>1 DEF AddWatcher
  <2> QED BY <2>3, <2>4, <2>5
<1>3. ASSUME NEW c \in Callers, NEW w \in Watchers, RemoveWatcher(c, w) PROVE Kept
  <2>1. /\ api[c].op = "idle" /\ api'[c].op = "remove"
        /\ \A d \in Callers \ {c} : api'[d] = api[d] /\ api[d].op = "idle"
    BY <1>3 DEF RemoveWatcher, CanCall, Idle, TypeOK
  <2>2. UNCHANGED <<watchersMap, removing, wPc, lPc, toLaunch, runPc, watcherEvents, leaving>>
    BY <1>3 DEF RemoveWatcher
  <2>3. LockHeld'
    BY <1>3, <2>1 DEF RemoveWatcher
  <2>4. OffUntilLaunched'
    BY <2>1, <2>2
  <2>5. RemovedIsAborted'
    BY <2>1, <2>2
  <2> QED BY <2>3, <2>4, <2>5
<1>4. ASSUME NEW c \in Callers, NEW e \in Events, AddWatcherLaunch(c, e) PROVE Kept
  <2>1. /\ api[c].op = "add" /\ api'[c].op = "add" /\ api'[c].todo = api[c].todo \ {e}
        /\ \A d \in Callers \ {c} : api'[d] = api[d] /\ api[d].op = "idle"
    BY <1>4 DEF AddWatcherLaunch, TypeOK, Calls
  <2>2. /\ lPc[<<e, "add">>] = "off" /\ Owner[e] \in watchersMap
        /\ \A j \in Insts : j # <<e, "add">> => wPc'[j] = wPc[j] /\ lPc'[j] = lPc[j]
        /\ wPc'[<<e, "add">>] = "run"
    BY <1>4 DEF AddWatcherLaunch, Launch, TypeOK
  <2>3. LockHeld'
    BY <1>4, <2>1 DEF AddWatcherLaunch
  <2>4. OffUntilLaunched'
    <3>1. \A j \in Insts : wPc'[j] = "off" => lPc'[j] = "off"
      BY <2>2
    <3>2. \A f \in Events : wPc'[<<f, "run">>] = wPc[<<f, "run">>]
      BY <2>2
    <3>3. \A f \in Events : wPc'[<<f, "add">>] # "off" => Owner[f] \in watchersMap'
      BY <1>4, <2>2 DEF AddWatcherLaunch
    <3>4. \A f \in api'[c].todo : wPc'[<<f, "add">>] = "off" /\ Owner[f] \in watchersMap'
      <4>1. api[c].todo \subseteq Events
        BY DEF TypeOK, Calls
      <4>2. UNCHANGED watchersMap
        BY <1>4 DEF AddWatcherLaunch
      <4>3. \A f \in api[c].todo : wPc[<<f, "add">>] = "off" /\ Owner[f] \in watchersMap
        BY <2>1
      <4> TAKE f \in api'[c].todo
      <4>4. f \in Events /\ f # e /\ f \in api[c].todo
        BY <2>1, <4>1
      <4>5. <<f, "add">> \in Insts /\ <<f, "add">> # <<e, "add">>
        BY <4>4
      <4> QED BY <2>2, <4>2, <4>3, <4>4, <4>5
    <3> QED BY <1>4, <2>1, <3>1, <3>2, <3>3, <3>4 DEF AddWatcherLaunch, TypeOK
  <2>5. RemovedIsAborted'
    BY <1>4, <2>1, <2>2 DEF AddWatcherLaunch
  <2> QED BY <2>3, <2>4, <2>5
<1>5. ASSUME NEW c \in Callers, NEW e \in Events, RemoveWatcherNext(c, e) PROVE Kept
  <2>1. /\ api[c].op = "remove" /\ api'[c].op \in {"remove", "removeSend"}
        /\ \A d \in Callers \ {c} : api'[d] = api[d] /\ api[d].op = "idle"
        /\ e \in removing \/ (api'[c].op = "removeSend" /\ api'[c].ev = e)
        /\ removing' = removing \cup {e}
    BY <1>5 DEF RemoveWatcherNext, TypeOK, Calls
  <2>2. LockHeld' /\ OffUntilLaunched'
    BY <1>5, <2>1 DEF RemoveWatcherNext
  <2>3. RemovedIsAborted'
    BY <1>5, <2>1 DEF RemoveWatcherNext
  <2> QED BY <2>2, <2>3
<1>6. ASSUME NEW c \in Callers, NEW i \in Insts, RemoveWatcherSend(c, i) PROVE Kept
  <2>1. /\ api[c].op = "removeSend" /\ api[c].ev = Ev(i) /\ api'[c].op = "remove"
        /\ \A d \in Callers \ {c} : api'[d] = api[d] /\ api[d].op = "idle"
    BY <1>6 DEF RemoveWatcherSend, TypeOK, Calls
  <2>2. /\ lPc[i] = "recv" /\ lPc'[i] = "cancel"
        /\ \A j \in Insts \ {i} : lPc'[j] = lPc[j]
    BY <1>6 DEF RemoveWatcherSend, TypeOK
  <2>3. LockHeld' /\ OffUntilLaunched'
    BY <1>6, <2>1, <2>2 DEF RemoveWatcherSend
  <2>4. RemovedIsAborted'
    BY <1>6, <2>1, <2>2 DEF RemoveWatcherSend
  <2> QED BY <2>3, <2>4
<1>7. ASSUME NEW c \in Callers, AddWatcherReturn(c) \/ RemoveWatcherReturn(c) PROVE Kept
  <2>1. /\ api[c].op \in {"add", "remove"} /\ api'[c].op = "idle"
        /\ \A d \in Callers \ {c} : api'[d] = api[d] /\ api[d].op = "idle"
    BY <1>7 DEF AddWatcherReturn, RemoveWatcherReturn, Idle, TypeOK, Calls
  <2>2. LockHeld' /\ OffUntilLaunched'
    BY <1>7, <2>1 DEF AddWatcherReturn, RemoveWatcherReturn
  <2>3. RemovedIsAborted'
    BY <1>7, <2>1 DEF AddWatcherReturn, RemoveWatcherReturn
  <2> QED BY <2>2, <2>3
<1>8. CASE RunStart \/ RunRange \/ RunMonitor \/ RunReturn
  BY <1>8 DEF RunStart, RunRange, RunMonitor, RunReturn, TypeOK
<1>9. ASSUME NEW e \in Events, RunLaunch(e) PROVE Kept
  BY <1>9 DEF RunLaunch, Launch, TypeOK
<1>10. CASE CtxHandlerStep
  BY <1>10 DEF CtxHandlerStep, CtxHandlerDone, CtxHandlerFinishCb, CtxHandlerLeave
<1>11. CASE MonitorLength \/ MonitorFinishCtx \/ MonitorFinishCb
  BY <1>11 DEF MonitorLength, MonitorFinishCtx, MonitorFinishCb
<1>12. ASSUME NEW i \in Insts, MonitorDone(i) PROVE Kept
  BY <1>12 DEF MonitorDone, TypeOK
<1>13. ASSUME NEW i \in Insts, CallbackReceive(i) PROVE Kept
  BY <1>13 DEF CallbackReceive, TypeOK
<1>14. ASSUME NEW s \in cbTodo, NEW keep \in BOOLEAN, Callback(s, keep) PROVE Kept
  BY <1>14 DEF Callback
<1>15. CASE CallbackUnsubscribe
  BY <1>15 DEF CallbackUnsubscribe
<1>16. ASSUME NEW i \in Insts, WatcherStep(i) PROVE Kept
  <2>1. /\ \A j \in Insts : (wPc'[j] = "off" <=> wPc[j] = "off") /\ (Abort(j) => Abort(j)')
        /\ \A j \in Insts : lPc[j] = "off" => lPc'[j] = "off"
    <3>1. CASE \E r \in BOOLEAN : WatcherRun(i, r)
      BY <3>1 DEF WatcherRun, TypeOK
    <3>2. CASE WatcherCheck(i) \/ WatcherFinish(i)
      BY <3>2 DEF WatcherCheck, WatcherFinish, TypeOK
    <3>3. CASE \E j \in Insts : WatcherSelfRemove(i, j)
      BY <3>3 DEF WatcherSelfRemove, TypeOK
    <3>4. CASE ListenerCancel(i)
      BY <3>4 DEF ListenerCancel, TypeOK
    <3> QED BY <1>16, <3>1, <3>2, <3>3, <3>4 DEF WatcherStep
  <2>2. UNCHANGED <<api, wlock, removing, watchersMap, runPc, toLaunch>>
    BY <1>16 DEF WatcherStep, WatcherRun, WatcherCheck, WatcherFinish, WatcherSelfRemove,
                 ListenerCancel
  <2>3. \A c \in Callers : api[c].todo \subseteq Events
    BY DEF TypeOK, Calls
  <2>4. LockHeld'
    BY <2>2
  <2>5. OffUntilLaunched'
    BY <2>1, <2>2, <2>3 DEF TypeOK
  <2>6. RemovedIsAborted'
    BY <2>1, <2>2
  <2> QED BY <2>4, <2>5, <2>6
<1>17. CASE CancelContext
  BY <1>17 DEF CancelContext
<1>18. CASE UNCHANGED vars
  BY <1>18 DEF vars
<1> QED
  BY <1>1, <1>2, <1>3, <1>4, <1>5, <1>6, <1>7, <1>8, <1>9, <1>10, <1>11, <1>12, <1>13,
     <1>14, <1>15, <1>16, <1>17, <1>18
  DEF Next, ApiStep, RunStep, MonitorStep, CallbackStep

\* However many goroutines add and remove watchers at the same time, an event
\* type marked in removingWatcherEvents is one whose goroutine was told to
\* abort or is about to be: a RemoveWatcher() call that skips it loses nothing.
THEOREM RemovalIsNotLost == Spec => []RemovedIsAborted
<1>1. Init => RemoveInv
  <2> SUFFICES ASSUME Init PROVE RemoveInv
    OBVIOUS
  <2>1. \A c \in Callers : api[c].op = "idle"
    BY DEF Init, Idle
  <2>2. \A i \in Insts : wPc[i] = "off" /\ lPc[i] = "off"
    BY DEF Init
  <2> QED BY TypeInit, InstFacts, <2>1, <2>2
       DEF Init, RemoveInv, LockHeld, OffUntilLaunched, RemovedIsAborted
<1>2. RemoveInv => RemovedIsAborted
  BY DEF RemoveInv
<1> QED BY <1>1, <1>2, RemoveStep, PTL DEF Spec

(***************************************************************************)
(* Only the goroutine that later calls Run() and the callbacks add         *)
(* watchers, as in the agent (sshca.Init, addInstanceShutdownCallback and  *)
(* the default watchers).                                                  *)
(***************************************************************************)
AddersAreSequential == \A c \in Callers \ {"main", "cb"} : "add" \notin Allowed[c]

CallsInv ==
    /\ running <=> runPc # "init"
    /\ runPc # "init" => api["main"].op # "add"
    /\ api["cb"] # Idle => cbPc = "call" /\ cbTodo # {}
    /\ cbPc = "call" => runPc \notin {"init", "range"}
    /\ \A c \in Callers : api[c].op = "add" => c \in {"main", "cb"}

LaunchInv ==
    /\ watcherEvents = {e \in Events : Owner[e] \in watchersMap}
    /\ toLaunch \subseteq watcherEvents
    /\ \A i \in Insts : wPc[i] # "off" => Ev(i) \in watcherEvents
    /\ runPc \in {"init", "range"} => \A i \in Insts : wPc[i] = "off"
    /\ \A e \in toLaunch : wPc[<<e, "run">>] = "off" /\ wPc[<<e, "add">>] = "off"
    /\ api["cb"].op = "add" => \A e \in api["cb"].todo :
          /\ e \in watcherEvents
          /\ e \notin toLaunch
          /\ wPc[<<e, "run">>] = "off"
          /\ wPc[<<e, "add">>] = "off"

MonitorInv ==
    /\ monPc # "off" => runPc \in {"wait", "returned"}
    /\ runPc = "returned" => monPc = "done"
    /\ monPc \in {"sendCtx", "sendCb", "done"} => \A e \in Events : ~Alive(<<e, "run">>)

AgentInv ==
    TypeOK /\ CallsInv /\ LaunchInv /\ SingleLaunch /\ QueueTracksRunning /\ MonitorInv

\* Every action keeps AgentInv when only main and the callbacks add watchers.
LEMMA AgentStep ==
    ASSUME AddersAreSequential PROVE AgentInv /\ [Next]_vars => AgentInv'
<1> SUFFICES ASSUME AgentInv, [Next]_vars
             PROVE  CallsInv' /\ LaunchInv' /\ SingleLaunch' /\ QueueTracksRunning' /\ MonitorInv'
  BY TypeStep DEF AgentInv
<1> TypeOK /\ TypeOK'
  BY TypeStep DEF AgentInv
<1> {"main", "cb"} \subseteq Callers /\ "main" # "cb" /\ Owner \in [Events -> Watchers]
  BY ConstAssumption
<1> Idle.op = "idle"
  BY DEF Idle
<1>a. \A c \in Callers : api[c].todo \subseteq Events
  BY DEF TypeOK, Calls
<1> USE InstFacts
    DEF AgentInv, CallsInv, LaunchInv, SingleLaunch, QueueTracksRunning, MonitorInv, Alive,
        mngrVars, queueVars, runVars, cbVars, watchVars
<1> DEFINE Kept == CallsInv' /\ LaunchInv' /\ SingleLaunch' /\ QueueTracksRunning' /\ MonitorInv'
<1>1. ASSUME NEW c \in Callers, NEW e \in Events, NEW f \in Fns,
             Subscribe(c, e, f) \/ Unsubscribe(c, e, f)
      PROVE  Kept
  BY <1>1 DEF Subscribe, Unsubscribe
<1>2. ASSUME NEW c \in Callers, NEW w \in Watchers, AddWatcher(c, w) PROVE Kept
  <2>1. /\ c \in {"main", "cb"} /\ w \notin watchersMap
        /\ c = "main" => runPc = "init"
        /\ c = "cb" => cbPc = "call" /\ cbTodo # {}
    BY <1>2 DEF AddWatcher, CanCall, AddersAreSequential
  <2>2. /\ api'[c].op = "add" /\ api'[c].todo = EventsOf(w)
        /\ \A d \in Callers \ {c} : api'[d] = api[d]
    BY <1>2 DEF AddWatcher, TypeOK
  <2>3. \A e \in EventsOf(w) : /\ e \in Events /\ e \notin watcherEvents /\ e \notin toLaunch
                               /\ wPc[<<e, "run">>] = "off" /\ wPc[<<e, "add">>] = "off"
    <3> TAKE e \in EventsOf(w)
    <3>1. e \in Events /\ e \notin watcherEvents
      BY <2>1 DEF EventsOf
    <3>2. wPc[<<e, "run">>] = "off" /\ wPc[<<e, "add">>] = "off"
      BY <3>1
    <3> QED BY <3>1, <3>2
  <2>4. CallsInv'
    BY <1>2, <2>1, <2>2 DEF AddWatcher
  <2>5. watcherEvents' = {e \in Events : Owner[e] \in watchersMap'}
    BY <1>2 DEF AddWatcher, EventsOf
  <2>6. LaunchInv'
    BY <1>2, <2>2, <2>3, <2>5 DEF AddWatcher
  <2> QED BY <1>2, <2>4, <2>6 DEF AddWatcher
<1>3. ASSUME NEW c \in Callers, NEW w \in Watchers, RemoveWatcher(c, w) PROVE Kept
  <2>1. /\ c = "cb" => cbPc = "call" /\ cbTodo # {}
        /\ api'[c].op = "remove"
        /\ \A d \in Callers \ {c} : api'[d] = api[d]
    BY <1>3 DEF RemoveWatcher, CanCall, TypeOK
  <2> QED BY <1>3, <2>1 DEF RemoveWatcher
<1>4. ASSUME NEW c \in Callers, NEW e \in Events, AddWatcherLaunch(c, e) PROVE Kept
  <2>1. /\ c = "cb" /\ api["cb"].op = "add" /\ e \in api["cb"].todo
        /\ cbPc = "call" /\ cbTodo # {} /\ runPc \notin {"init", "range"}
    BY <1>4 DEF AddWatcherLaunch
  <2>2. /\ api'["cb"].op = "add" /\ api'["cb"].todo = api["cb"].todo \ {e}
        /\ \A d \in Callers \ {"cb"} : api'[d] = api[d]
    BY <1>4, <2>1 DEF AddWatcherLaunch, TypeOK, Calls
  <2>3. /\ wPc'[<<e, "add">>] = "run" /\ queueMap' = queueMap \cup {e}
        /\ \A j \in Insts : j # <<e, "add">> => wPc'[j] = wPc[j]
    BY <1>4 DEF AddWatcherLaunch, Launch, TypeOK
  <2>4. CallsInv'
    BY <1>4, <2>1, <2>2 DEF AddWatcherLaunch
  <2>5. LaunchInv'
    <3>1. UNCHANGED <<watcherEvents, watchersMap, toLaunch, runPc>>
      BY <1>4 DEF AddWatcherLaunch
    <3>2. \A f \in Events : /\ wPc'[<<f, "run">>] = wPc[<<f, "run">>]
                            /\ f # e => wPc'[<<f, "add">>] = wPc[<<f, "add">>]
      BY <2>3
    <3>3. \A i \in Insts : wPc'[i] # "off" => Ev(i) \in watcherEvents
      BY <2>1, <2>3
    <3>4. \A f \in toLaunch : wPc'[<<f, "run">>] = "off" /\ wPc'[<<f, "add">>] = "off"
      <4> TAKE f \in toLaunch
      <4>1. f \in Events
        BY DEF TypeOK
      <4>2. f # e
        BY <2>1
      <4>3. wPc[<<f, "run">>] = "off" /\ wPc[<<f, "add">>] = "off"
        OBVIOUS
      <4> QED BY <3>2, <4>1, <4>2, <4>3
    <3>5. \A f \in api["cb"].todo \ {e} :
             /\ f \in watcherEvents /\ f \notin toLaunch
             /\ wPc'[<<f, "run">>] = "off" /\ wPc'[<<f, "add">>] = "off"
      BY <1>a, <2>1, <3>2
    <3> QED BY <2>1, <2>2, <3>1, <3>3, <3>4, <3>5
  <2>6. SingleLaunch' /\ QueueTracksRunning'
    <3>1. SingleLaunch'
      BY <2>1, <2>3
    <3>2. QueueTracksRunning'
      BY <2>1, <2>3
    <3> QED BY <3>1, <3>2
  <2>7. MonitorInv'
    BY <1>4, <2>3 DEF AddWatcherLaunch
  <2> QED BY <2>4, <2>5, <2>6, <2>7
<1>5. ASSUME NEW c \in Callers, NEW e \in Events, RemoveWatcherNext(c, e) PROVE Kept
  <2>1. /\ api[c].op = "remove" /\ api'[c].op \in {"remove", "removeSend"}
        /\ \A d \in Callers \ {c} : api'[d] = api[d]
    BY <1>5 DEF RemoveWatcherNext, TypeOK, Calls
  <2> QED BY <1>5, <2>1 DEF RemoveWatcherNext
<1>6. ASSUME NEW c \in Callers, NEW i \in Insts, RemoveWatcherSend(c, i) PROVE Kept
  <2>1. /\ api[c].op = "removeSend" /\ api'[c].op = "remove"
        /\ \A d \in Callers \ {c} : api'[d] = api[d]
    BY <1>6 DEF RemoveWatcherSend, TypeOK, Calls
  <2> QED BY <1>6, <2>1 DEF RemoveWatcherSend
<1>7. ASSUME NEW c \in Callers, AddWatcherReturn(c) \/ RemoveWatcherReturn(c) PROVE Kept
  <2>1. api'[c] = Idle /\ \A d \in Callers \ {c} : api'[d] = api[d]
    BY <1>7 DEF AddWatcherReturn, RemoveWatcherReturn, TypeOK
  <2> QED BY <1>7, <2>1 DEF AddWatcherReturn, RemoveWatcherReturn
<1>8. CASE RunStart \/ RunRange \/ RunMonitor \/ RunReturn
  <2>1. CASE RunStart
    BY <2>1 DEF RunStart
  <2>2. CASE RunRange
    BY <2>2 DEF RunRange, TypeOK
  <2>3. CASE RunMonitor
    BY <2>3 DEF RunMonitor
  <2>4. CASE RunReturn
    BY <2>4 DEF RunReturn
  <2> QED BY <1>8, <2>1, <2>2, <2>3, <2>4
<1>9. ASSUME NEW e \in Events, RunLaunch(e) PROVE Kept
  <2>1. /\ e \in toLaunch /\ toLaunch' = toLaunch \ {e} /\ runPc = "launch" /\ monPc = "off"
        /\ wPc'[<<e, "run">>] = "run" /\ queueMap' = queueMap \cup {e}
        /\ \A j \in Insts : j # <<e, "run">> => wPc'[j] = wPc[j]
    BY <1>9 DEF RunLaunch, Launch, TypeOK
  <2>2. CallsInv' /\ MonitorInv'
    BY <1>9, <2>1 DEF RunLaunch
  <2>3. LaunchInv'
    BY <1>9, <1>a, <2>1 DEF RunLaunch, TypeOK
  <2>4. wPc[<<e, "run">>] = "off" /\ wPc[<<e, "add">>] = "off"
    BY <2>1
  <2>5. SingleLaunch'
    BY <2>1, <2>4
  <2>6. QueueTracksRunning'
    BY <2>1, <2>4
  <2> QED BY <2>2, <2>3, <2>5, <2>6
<1>10. CASE CtxHandlerStep
  <2>1. CASE CtxHandlerDone \/ CtxHandlerLeave
    BY <2>1 DEF CtxHandlerDone, CtxHandlerLeave
  <2>2. CASE CtxHandlerFinishCb
    BY <2>2 DEF CtxHandlerFinishCb
  <2> QED BY <1>10, <2>1, <2>2 DEF CtxHandlerStep
<1>11. CASE MonitorLength \/ MonitorFinishCtx \/ MonitorFinishCb
  <2>1. CASE MonitorLength
    BY <2>1 DEF MonitorLength
  <2>2. CASE MonitorFinishCtx
    BY <2>2 DEF MonitorFinishCtx
  <2>3. CASE MonitorFinishCb
    BY <2>3 DEF MonitorFinishCb
  <2> QED BY <1>11, <2>1, <2>2, <2>3
<1>12. ASSUME NEW i \in Insts, MonitorDone(i) PROVE Kept
  <2>1. /\ wPc[i] = "sendDone" /\ wPc'[i] = "end" /\ queueMap' = queueMap \ {Ev(i)}
        /\ \A j \in Insts : j # i => wPc'[j] = wPc[j]
    BY <1>12 DEF MonitorDone, TypeOK
  <2>2. \A j \in Insts : j # i /\ Ev(j) = Ev(i) => wPc[j] = "off"
    BY <2>1
  <2>3. SingleLaunch' /\ QueueTracksRunning'
    BY <2>1, <2>2
  <2>4. CallsInv' /\ LaunchInv'
    BY <1>12, <1>a, <2>1 DEF MonitorDone, TypeOK
  <2>5. MonitorInv'
    BY <1>12, <2>1, <2>3 DEF MonitorDone
  <2> QED BY <2>3, <2>4, <2>5
<1>13. ASSUME NEW i \in Insts, CallbackReceive(i) PROVE Kept
  <2>1. /\ wPc[i] = "bus" /\ wPc'[i] \in {"run", "fin"}
        /\ \A j \in Insts : j # i => wPc'[j] = wPc[j]
        /\ cbPc = "select"
    BY <1>13 DEF CallbackReceive, TypeOK
  <2>2. \A j \in Insts : (wPc'[j] = "off" <=> wPc[j] = "off") /\ (Alive(j)' <=> Alive(j))
    BY <2>1
  <2>3. CallsInv'
    BY <1>13, <2>1 DEF CallbackReceive
  <2>4. LaunchInv'
    BY <1>13, <1>a, <2>2 DEF CallbackReceive, TypeOK
  <2>5. SingleLaunch' /\ QueueTracksRunning' /\ MonitorInv'
    BY <1>13, <2>2 DEF CallbackReceive
  <2> QED BY <2>3, <2>4, <2>5
<1>14. ASSUME NEW s \in cbTodo, NEW keep \in BOOLEAN, Callback(s, keep) PROVE Kept
  BY <1>14 DEF Callback
<1>15. CASE CallbackUnsubscribe
  BY <1>15 DEF CallbackUnsubscribe
<1>16. ASSUME NEW i \in Insts, WatcherStep(i) PROVE Kept
  <2>1. \A j \in Insts : (wPc'[j] = "off" <=> wPc[j] = "off") /\ (Alive(j)' <=> Alive(j))
    <3>1. CASE \E r \in BOOLEAN : WatcherRun(i, r)
      BY <3>1 DEF WatcherRun, TypeOK
    <3>2. CASE WatcherCheck(i) \/ WatcherFinish(i)
      BY <3>2 DEF WatcherCheck, WatcherFinish, TypeOK
    <3>3. CASE \E j \in Insts : WatcherSelfRemove(i, j)
      BY <3>3 DEF WatcherSelfRemove, TypeOK
    <3>4. CASE ListenerCancel(i)
      BY <3>4 DEF ListenerCancel
    <3> QED BY <1>16, <3>1, <3>2, <3>3, <3>4 DEF WatcherStep
  <2>2. UNCHANGED <<mngrVars, queueVars, runVars, monPc, cbVars, api>>
    BY <1>16 DEF WatcherStep, WatcherRun, WatcherCheck, WatcherFinish, WatcherSelfRemove,
                 ListenerCancel
  <2>3. CallsInv'
    BY <2>2
  <2>4. LaunchInv'
    BY <1>a, <2>1, <2>2 DEF TypeOK
  <2>5. SingleLaunch' /\ QueueTracksRunning' /\ MonitorInv'
    BY <2>1, <2>2
  <2> QED BY <2>3, <2>4, <2>5
<1>17. CASE CancelContext
  BY <1>17 DEF CancelContext
<1>18. CASE UNCHANGED vars
  BY <1>18 DEF vars
<1> QED
  BY <1>1, <1>2, <1>3, <1>4, <1>5, <1>6, <1>7, <1>8, <1>9, <1>10, <1>11, <1>12, <1>13,
     <1>14, <1>15, <1>16, <1>17, <1>18
  DEF Next, ApiStep, RunStep, MonitorStep, CallbackStep

\* When only the goroutine that calls Run() and the callbacks add watchers:
\* no event type is served by two goroutines, the queue holds exactly the
\* event types still served, and Run() does not return before every watcher
\* it launched is done, cancelled context or not.
THEOREM AgentSafety ==
    ASSUME AddersAreSequential
    PROVE  Spec => [](SingleLaunch /\ QueueTracksRunning /\ NoEarlyReturn)
<1>1. Init => AgentInv
  <2> SUFFICES ASSUME Init PROVE AgentInv
    OBVIOUS
  <2>1. \A c \in Callers : api[c] = Idle /\ api[c].op = "idle"
    BY DEF Init, Idle
  <2>2. \A i \in Insts : wPc[i] = "off"
    BY DEF Init
  <2> QED BY TypeInit, InstFacts, ConstAssumption, <2>1, <2>2
       DEF Init, AgentInv, CallsInv, LaunchInv, SingleLaunch, QueueTracksRunning, MonitorInv, Alive
<1>2. AgentInv => SingleLaunch /\ QueueTracksRunning /\ NoEarlyReturn
  BY DEF AgentInv, MonitorInv, NoEarlyReturn
<1> QED BY <1>1, <1>2, AgentStep, PTL DEF Spec

\* Run() returns only when every watcher it launched is done, not already when the
\* context is cancelled.
THEOREM RunOutlivesWatchers ==
    ASSUME AddersAreSequential PROVE Spec => []NoEarlyReturn
<1>1. Spec => [](SingleLaunch /\ QueueTracksRunning /\ NoEarlyReturn)
  BY AgentSafety
<1> QED BY <1>1, PTL
-----------------------------------------------------------------------------
(***************************************************************************)
(* The scripts that the shutdown watcher starts.  WholeScripts looks at    *)
(* what was executed; the inductive invariant says where each part of the  *)
(* program leaves the temporary directory and the file.                    *)
(***************************************************************************)

\* A script that may be executed, and was copied to its end.
Whole(k, f) ==
    /\ f # <<>> /\ f[Len(f)] = "whole"
    /\ Len(f) > 1 => k = "url" /\ urlKind = "gcs"

\* Where setupAndRunScript() is.
Working == {"write", "lookup", "gcs", "http", "exec"}

Executed == \A i \in 1..Len(ran) : Whole(ran[i][1], ran[i][2])

\* setupAndRunScript() works in the temporary directory of its key, which is gone when it
\* has returned.
DirInv == tmpDirs = IF rPc \in Working THEN {Key} ELSE {}

\* The file is empty until it is written; a part comes from a GCS download that broke.
FileInv ==
    /\ file \in Seq({"part", "whole"})
    /\ rPc \notin {"http", "exec"} => file = <<>>
    /\ rPc = "gcs" => Key = "url" /\ urlKind = "gcs"
    /\ rPc = "http" => file = <<>> \/ (file = <<"part">> /\ Key = "url" /\ urlKind = "gcs")
    /\ rPc = "exec" => Whole(Key, file)

ScriptInv == ran \in Seq(Range(ran)) /\ Executed /\ DirInv /\ FileInv

\* Copies of a whole script to an empty file, or after a part.
LEMMA WholeFiles ==
    /\ \A k : Whole(k, <<"whole">>)
    /\ \A k, f : f = <<>> => Whole(k, Append(f, "whole"))
    /\ \A k, f : f = <<"part">> /\ k = "url" /\ urlKind = "gcs" => Whole(k, Append(f, "whole"))
<1> QED BY DEF Whole

\* The program is between two scripts, or returns from one.
LEMMA ScriptOutside ==
    ASSUME Executed, ran \in Seq(Range(ran)), UNCHANGED <<urlKind, ran>>,
           rPc' \notin Working, tmpDirs' = {}, file' = <<>>
    PROVE  ScriptInv'
<1>1. Executed' /\ (ran \in Seq(Range(ran)))'
  BY DEF Executed, Whole
<1>2. DirInv'
  BY DEF DirInv, Working
<1>3. FileInv'
  BY EmptySeq DEF FileInv, Working
<1> QED BY <1>1, <1>2, <1>3 DEF ScriptInv

\* The program works on a script, in the directory that was made for it.
LEMMA ScriptInside ==
    ASSUME ScriptInv, UNCHANGED <<urlKind, ran, queue>>, rPc' \in Working, tmpDirs' = {Key}, FileInv'
    PROVE  ScriptInv'
<1>1. Executed' /\ (ran \in Seq(Range(ran)))'
  BY DEF Executed, Whole, ScriptInv
<1>2. DirInv'
  BY DEF DirInv, Working, Key
<1> QED BY <1>1, <1>2 DEF ScriptInv

\* r is s with e at its end.
Longer(s, e, r) ==
    /\ r \in Seq(Range(r)) /\ Len(s) \in Nat /\ Len(r) = Len(s) + 1 /\ r[Len(s) + 1] = e
    /\ \A i \in 1..Len(s) : r[i] = s[i]

\* What was executed is still a sequence.
LEMMA RanLonger ==
    ASSUME NEW s, s \in Seq(Range(s)), NEW e
    PROVE  Longer(s, e, Append(s, e))
<1>0. PICK r : r = Append(s, e)
  OBVIOUS
<1>1. PICK T : T = Range(s) \cup {e}
  OBVIOUS
<1>2. s \in Seq(T) /\ e \in T
  <2>1. Range(s) \subseteq T /\ e \in T
    BY <1>1
  <2> QED BY <2>1, SeqMonotonic
<1>3. /\ r \in Seq(T) /\ Len(r) = Len(s) + 1 /\ r[Len(s) + 1] = e
      /\ \A i \in 1..Len(s) : r[i] = s[i]
  BY <1>0, <1>2, AppendProperties
<1>4. Len(s) \in Nat
  BY <1>2
<1>5. Len(r) \in Nat /\ r \in [1..Len(r) -> T] /\ DOMAIN r = 1..Len(r)
  BY <1>3, LenProperties
<1>6. r \in [1..Len(r) -> Range(r)]
  BY <1>5 DEF Range
<1>7. r \in Seq(Range(r))
  BY <1>5, <1>6, SeqDef
<1>8. Longer(s, e, r)
  BY <1>3, <1>4, <1>7 DEF Longer
<1> QED BY <1>0, <1>8, Zenon

\* Every step of the program keeps ScriptInv.
LEMMA ScriptStepInv ==
    ASSUME ScriptInv, ScriptStep \/ StartRunner \/ StartRunnerFails
    PROVE  ScriptInv'
<1> USE DEF fixedVars
<1>1. /\ ran \in Seq(Range(ran)) /\ Executed /\ DirInv /\ FileInv
      /\ file \in Seq({"part", "whole"})
  BY DEF ScriptInv, FileInv
<1>2. tmpDirs \ {Key} = {}
  BY <1>1 DEF DirInv
<1>3. CASE StartRunner \/ StartRunnerFails \/ GetExistingKeysFails \/ Finish
  <2>1. /\ UNCHANGED <<urlKind, ran, tmpDirs, file>> /\ rPc \in {"off", "attrs", "next"}
        /\ rPc' \in {"attrs", "fatal", "end"}
    BY <1>3 DEF StartRunner, StartRunnerFails, GetExistingKeysFails, Finish
  <2>2. tmpDirs' = {} /\ file' = <<>> /\ rPc' \notin Working
    BY <1>1, <2>1 DEF DirInv, FileInv, Working
  <2> QED BY <1>1, <2>1, <2>2, ScriptOutside
<1>4. CASE GetExistingKeys
  <2>1. /\ UNCHANGED <<urlKind, ran, tmpDirs, file>> /\ rPc = "attrs"
        /\ rPc' \in {"next", "attrs", "end"}
    BY <1>4 DEF GetExistingKeys
  <2>2. tmpDirs' = {} /\ file' = <<>> /\ rPc' \notin Working
    BY <1>1, <2>1 DEF DirInv, FileInv, Working
  <2> QED BY <1>1, <2>1, <2>2, ScriptOutside
<1>5. CASE SetupFails \/ WriteFileFails \/ DownloadURLFails
  <2>1. /\ UNCHANGED <<urlKind, ran>> /\ rPc' = "next" /\ tmpDirs' = tmpDirs \ {Key} /\ file' = <<>>
    BY <1>5, Zenon DEF SetupFails, WriteFileFails, DownloadURLFails, ReturnScript
  <2>2. tmpDirs' = {} /\ rPc' \notin Working
    BY <1>2, <2>1 DEF Working
  <2> QED BY <1>1, <2>1, <2>2, ScriptOutside
<1>6. CASE Setup
  <2>1. /\ UNCHANGED <<urlKind, ran, queue, file>> /\ rPc = "next" /\ rPc' \in {"write", "lookup"}
        /\ tmpDirs' = tmpDirs \cup {Key}
    BY <1>6 DEF Setup
  <2>2. tmpDirs' = {Key} /\ rPc' \in Working
    BY <1>1, <2>1 DEF DirInv, Working
  <2>3. FileInv'
    BY <1>1, <2>1 DEF FileInv
  <2> QED BY <2>1, <2>2, <2>3, ScriptInside
<1>7. CASE WriteFile
  <2>1. /\ UNCHANGED <<urlKind, ran, queue, tmpDirs>> /\ rPc = "write" /\ rPc' = "exec"
        /\ file' = <<"whole">>
    BY <1>7, Zenon DEF WriteFile
  <2>2. tmpDirs' = {Key} /\ rPc' \in Working
    BY <1>1, <2>1 DEF DirInv, Working
  <2>3. FileInv'
    <3>1. Whole(Key, file)'
      BY <2>1, WholeFiles DEF Whole, Key
    <3> QED BY <2>1, <3>1 DEF FileInv
  <2> QED BY <2>1, <2>2, <2>3, ScriptInside
<1>8. CASE DownloadScript
  <2>1. /\ UNCHANGED <<urlKind, ran, queue, tmpDirs, file>> /\ rPc = "lookup"
        /\ rPc' = IF KeyKind(Key) = "gcs" THEN "gcs" ELSE "http"
    BY <1>8, Zenon DEF DownloadScript
  <2>2. tmpDirs' = {Key} /\ rPc' \in Working
    BY <1>1, <2>1 DEF DirInv, Working
  <2>3. KeyKind(Key) = "gcs" => Key = "url" /\ urlKind = "gcs"
    BY DEF KeyKind
  <2>4. FileInv'
    BY <1>1, <2>1, <2>3 DEF FileInv, Key
  <2> QED BY <2>1, <2>2, <2>4, ScriptInside
<1>9. CASE Download
  <2>1. /\ UNCHANGED <<urlKind, ran, queue, tmpDirs>> /\ rPc \in {"gcs", "http"} /\ rPc' = "exec"
        /\ file' = Append(file, "whole")
    BY <1>9, Zenon DEF Download
  <2>2. tmpDirs' = {Key} /\ rPc' \in Working
    BY <1>1, <2>1 DEF DirInv, Working
  <2>3. file = <<>> \/ (file = <<"part">> /\ Key = "url" /\ urlKind = "gcs")
    BY <1>1, <2>1 DEF FileInv
  <2>4. Whole(Key, file')
    BY <2>1, <2>3, WholeFiles, Zenon
  <2>5. file' \in Seq({"part", "whole"})
    BY <1>1, <2>1
  <2>6. Whole(Key, file)'
    BY <2>1, <2>4 DEF Whole, Key
  <2>7. FileInv'
    BY <2>1, <2>5, <2>6 DEF FileInv
  <2> QED BY <2>1, <2>2, <2>7, ScriptInside
<1>10. CASE DownloadGSURLFails
  <2>1. /\ UNCHANGED <<urlKind, ran, queue, tmpDirs>> /\ rPc = "gcs" /\ rPc' = "http"
        /\ file' \in {file, Append(file, "part")}
    BY <1>10, Zenon DEF DownloadGSURLFails
  <2>2. tmpDirs' = {Key} /\ rPc' \in Working
    BY <1>1, <2>1 DEF DirInv, Working
  <2>3. file = <<>> /\ Key = "url" /\ urlKind = "gcs"
    BY <1>1, <2>1 DEF FileInv
  <2>4. file' = <<>> \/ file' = <<"part">>
    BY <2>1, <2>3
  <2>5. file' \in Seq({"part", "whole"})
    <3>1. <<>> \in Seq({"part", "whole"})
      BY EmptySeq
    <3>2. <<"part">> \in Seq({"part", "whole"})
      OBVIOUS
    <3> QED BY <2>4, <3>1, <3>2, Zenon
  <2>6. Key' = "url" /\ urlKind' = "gcs"
    BY <2>1, <2>3 DEF Key
  <2>7. FileInv'
    BY <2>1, <2>4, <2>5, <2>6 DEF FileInv
  <2> QED BY <2>1, <2>2, <2>7, ScriptInside
<1>11. CASE RunScript
  <2>1. /\ UNCHANGED urlKind /\ rPc = "exec" /\ ran' = Append(ran, <<Key, file>>)
        /\ rPc' = "next" /\ tmpDirs' = tmpDirs \ {Key} /\ file' = <<>>
    BY <1>11, Zenon DEF RunScript, ReturnScript
  <2>2. PICK e : e = <<Key, file>>
    OBVIOUS
  <2>3. Whole(e[1], e[2])
    <3>1. e[1] = Key /\ e[2] = file
      BY <2>2
    <3> QED BY <1>1, <2>1, <3>1 DEF FileInv
  <2>4. ran' = Append(ran, e)
    BY <2>1, <2>2
  <2>5. /\ (ran \in Seq(Range(ran)))' /\ Len(ran) \in Nat /\ Len(ran') = Len(ran) + 1
        /\ ran'[Len(ran) + 1] = e /\ \A i \in 1..Len(ran) : ran'[i] = ran[i]
    <3>1. Longer(ran, e, Append(ran, e))
      BY <1>1, RanLonger, Zenon
    <3>2. Longer(ran, e, ran')
      BY <2>4, <3>1, Zenon
    <3> QED BY <3>2 DEF Longer
  <2>6. \A i \in 1..Len(ran') : Whole(ran'[i][1], ran'[i][2])
    BY <1>1, <2>3, <2>5 DEF Executed
  <2>7. Executed'
    BY <2>1, <2>6 DEF Executed, Whole
  <2>8. DirInv'
    BY <1>2, <2>1 DEF DirInv, Working
  <2>9. FileInv'
    BY <2>1, EmptySeq DEF FileInv
  <2> QED BY <2>5, <2>7, <2>8, <2>9 DEF ScriptInv
<1> QED BY <1>3, <1>4, <1>5, <1>6, <1>7, <1>8, <1>9, <1>10, <1>11 DEF ScriptStep

\* No step of either watcher breaks ScriptInv.
LEMMA ScriptNextInv == ScriptInv /\ [WatchersNext]_watchersVars => ScriptInv'
<1> SUFFICES ASSUME ScriptInv, [WatchersNext]_watchersVars PROVE ScriptInv'
  OBVIOUS
<1>1. ASSUME UNCHANGED scriptVars PROVE ScriptInv'
  <2>1. UNCHANGED <<urlKind, rPc, queue, tmpDirs, file, ran>>
    BY <1>1, Zenon DEF scriptVars
  <2> QED BY <2>1 DEF ScriptInv, Executed, Whole, DirInv, FileInv, Key
<1>2. ASSUME UNCHANGED shutdownVars PROVE ScriptInv'
  BY <1>1, <1>2, Zenon DEF shutdownVars
<1>3. CASE UNCHANGED watchersVars
  BY <1>2, <1>3, Zenon DEF watchersVars
<1>4. CASE ShutdownNext
  <2>1. ASSUME StopWatcherStep PROVE ScriptInv'
    <3>1. CASE RunGracefulShutdownScript
      BY <3>1, ScriptStepInv, Zenon DEF RunGracefulShutdownScript
    <3>2. CASE WatchKey \/ WatchFailed \/ DelayEnds \/ Watched \/ ScriptsDone \/ Leave
      <4>1. UNCHANGED scriptVars
        BY <3>2, Zenon DEF WatchKey, WatchFailed, DelayEnds, Watched, ScriptsDone, Leave
      <4> QED BY <1>1, <4>1
    <3> QED BY <2>1, <3>1, <3>2 DEF StopWatcherStep
  <2>2. ASSUME RunnerStep PROVE ScriptInv'
    BY <2>2, ScriptStepInv, Zenon DEF RunnerStep
  <2>3. ASSUME WatchKeyStep \/ ((ServerChange \/ CancelWatch) /\ UNCHANGED shutdownVars) PROVE ScriptInv'
    BY <1>2, <2>3, Zenon DEF WatchKeyStep
  <2> QED BY <1>4, <2>1, <2>2, <2>3, Zenon DEF ShutdownNext
<1> QED BY <1>2, <1>3, <1>4, Zenon DEF WatchersNext

\* Whatever fails, for any scripts and any number of faults: what is executed was
\* written or downloaded to its end and lies in its own directory, and a part
\* can only come before it when a GCS download broke.
THEOREM ScriptsAreWhole == WatchersSpec => []WholeScripts
<1>1. WatchersInit => ScriptInv
  <2> SUFFICES ASSUME WatchersInit PROVE ScriptInv
    OBVIOUS
  <2>1. rPc = "off" /\ tmpDirs = {} /\ file = <<>> /\ ran = <<>>
    BY Zenon DEF WatchersInit, ShutdownInit, ScriptInit
  <2>2. ran \in Seq(Range(ran)) /\ file \in Seq({"part", "whole"}) /\ Len(ran) = 0
    BY <2>1, EmptySeq
  <2> QED BY <2>1, <2>2 DEF ScriptInv, Executed, DirInv, Working, FileInv
<1>2. ScriptInv => WholeScripts
  <2> SUFFICES ASSUME ScriptInv PROVE WholeScripts
    OBVIOUS
  <2>1. DOMAIN ran = 1..Len(ran)
    BY LenProperties DEF ScriptInv
  <2>2. rPc = "exec" => tmpDirs = {Key}
    BY DEF ScriptInv, DirInv, Working
  <2> QED BY <2>1, <2>2 DEF ScriptInv, Executed, Whole, WholeScripts
<1> QED BY <1>1, <1>2, ScriptNextInv, PTL DEF WatchersSpec
=============================================================================
