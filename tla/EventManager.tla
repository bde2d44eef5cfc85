---------------------------- MODULE EventManager ----------------------------
(***************************************************************************)
(* The event manager of the guest agent (google_guest_agent/events).       *)
(*                                                                         *)
(* Goroutines modelled: the caller of Run(), its context handler, its      *)
(* callback handler and its watcher monitor; per launch of an event type a *)
(* runWatcher goroutine and the small goroutine that listens on `removed'; *)
(* and the goroutines that call the manager's API.  Every channel of the   *)
(* package is unbuffered, so a send and its receive are one joint step;    *)
(* a goroutine whose pc names a send is blocked in it.                     *)
(*                                                                         *)
(* An event type is launched at most once by Run() and at most once by     *)
(* AddWatcher() (mngr.watchersMap is never cleared), so a goroutine is     *)
(* identified by <<event type, who launched it>>.                          *)
(***************************************************************************)
EXTENDS Naturals, FiniteSets

CONSTANTS
    Watchers,   \* watcher IDs
    Events,     \* event types
    Owner,      \* Owner[e] is the watcher whose Events() lists e
    Callers,    \* goroutines that call the API; "main" and "cb" are special
    Allowed,    \* Allowed[c] is the set of API methods caller c uses
    Fns,        \* callback functions given to Subscribe() and Unsubscribe()
    Ptrs,       \* addresses of EventCb variables; bounds the subscriptions
    CanCancel,  \* whether the context given to Run() may be cancelled
    NoEvent,    \* no event type
    NoCaller    \* a free watchersMutex

OpKinds == {"add", "remove", "subscribe", "unsubscribe"}

(***************************************************************************)
(* "main" is the goroutine that later calls Run(): it uses the API before  *)
(* Run() only.  "cb" is a subscribed callback, which uses the API from     *)
(* inside the callback handler.  All others are unconstrained.             *)
(***************************************************************************)
ASSUME ConstAssumption ==
    /\ Owner \in [Events -> Watchers]
    /\ {"main", "cb"} \subseteq Callers
    /\ Allowed \in [Callers -> SUBSET OpKinds]
    /\ CanCancel \in BOOLEAN
    /\ NoEvent \notin Events
    /\ NoCaller \notin Callers

VARIABLES
    running,        \* mngr.running
    watchersMap,    \* mngr.watchersMap
    watcherEvents,  \* mngr.watcherEvents (iteration order abstracted)
    removing,       \* mngr.removingWatcherEvents
    subscribers,    \* mngr.subscribers; the empty set is the missing key
    wlock,          \* holder of mngr.watchersMutex
    queueMap,       \* mngr.queue.watchersMap
    leaving,        \* mngr.queue.leaving
    ctxDone,        \* ctx.Done() of the context given to Run()
    runPc,          \* the goroutine inside Run()
    toLaunch,       \* what is left of Run()'s range over watcherEvents
    ctxPc,          \* the context handler
    monPc,          \* the monitor of watcherDone
    cbPc,           \* the callback handler
    cbEv,           \* busData.evType
    cbTodo,         \* subscribers of the event not called yet
    cbDel,          \* deleteMe: their callback returned false
    wPc,            \* the runWatcher goroutines
    renew,          \* their local `renew'
    lPc,            \* the goroutines listening on `removed'
    api             \* the API call each caller is in

mngrVars == <<running, watchersMap, watcherEvents, removing, subscribers, wlock>>
queueVars == <<queueMap, leaving>>
runVars == <<runPc, toLaunch>>
cbVars == <<cbPc, cbEv, cbTodo, cbDel>>
watchVars == <<wPc, renew, lPc>>
vars == <<mngrVars, queueVars, ctxDone, runVars, ctxPc, monPc, cbVars, watchVars, api>>

Insts == Events \X {"run", "add"}
Ev(i) == i[1]
EventsOf(w) == {e \in Events : Owner[e] = w}
Subs == [ptr : Ptrs, fn : Fns]
Calls == [op   : {"idle", "add", "remove", "removeSend"},
          todo : SUBSET Events,
          ev   : Events \cup {NoEvent}]
Idle == [op |-> "idle", todo |-> {}, ev |-> NoEvent]

\* `abort' is assigned by the listener before it calls cancel().
Abort(i) == lPc[i] \in {"cancel", "end"}
\* nCtx is derived from Run()'s context.
Cancelled(i) == ctxDone \/ lPc[i] = "end"
Alive(i) == wPc[i] \notin {"off", "end"}

Init ==
    /\ running = FALSE
    /\ watchersMap = {}
    /\ watcherEvents = {}
    /\ removing = {}
    /\ subscribers = [e \in Events |-> {}]
    /\ wlock = NoCaller
    /\ queueMap = {}
    /\ leaving = FALSE
    /\ ctxDone = FALSE
    /\ runPc = "init"
    /\ toLaunch = {}
    /\ ctxPc = "off"
    /\ monPc = "off"
    /\ cbPc = "off"
    /\ cbEv = NoEvent
    /\ cbTodo = {}
    /\ cbDel = {}
    /\ wPc = [i \in Insts |-> "off"]
    /\ renew = [i \in Insts |-> TRUE]
    /\ lPc = [i \in Insts |-> "off"]
    /\ api = [c \in Callers |-> Idle]

-----------------------------------------------------------------------------
(* The API.  An error return (unknown or known watcher) changes nothing.   *)

CanCall(c, op) ==
    /\ op \in Allowed[c]
    /\ api[c] = Idle
    /\ c = "main" => runPc = "init"
    /\ c = "cb" => cbPc = "call" /\ cbTodo # {}

\* Addresses no reachable EventCb variable has.
FreshPtrs ==
    Ptrs \ {s.ptr : s \in cbTodo \cup UNION {subscribers[e] : e \in Events}}

\* &cb of Subscribe's own parameter is what the subscription keeps.
Subscribe(c, e, f) ==
    /\ CanCall(c, "subscribe")
    /\ \E p \in FreshPtrs :
          subscribers' = [subscribers EXCEPT ![e] = @ \cup {[ptr |-> p, fn |-> f]}]
    /\ UNCHANGED <<running, watchersMap, watcherEvents, removing, wlock, queueVars,
                   ctxDone, runVars, ctxPc, monPc, cbVars, watchVars, api>>

\* The unexported unsubscribe: keep whoever has another callback address.
Without(e, ptrs) == [subscribers EXCEPT ![e] = {s \in @ : s.ptr \notin ptrs}]

\* Unsubscribe passes down the address of its own copy of cb.
Unsubscribe(c, e, f) ==
    /\ CanCall(c, "unsubscribe")
    /\ \E p \in FreshPtrs : subscribers' = Without(e, {p})
    /\ UNCHANGED <<running, watchersMap, watcherEvents, removing, wlock, queueVars,
                   ctxDone, runVars, ctxPc, monPc, cbVars, watchVars, api>>

\* AddWatcher up to the read of mngr.running.
AddWatcher(c, w) ==
    /\ CanCall(c, "add")
    /\ wlock = NoCaller
    /\ w \notin watchersMap
    /\ wlock' = c
    /\ watchersMap' = watchersMap \cup {w}
    /\ watcherEvents' = watcherEvents \cup EventsOf(w)
    /\ api' = [api EXCEPT ![c] = [op |-> "add", todo |-> EventsOf(w), ev |-> NoEvent]]
    /\ UNCHANGED <<running, removing, subscribers, queueVars, ctxDone, runVars,
                   ctxPc, monPc, cbVars, watchVars>>

\* queue.add and `go runWatcher', which starts the listener on `removed'.
Launch(i) ==
    /\ queueMap' = queueMap \cup {Ev(i)}
    /\ wPc' = [wPc EXCEPT ![i] = "run"]
    /\ lPc' = [lPc EXCEPT ![i] = "recv"]

\* Fault: AddWatcher launches whether or not the manager is running.
AddWatcherLaunchAlways(c, e) ==
    /\ api[c].op = "add"
    /\ e \in api[c].todo
    /\ Launch(<<e, "add">>)
    /\ api' = [api EXCEPT ![c].todo = @ \ {e}]
    /\ UNCHANGED <<mngrVars, leaving, ctxDone, runVars, ctxPc, monPc, cbVars, renew>>

\* The loop of AddWatcher that launches when the manager is running.
AddWatcherLaunch(c, e) ==
    /\ api[c].op = "add"
    /\ running
    /\ e \in api[c].todo
    /\ Launch(<<e, "add">>)
    /\ api' = [api EXCEPT ![c].todo = @ \ {e}]
    /\ UNCHANGED <<mngrVars, leaving, ctxDone, runVars, ctxPc, monPc, cbVars, renew>>

AddWatcherReturn(c) ==
    /\ api[c].op = "add"
    /\ running => api[c].todo = {}
    /\ wlock' = NoCaller
    /\ api' = [api EXCEPT ![c] = Idle]
    /\ UNCHANGED <<running, watchersMap, watcherEvents, removing, subscribers,
                   queueVars, ctxDone, runVars, ctxPc, monPc, cbVars, watchVars>>

RemoveWatcher(c, w) ==
    /\ CanCall(c, "remove")
    /\ wlock = NoCaller
    /\ w \in watchersMap
    /\ wlock' = c
    /\ api' = [api EXCEPT ![c] = [op   |-> "remove",
                                  todo |-> watcherEvents \cap EventsOf(w),
                                  ev   |-> NoEvent]]
    /\ UNCHANGED <<running, watchersMap, watcherEvents, removing, subscribers,
                   queueVars, ctxDone, runVars, ctxPc, monPc, cbVars, watchVars>>

\* Fault: the event type is marked as being removed and never aborted.
RemoveWatcherMarkOnly(c, e) ==
    /\ api[c].op = "remove"
    /\ e \in api[c].todo
    /\ removing' = removing \cup {e}
    /\ api' = [api EXCEPT ![c].todo = @ \ {e}]
    /\ UNCHANGED <<running, watchersMap, watcherEvents, subscribers, wlock, queueVars,
                   ctxDone, runVars, ctxPc, monPc, cbVars, watchVars>>

\* One iteration of RemoveWatcher's loop, up to the send on `removed'.
RemoveWatcherNext(c, e) ==
    /\ api[c].op = "remove"
    /\ e \in api[c].todo
    /\ \/ /\ e \in removing
          /\ api' = [api EXCEPT ![c].todo = @ \ {e}]
          /\ UNCHANGED removing
       \/ /\ e \notin removing
          /\ removing' = removing \cup {e}
          /\ api' = [api EXCEPT ![c] = [op   |-> "removeSend",
                                        todo |-> @.todo \ {e},
                                        ev   |-> e]]
    /\ UNCHANGED <<running, watchersMap, watcherEvents, subscribers, wlock, queueVars,
                   ctxDone, runVars, ctxPc, monPc, cbVars, watchVars>>

\* RemoveWatcher's `curr.removed <- true' meets the listener's receive.
RemoveWatcherSend(c, i) ==
    /\ api[c].op = "removeSend"
    /\ api[c].ev = Ev(i)
    /\ lPc[i] = "recv"
    /\ lPc' = [lPc EXCEPT ![i] = "cancel"]
    /\ api' = [api EXCEPT ![c] = [op |-> "remove", todo |-> @.todo, ev |-> NoEvent]]
    /\ UNCHANGED <<mngrVars, queueVars, ctxDone, runVars, ctxPc, monPc, cbVars, wPc, renew>>

RemoveWatcherReturn(c) ==
    /\ api[c].op = "remove"
    /\ api[c].todo = {}
    /\ wlock' = NoCaller
    /\ api' = [api EXCEPT ![c] = Idle]
    /\ UNCHANGED <<running, watchersMap, watcherEvents, removing, subscribers,
                   queueVars, ctxDone, runVars, ctxPc, monPc, cbVars, watchVars>>

-----------------------------------------------------------------------------
(* Run() and its three goroutines.                                         *)

RunStart ==
    /\ runPc = "init"
    /\ api["main"] = Idle
    /\ running' = TRUE
    /\ runPc' = "range"
    /\ ctxPc' = "select"
    /\ cbPc' = "select"
    /\ UNCHANGED <<watchersMap, watcherEvents, removing, subscribers, wlock, queueVars,
                   ctxDone, toLaunch, monPc, cbEv, cbTodo, cbDel, watchVars, api>>

\* The range expression is evaluated once, without watchersMutex.
RunRange ==
    /\ runPc = "range"
    /\ toLaunch' = watcherEvents
    /\ runPc' = "launch"
    /\ UNCHANGED <<mngrVars, queueVars, ctxDone, ctxPc, monPc, cbVars, watchVars, api>>

RunLaunch(e) ==
    /\ runPc = "launch"
    /\ e \in toLaunch
    /\ Launch(<<e, "run">>)
    /\ toLaunch' = toLaunch \ {e}
    /\ UNCHANGED <<mngrVars, leaving, ctxDone, runPc, ctxPc, monPc, cbVars, renew, api>>

RunMonitor ==
    /\ runPc = "launch"
    /\ toLaunch = {}
    /\ runPc' = "wait"
    /\ monPc' = "length"
    /\ UNCHANGED <<mngrVars, queueVars, ctxDone, toLaunch, ctxPc, cbVars, watchVars, api>>

\* wg.Wait() and the return of Run().
RunReturn ==
    /\ runPc = "wait"
    /\ ctxPc = "done"
    /\ cbPc = "done"
    /\ monPc = "done"
    /\ runPc' = "returned"
    /\ UNCHANGED <<mngrVars, queueVars, ctxDone, toLaunch, ctxPc, monPc, cbVars, watchVars, api>>

CtxHandlerDone ==
    /\ ctxPc = "select"
    /\ ctxDone
    /\ leaving' = TRUE
    /\ ctxPc' = "sendCb"
    /\ UNCHANGED <<mngrVars, queueMap, ctxDone, runVars, monPc, cbVars, watchVars, api>>

CtxHandlerFinishCb ==
    /\ ctxPc = "sendCb"
    /\ cbPc = "select"
    /\ ctxPc' = "done"
    /\ cbPc' = "done"
    /\ UNCHANGED <<mngrVars, queueVars, ctxDone, runVars, monPc, cbEv, cbTodo, cbDel,
                   watchVars, api>>

\* After the receive from finishContextHandler.
CtxHandlerLeave ==
    /\ ctxPc = "leave"
    /\ leaving' = TRUE
    /\ ctxPc' = "done"
    /\ UNCHANGED <<mngrVars, queueMap, ctxDone, runVars, monPc, cbVars, watchVars, api>>

MonitorLength ==
    /\ monPc = "length"
    /\ monPc' = IF queueMap = {} THEN "done" ELSE "recv"
    /\ UNCHANGED <<mngrVars, queueVars, ctxDone, runVars, ctxPc, cbVars, watchVars, api>>

\* Fault: the monitor signals to leave one watcher too early.
MonitorDoneEarly(i) ==
    /\ monPc = "recv"
    /\ wPc[i] = "sendDone"
    /\ wPc' = [wPc EXCEPT ![i] = "end"]
    /\ queueMap' = queueMap \ {Ev(i)}
    /\ removing' = removing \ {Ev(i)}
    /\ monPc' = IF ~leaving /\ Cardinality(queueMap') <= 1 THEN "sendCtx"
                ELSE IF queueMap' = {} THEN "done" ELSE "recv"
    /\ UNCHANGED <<running, watchersMap, watcherEvents, subscribers, wlock, leaving,
                   ctxDone, runVars, ctxPc, cbVars, renew, lPc, api>>

\* A receive from watcherDone and the rest of the loop body.
MonitorDone(i) ==
    /\ monPc = "recv"
    /\ wPc[i] = "sendDone"
    /\ wPc' = [wPc EXCEPT ![i] = "end"]
    /\ queueMap' = queueMap \ {Ev(i)}
    /\ removing' = removing \ {Ev(i)}
    /\ monPc' = IF queueMap' # {} THEN "recv" ELSE IF leaving THEN "done" ELSE "sendCtx"
    /\ UNCHANGED <<running, watchersMap, watcherEvents, subscribers, wlock, leaving,
                   ctxDone, runVars, ctxPc, cbVars, renew, lPc, api>>

MonitorFinishCtx ==
    /\ monPc = "sendCtx"
    /\ ctxPc = "select"
    /\ monPc' = "sendCb"
    /\ ctxPc' = "leave"
    /\ UNCHANGED <<mngrVars, queueVars, ctxDone, runVars, cbVars, watchVars, api>>

\* Fault: only the context handler is told to finish.
MonitorFinishCbSkipped ==
    /\ monPc = "sendCb"
    /\ cbPc = "select"
    /\ monPc' = "done"
    /\ UNCHANGED <<mngrVars, queueVars, ctxDone, runVars, ctxPc, cbVars, watchVars, api>>

MonitorFinishCb ==
    /\ monPc = "sendCb"
    /\ cbPc = "select"
    /\ monPc' = "done"
    /\ cbPc' = "done"
    /\ UNCHANGED <<mngrVars, queueVars, ctxDone, runVars, ctxPc, cbEv, cbTodo, cbDel,
                   watchVars, api>>

\* The receive from dataBus; the subscribers are read without subscribersMutex.
CallbackReceive(i) ==
    /\ cbPc = "select"
    /\ wPc[i] = "bus"
    /\ wPc' = [wPc EXCEPT ![i] = IF renew[i] THEN "run" ELSE "fin"]
    /\ cbEv' = Ev(i)
    /\ cbTodo' = subscribers[Ev(i)]
    /\ cbDel' = {}
    /\ cbPc' = IF subscribers[Ev(i)] = {} THEN "select" ELSE "call"
    /\ UNCHANGED <<mngrVars, queueVars, ctxDone, runVars, ctxPc, monPc, renew, lPc, api>>

\* One subscribed callback returns; `keep' is its result.
Callback(s, keep) ==
    /\ cbPc = "call"
    /\ api["cb"] = Idle
    /\ s \in cbTodo
    /\ cbTodo' = cbTodo \ {s}
    /\ cbDel' = IF keep THEN cbDel ELSE cbDel \cup {s.ptr}
    /\ UNCHANGED <<mngrVars, queueVars, ctxDone, runVars, ctxPc, monPc, cbPc, cbEv,
                   watchVars, api>>

\* Fault: `break' leaves the handler's loop, not only its select.
CallbackUnsubscribeLeave ==
    /\ cbPc = "call"
    /\ cbTodo = {}
    /\ subscribers' = Without(cbEv, cbDel)
    /\ cbPc' = IF subscribers'[cbEv] = {} THEN "done" ELSE "select"
    /\ UNCHANGED <<running, watchersMap, watcherEvents, removing, wlock, queueVars,
                   ctxDone, runVars, ctxPc, monPc, cbEv, cbTodo, cbDel, watchVars, api>>

\* Drop who does not renew.  The `break' of "No subscribers left" ends the
\* select statement only, so the handler goes on either way.
CallbackUnsubscribe ==
    /\ cbPc = "call"
    /\ cbTodo = {}
    /\ subscribers' = Without(cbEv, cbDel)
    /\ cbPc' = "select"
    /\ UNCHANGED <<running, watchersMap, watcherEvents, removing, wlock, queueVars,
                   ctxDone, runVars, ctxPc, monPc, cbEv, cbTodo, cbDel, watchVars, api>>

-----------------------------------------------------------------------------
(* runWatcher.                                                             *)

\* watcher.Run() returns whenever it likes, with either value of renew.
WatcherRun(i, r) ==
    /\ wPc[i] = "run"
    /\ renew' = [renew EXCEPT ![i] = r]
    /\ wPc' = [wPc EXCEPT ![i] = "check"]
    /\ UNCHANGED <<mngrVars, queueVars, ctxDone, runVars, ctxPc, monPc, cbVars, lPc, api>>

\* The test of abort and leaving between Run() and the send on dataBus.
WatcherCheck(i) ==
    /\ wPc[i] = "check"
    /\ wPc' = [wPc EXCEPT ![i] = IF Abort(i) \/ leaving THEN "fin" ELSE "bus"]
    /\ UNCHANGED <<mngrVars, queueVars, ctxDone, runVars, ctxPc, monPc, cbVars, renew, lPc, api>>

\* The test of abort after the loop, a second read of the same variable.
WatcherFinish(i) ==
    /\ wPc[i] = "fin"
    /\ wPc' = [wPc EXCEPT ![i] = IF Abort(i) THEN "sendDone" ELSE "sendRemoved"]
    /\ UNCHANGED <<mngrVars, queueVars, ctxDone, runVars, ctxPc, monPc, cbVars, renew, lPc, api>>

\* The watcher's own `removed <- true' meets a listener of the same channel.
WatcherSelfRemove(i, j) ==
    /\ wPc[i] = "sendRemoved"
    /\ Ev(i) = Ev(j)
    /\ lPc[j] = "recv"
    /\ wPc' = [wPc EXCEPT ![i] = "sendDone"]
    /\ lPc' = [lPc EXCEPT ![j] = "cancel"]
    /\ UNCHANGED <<mngrVars, queueVars, ctxDone, runVars, ctxPc, monPc, cbVars, renew, api>>

ListenerCancel(i) ==
    /\ lPc[i] = "cancel"
    /\ lPc' = [lPc EXCEPT ![i] = "end"]
    /\ UNCHANGED <<mngrVars, queueVars, ctxDone, runVars, ctxPc, monPc, cbVars, wPc, renew, api>>

CancelContext ==
    /\ CanCancel
    /\ ~ctxDone
    /\ ctxDone' = TRUE
    /\ UNCHANGED <<mngrVars, queueVars, runVars, ctxPc, monPc, cbVars, watchVars, api>>

-----------------------------------------------------------------------------
ApiStep(c) ==
    \/ \E e \in Events, f \in Fns : Subscribe(c, e, f) \/ Unsubscribe(c, e, f)
    \/ \E w \in Watchers : AddWatcher(c, w) \/ RemoveWatcher(c, w)
    \/ \E e \in Events : AddWatcherLaunch(c, e) \/ RemoveWatcherNext(c, e)
    \/ \E i \in Insts : RemoveWatcherSend(c, i)
    \/ AddWatcherReturn(c) \/ RemoveWatcherReturn(c)

RunStep ==
    \/ RunStart \/ RunRange \/ RunMonitor \/ RunReturn
    \/ \E e \in Events : RunLaunch(e)

CtxHandlerStep == CtxHandlerDone \/ CtxHandlerFinishCb \/ CtxHandlerLeave

MonitorStep ==
    \/ MonitorLength \/ MonitorFinishCtx \/ MonitorFinishCb
    \/ \E i \in Insts : MonitorDone(i)

CallbackStep ==
    \/ \E i \in Insts : CallbackReceive(i)
    \/ \E s \in cbTodo, keep \in BOOLEAN : Callback(s, keep)
    \/ CallbackUnsubscribe

WatcherStep(i) ==
    \/ \E r \in BOOLEAN : WatcherRun(i, r)
    \/ WatcherCheck(i) \/ WatcherFinish(i)
    \/ \E j \in Insts : WatcherSelfRemove(i, j)
    \/ ListenerCancel(i)

Next ==
    \/ \E c \in Callers : ApiStep(c)
    \/ RunStep \/ CtxHandlerStep \/ MonitorStep \/ CallbackStep
    \/ \E i \in Insts : WatcherStep(i)
    \/ CancelContext

Spec == Init /\ [][Next]_vars

\* What caller c does inside a call it has started.
ApiContinue(c) ==
    \/ \E e \in Events : AddWatcherLaunch(c, e) \/ RemoveWatcherNext(c, e)
    \/ \E i \in Insts : RemoveWatcherSend(c, i)
    \/ AddWatcherReturn(c) \/ RemoveWatcherReturn(c)

\* What moves the runWatcher goroutine i, its channel partners included.
WatcherContinue(i) ==
    \/ Cancelled(i) /\ \E r \in BOOLEAN : WatcherRun(i, r)
    \/ WatcherCheck(i) \/ WatcherFinish(i)
    \/ \E j \in Insts : WatcherSelfRemove(i, j)
    \/ CallbackReceive(i) \/ MonitorDone(i)

(***************************************************************************)
(* A goroutine that can go on does.  Senders blocked on a Go channel are   *)
(* served first come, first served, hence strong fairness for the          *)
(* goroutine of an event type, whose partner is ready again and again (it  *)
(* is one goroutine: SingleLaunch).  watcher.Run() must return once its    *)
(* context is cancelled and is otherwise free to block for ever; whether a *)
(* program starts another API call is its own choice, and so is the        *)
(* cancellation of the context.                                            *)
(***************************************************************************)
Fairness ==
    /\ WF_vars(RunStep) /\ WF_vars(CtxHandlerStep) /\ WF_vars(MonitorStep)
    /\ WF_vars(CallbackUnsubscribe \/ \E s \in cbTodo, keep \in BOOLEAN : Callback(s, keep))
    /\ \A c \in Callers : WF_vars(ApiContinue(c))
    /\ \A e \in Events : SF_vars(WatcherContinue(<<e, "run">>) \/ WatcherContinue(<<e, "add">>))
    /\ \A i \in Insts : WF_vars(ListenerCancel(i))

FairSpec == Spec /\ Fairness

-----------------------------------------------------------------------------
(* Properties.                                                             *)

\* Type invariant of the manager's fields, the channels' users and the calls.
TypeOK ==
    /\ running \in BOOLEAN /\ leaving \in BOOLEAN /\ ctxDone \in BOOLEAN
    /\ watchersMap \subseteq Watchers
    /\ watcherEvents \subseteq Events
    /\ removing \subseteq Events
    /\ subscribers \in [Events -> SUBSET Subs]
    /\ wlock \in Callers \cup {NoCaller}
    /\ queueMap \subseteq Events
    /\ runPc \in {"init", "range", "launch", "wait", "returned"}
    /\ toLaunch \subseteq Events
    /\ ctxPc \in {"off", "select", "sendCb", "leave", "done"}
    /\ monPc \in {"off", "length", "recv", "sendCtx", "sendCb", "done"}
    /\ cbPc \in {"off", "select", "call", "done"}
    /\ cbEv \in Events \cup {NoEvent}
    /\ cbPc = "call" => cbEv \in Events
    /\ cbTodo \subseteq Subs
    /\ cbDel \subseteq Ptrs
    /\ wPc \in [Insts -> {"off", "run", "check", "bus", "fin", "sendRemoved", "sendDone", "end"}]
    /\ renew \in [Insts -> BOOLEAN]
    /\ lPc \in [Insts -> {"off", "recv", "cancel", "end"}]
    /\ api \in [Callers -> Calls]

\* No event type is ever served by two runWatcher goroutines: what Run()
\* launches and what AddWatcher() launches are disjoint (they would share one
\* `removed' channel and one key of the queue).
SingleLaunch ==
    \A e \in Events : wPc[<<e, "run">>] = "off" \/ wPc[<<e, "add">>] = "off"

\* queue.watchersMap holds exactly the event types whose goroutine was launched
\* and has not been acknowledged over watcherDone, in every interleaving of
\* Run(), AddWatcher() and the monitor.
QueueTracksRunning ==
    \A e \in Events : e \in queueMap <=> \E i \in Insts : Ev(i) = e /\ Alive(i)

\* Run() does not return while a watcher it launched itself is still running,
\* not even after a cancellation ("it will block until all watchers have given
\* up/failed").
NoEarlyReturn ==
    runPc = "returned" => \A e \in Events : ~Alive(<<e, "run">>)

\* An event type marked as being removed is one whose goroutine was told to
\* abort, or whose RemoveWatcher() call is still sending: a later request that
\* skips it because of the mark skips nothing that is still to be done.
RemovedIsAborted ==
    \A e \in removing :
        \/ \E c \in Callers : api[c].op = "removeSend" /\ api[c].ev = e
        \/ \E i \in Insts : Ev(i) = e /\ Abort(i)

GaveUp(i) == wPc[i] \in {"fin", "sendRemoved", "sendDone", "end"}

AllGaveUp ==
    /\ \E i \in Insts : wPc[i] # "off"
    /\ \A i \in Insts : wPc[i] = "off" \/ GaveUp(i)

\* An event put on dataBus is taken by the callback handler, also when it is busy with
\* another event type, one of its callbacks is in AddWatcher() or gives up its
\* subscription: no watcher stays in the send for ever while Run() goes on and is
\* not cancelled.
EveryEventHandled ==
    \A i \in Insts : []<>(wPc[i] # "bus" \/ ctxDone \/ runPc = "returned")

\* A watcher that read queue.leaving before it was set sends its event after the
\* callback handler left.
LateEvent == \E i \in Insts : wPc[i] = "bus" /\ cbPc = "done"

\* The monitor read queue.leaving before it was set and signals the context handler,
\* which left because of the cancellation.
LateSignal == monPc = "sendCtx" /\ ctxPc = "done"

\* Run() returns when it has no more to do: once every launched watcher stopped
\* renewing the monitor's two signals are received, unless a callback goes on to add
\* watchers.  A cancelled context is passed "down to the other go routines to finish
\* its job and leave": the only ways for Run() to hang then are an event and a signal
\* sent to a handler that has left.
RunEnds ==
    /\ []<>(runPc # "wait" \/ ~AllGaveUp \/ ctxDone)
    /\ []<>(~running \/ ~ctxDone \/ runPc = "returned" \/ LateEvent \/ LateSignal)
=============================================================================
