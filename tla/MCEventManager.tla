-------------------------- MODULE MCEventManager --------------------------
(* Instances of EventManager for TLC: two watchers with an event type each, *)
(* as the agent's default watchers have, and a few ways of using the API.   *)
EXTENDS EventManager, TLC

CONSTANTS e1, e2, w1, w2, f1, p1, p2

\* Every watcher has one event type, as in events/metadata,
\* events/gracefulshutdown and events/sshtrustedca.
MCOwner == (e1 :> w1) @@ (e2 :> w2)

\* The agent adds watchers and callbacks before Run() and from a callback
\* (OS Login), and may call sshca.Close(), which unsubscribes; another
\* goroutine removes watchers.
SafetyUse == [c \in Callers |-> CASE c = "main" -> {"add", "subscribe", "unsubscribe"}
                                  [] c = "cb" -> {"add"}
                                  [] OTHER -> {"remove"}]

\* Watchers and callbacks are added before Run(), and by a callback while its event
\* is delivered: when OS Login gets certificates, osloginMgr adds the watcher of the
\* pipe and sshca.Init() subscribes to it.
LiveUse == [c \in Callers |-> CASE c = "main" -> {"add", "subscribe"} [] c = "cb" -> {"add"} [] OTHER -> {}]
===========================================================================
