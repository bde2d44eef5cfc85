--------------------------- MODULE CommandMonitor ---------------------------
(***************************************************************************)
(* The command monitor (command_monitor.go, command.go): the accept loop,  *)
(* one goroutine per connection, and the handlers map behind a RWMutex     *)
(* that callers of RegisterHandler() and UnregisterHandler() share with    *)
(* the connections.  A waiting writer keeps new readers out, as in Go.     *)
(***************************************************************************)
EXTENDS Naturals, FiniteSets

CONSTANTS
    Conns,      \* connections clients may make
    Cmds,       \* commands
    Callers,    \* goroutines that register and unregister handlers
    MaxCalls    \* bound: calls of Register- and UnregisterHandler()

Bad == "bad"          \* complete, but no valid JSON
Partial == "partial"  \* the braces never balance
Hangup == "hangup"    \* the client closes in the middle of the request
CommandRequests == Cmds \cup {Bad, Partial, Hangup}

\* Status of a response; "none" as long as there is none, "empty" when the
\* connection is closed without one.
Replies == {"none", "empty", "ok", "notFound", "badRequest", "connError", "timeout", "handlerError"}

ASSUME CommandAssumption ==
    /\ Cmds # {} /\ Cmds \cap {Bad, Partial, Hangup} = {}
    /\ MaxCalls \in Nat

VARIABLES
    listener,  \* new, open, closed or failed
    loop,      \* the accept loop: off, check, accept or ended
    ctxDone,
    connPc,    \* where a connection is
    req,       \* what its client sends
    reply,     \* what its client was answered
    handlers,  \* commands with a handler
    readers,   \* connections holding handlersMu.RLock()
    callPc,    \* callers: idle, lock (waiting) or locked
    callOp,    \* what a caller is doing
    calls      \* calls so far

serverVars == <<listener, loop, ctxDone>>
connVars == <<connPc, req, reply>>
callVars == <<callPc, callOp, calls>>
commandVars == <<serverVars, connVars, handlers, readers, callVars>>

CallOps == [op : {"register", "unregister"}, cmd : Cmds]

CommandInit ==
    /\ listener = "new" /\ loop = "off" /\ ctxDone = FALSE
    /\ connPc = [c \in Conns |-> "none"]
    /\ req \in [Conns -> CommandRequests]
    /\ reply = [c \in Conns |-> "none"]
    /\ handlers = {} /\ readers = {}
    /\ callPc = [p \in Callers |-> "idle"]
    /\ callOp = [p \in Callers |-> CHOOSE op \in CallOps : TRUE]
    /\ calls = 0

Set(f, x, v) == [f EXCEPT ![x] = v]

-----------------------------------------------------------------------------
(* The server.                                                             *)

\* Init(): a second call returns early, listen() may fail.
StartServer ==
    /\ listener = "new"
    /\ \/ listener' = "open" /\ loop' = "check"
       \/ listener' = "failed" /\ UNCHANGED loop
    /\ UNCHANGED <<ctxDone, connVars, handlers, readers, callVars>>

\* Connections that were not accepted are reset.
Reset(l) ==
    IF l = "closed"
    THEN /\ connPc' = [c \in Conns |-> IF connPc[c] = "backlog" THEN "closed" ELSE connPc[c]]
         /\ reply' = [c \in Conns |-> IF connPc[c] = "backlog" THEN "connError" ELSE reply[c]]
    ELSE UNCHANGED <<connPc, reply>>

Close ==
    /\ listener = "open"
    /\ listener' = "closed"
    /\ Reset("closed")
    /\ UNCHANGED <<loop, ctxDone, req, handlers, readers, callVars>>

CancelContext ==
    /\ ~ctxDone
    /\ ctxDone' = TRUE
    /\ UNCHANGED <<listener, loop, connVars, handlers, readers, callVars>>

\* Fault: the context is looked at only while the server listens.
LoopCheckListening ==
    /\ loop = "check"
    /\ loop' = IF ctxDone /\ listener = "open" THEN "ended" ELSE "accept"
    /\ listener' = IF ctxDone THEN "closed" ELSE listener
    /\ Reset(listener')
    /\ UNCHANGED <<ctxDone, req, handlers, readers, callVars>>

\* The context is looked at before every Accept().
LoopCheck ==
    /\ loop = "check"
    /\ loop' = IF ctxDone THEN "ended" ELSE "accept"
    /\ listener' = IF ctxDone THEN "closed" ELSE listener
    /\ Reset(listener')
    /\ UNCHANGED <<ctxDone, req, handlers, readers, callVars>>

Accept(c) ==
    /\ loop = "accept" /\ listener = "open" /\ connPc[c] = "backlog"
    /\ connPc' = Set(connPc, c, "read")
    /\ loop' = "check"
    /\ UNCHANGED <<listener, ctxDone, req, reply, handlers, readers, callVars>>

\* Accept() of a closed listener returns a *net.OpError around net.ErrClosed,
\* which is not equal to it: the loop goes on.
AcceptFails ==
    /\ loop = "accept" /\ listener = "closed"
    /\ loop' = "check"
    /\ UNCHANGED <<listener, ctxDone, connVars, handlers, readers, callVars>>

-----------------------------------------------------------------------------
(* A connection.                                                           *)

\* SendCmdPipe()
Dial(c) ==
    /\ connPc[c] = "none" /\ listener # "new"
    /\ IF listener = "open"
       THEN connPc' = Set(connPc, c, "backlog") /\ UNCHANGED reply
       ELSE connPc' = Set(connPc, c, "closed") /\ reply' = Set(reply, c, "connError")
    /\ UNCHANGED <<serverVars, req, handlers, readers, callVars>>

\* Fault: no read deadline.
ReadRequestNoDeadline(c) ==
    /\ connPc[c] = "read" /\ req[c] # Partial
    /\ \/ req[c] \in Cmds /\ connPc' = Set(connPc, c, "rlock") /\ UNCHANGED reply
       \/ /\ req[c] \notin Cmds
          /\ connPc' = Set(connPc, c, "closed")
          /\ reply' = Set(reply, c, CASE req[c] = Bad -> "badRequest" [] req[c] = Hangup -> "connError")
    /\ UNCHANGED <<serverVars, req, handlers, readers, callVars>>

\* The runes up to a balanced brace, or the deadline, which may fail to be set.
ReadRequest(c) ==
    /\ connPc[c] = "read"
    /\ \/ req[c] \in Cmds /\ connPc' = Set(connPc, c, "rlock") /\ UNCHANGED reply
       \/ connPc' = Set(connPc, c, "closed") /\ reply' = Set(reply, c, "empty")
       \/ /\ req[c] \notin Cmds
          /\ connPc' = Set(connPc, c, "closed")
          /\ reply' = Set(reply, c, CASE req[c] = Bad -> "badRequest"
                                      [] req[c] = Hangup -> "connError"
                                      [] req[c] = Partial -> "timeout")
    /\ UNCHANGED <<serverVars, req, handlers, readers, callVars>>

WriterWaits == \E p \in Callers : callPc[p] \in {"lock", "locked"}

\* Fault: the lock is released after the lookup.
LookupUnlocked(c) ==
    /\ connPc[c] = "rlock" /\ ~WriterWaits
    /\ IF req[c] \in handlers
       THEN connPc' = Set(connPc, c, "handler") /\ UNCHANGED <<reply, readers>>
       ELSE /\ connPc' = Set(connPc, c, "closed")
            /\ reply' = Set(reply, c, "notFound")
            /\ UNCHANGED readers
    /\ UNCHANGED <<serverVars, req, handlers, callVars>>

\* handlersMu.RLock(), held until the connection is done.
Lookup(c) ==
    /\ connPc[c] = "rlock" /\ ~WriterWaits
    /\ IF req[c] \in handlers
       THEN /\ connPc' = Set(connPc, c, "handler")
            /\ readers' = readers \cup {c}
            /\ UNCHANGED reply
       ELSE /\ connPc' = Set(connPc, c, "closed")
            /\ reply' = Set(reply, c, "notFound")
            /\ UNCHANGED readers
    /\ UNCHANGED <<serverVars, req, handlers, callVars>>

HandlerReturns(c) ==
    /\ connPc[c] = "handler"
    /\ connPc' = Set(connPc, c, "closed")
    /\ readers' = readers \ {c}
    /\ reply' \in {Set(reply, c, "ok"), Set(reply, c, "handlerError")}
    /\ UNCHANGED <<serverVars, req, handlers, callVars>>

-----------------------------------------------------------------------------
(* RegisterHandler() and UnregisterHandler().                              *)

CallLock(p, op) ==
    /\ callPc[p] = "idle" /\ calls < MaxCalls
    /\ calls' = calls + 1
    /\ callOp' = Set(callOp, p, op)
    /\ callPc' = Set(callPc, p, "lock")
    /\ UNCHANGED <<serverVars, connVars, handlers, readers>>

CallLocked(p) ==
    /\ callPc[p] = "lock"
    /\ readers = {} /\ \A q \in Callers : callPc[q] # "locked"
    /\ callPc' = Set(callPc, p, "locked")
    /\ UNCHANGED <<serverVars, connVars, handlers, readers, callOp, calls>>

\* The map is changed, or an error returned when there is nothing to change.
CallDone(p) ==
    /\ callPc[p] = "locked"
    /\ handlers' = IF callOp[p].op = "register" THEN handlers \cup {callOp[p].cmd}
                                                 ELSE handlers \ {callOp[p].cmd}
    /\ callPc' = Set(callPc, p, "idle")
    /\ UNCHANGED <<serverVars, connVars, readers, callOp, calls>>

ConnStep(c) == ReadRequest(c) \/ Lookup(c) \/ HandlerReturns(c)
CallStep(p) == CallLocked(p) \/ CallDone(p)
LoopStep == LoopCheck \/ AcceptFails \/ \E c \in Conns : Accept(c)

CommandNext ==
    \/ StartServer \/ Close \/ CancelContext \/ LoopStep
    \/ \E c \in Conns : Dial(c) \/ ConnStep(c)
    \/ \E p \in Callers : CallStep(p) \/ \E op \in CallOps : CallLock(p, op)

CommandSpec == CommandInit /\ [][CommandNext]_commandVars

\* Goroutines go on, handlers return, and clients read: conn.Write() of a response,
\* which has no deadline and happens under RLock(), does not block for ever.  A
\* connection waiting for RLock() gets it in the end: Unlock() lets the readers in
\* that waited for it.
CommandFairSpec ==
    /\ CommandSpec
    /\ WF_commandVars(LoopStep)
    /\ \A c \in Conns : SF_commandVars(ConnStep(c)) /\ SF_commandVars(Accept(c))
    /\ \A p \in Callers : SF_commandVars(CallStep(p))

-----------------------------------------------------------------------------
\* Type invariant of the server, its connections and its callers.
CommandTypeOK ==
    /\ listener \in {"new", "open", "closed", "failed"}
    /\ loop \in {"off", "check", "accept", "ended"}
    /\ ctxDone \in BOOLEAN
    /\ connPc \in [Conns -> {"none", "backlog", "read", "rlock", "handler", "closed"}]
    /\ req \in [Conns -> CommandRequests] /\ reply \in [Conns -> Replies]
    /\ handlers \subseteq Cmds /\ readers \subseteq Conns
    /\ callPc \in [Callers -> {"idle", "lock", "locked"}]
    /\ callOp \in [Callers -> CallOps]
    /\ calls \in 0..MaxCalls

\* A handler runs only while it is registered: once UnregisterHandler() has
\* returned none is running and none starts, whatever was in flight.
HandlerIsRegistered ==
    \A c \in Conns : connPc[c] = "handler" => req[c] \in handlers

\* A client that reached the server is answered or finds its connection closed,
\* whatever it sends, however slowly, and whether or not the server is closed
\* meanwhile: nobody waits for the handlers' lock for ever.
ClientsAreAnswered ==
    \A c \in Conns : connPc[c] = "backlog" ~> reply[c] # "none"

\* "Close signals the server to stop listening for commands and stop waiting to
\* listen": the accept loop of a closed server ends once its context is cancelled
\* as well, from wherever the two find it.  (Close() alone does not end it: the
\* error of Accept() is compared with net.ErrClosed itself.)
ClosedLoopEnds == listener = "closed" /\ ctxDone ~> loop = "ended"
=============================================================================
