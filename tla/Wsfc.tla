-------------------------------- MODULE Wsfc --------------------------------
(***************************************************************************)
(* The failover clustering manager and its agent (wsfc.go), a listener     *)
(* that answers health checks: the manager starts, stops and moves it as   *)
(* the metadata asks.  Each listener has a goroutine that accepts its      *)
(* connections and one for each connection, counted by a wait group.       *)
(***************************************************************************)
EXTENDS WindowsLoop

CONSTANTS
    Ports,       \* the port numbers wsfc-agent-port may have
    DefaultPort, \* 59998
    BadPort,     \* a value that is no port
    NoPort,      \* the empty string; as a port, any free one
    MaxConns     \* bound: connections handled at a time

VARIABLES
    port,       \* a.port
    listener,   \* the port of a.listener, in a set that is empty if it is nil
    open,       \* the listener is open
    accepted,   \* its goroutine holds a connection it has not added to the wait group
    late,       \* the goroutines of earlier listeners that do
    waitGroup   \* connections being handled

listenVars == <<listener, open>>
connVars == <<accepted, late, waitGroup>>
wsfcVars == <<port, listenVars, connVars>>

WsfcInit ==
    /\ port = DefaultPort
    /\ listener = {} /\ open = FALSE
    /\ accepted = FALSE /\ late = 0 /\ waitGroup = 0

\* newWsfcManager(): agentNewState.  The first of these that is set decides: the
\* flag, and not the addresses, which a comment there says override it.
NewState(d) ==
    IF d.enable # "unset" THEN d.enable = "true"
    ELSE \/ d.addresses
         \/ d.projectEnable = "true"
         \/ d.projectEnable = "unset" /\ d.projectAddresses

\* agentNewPort.  Of a port of the project only that it is set matters: the
\* instance's, the empty string, is taken.
NewPort(d) ==
    IF d.port # NoPort THEN d.port ELSE IF d.projectPort # NoPort THEN NoPort ELSE DefaultPort

Running == listener # {}
WsfcAt(p) == mgr = "wsfc" /\ wPc = p

\* Diff(), and Set() up to the first call of stop() or run().
WsfcSet ==
    /\ WsfcAt("start")
    /\ IF NewState(wNew) = Running /\ NewPort(wNew) = port
       THEN EventDone /\ UNCHANGED port
       ELSE /\ port' = NewPort(wNew)
            /\ IF Running THEN Goto("stop") ELSE IF NewState(wNew) THEN Goto("run") ELSE EventDone
    /\ UNCHANGED <<wFaults, listenVars, connVars>>

\* run(): a port that does not resolve, or is in use.
WsfcRun ==
    /\ WsfcAt("run")
    /\ \/ port # BadPort /\ listener' = {port} /\ open' = TRUE /\ UNCHANGED wFaults
       \/ port = BadPort /\ UNCHANGED <<listenVars, wFaults>>
       \/ WinFault("listen") /\ UNCHANGED listenVars
    /\ EventDone
    /\ UNCHANGED <<port, connVars>>


\* stop(): what the listener's goroutine has accepted is its own.
CloseListener ==
    /\ WsfcAt("stop")
    /\ open' = FALSE
    /\ accepted' = FALSE /\ late' = IF accepted THEN late + 1 ELSE late
    /\ \/ Goto("wait") /\ UNCHANGED wFaults
       \/ WinFault("close") /\ Goto("waitFailed")
    /\ UNCHANGED <<port, listener, waitGroup>>

\* The wait for the requests; on a new port the agent is run again, unless Close()
\* returned an error.
WaitForRequests ==
    /\ WsfcAt("wait") \/ WsfcAt("waitFailed")
    /\ waitGroup = 0
    /\ listener' = {}
    /\ IF wPc = "wait" /\ NewState(wNew) THEN Goto("run") ELSE EventDone
    /\ UNCHANGED <<wFaults, port, open, connVars>>

WsfcStep == WsfcSet \/ WsfcRun \/ CloseListener \/ WaitForRequests

-----------------------------------------------------------------------------
(* The goroutines of the agent.                                            *)

Accept ==
    /\ open /\ ~accepted
    /\ accepted' = TRUE
    /\ UNCHANGED <<eventVars, port, listenVars, late, waitGroup>>

\* waitGroup.Add(1), perhaps after the Wait() of stop().
HandleConnection ==
    /\ waitGroup < MaxConns
    /\ \/ accepted /\ accepted' = FALSE /\ UNCHANGED late
       \/ late > 0 /\ late' = late - 1 /\ UNCHANGED accepted
    /\ waitGroup' = waitGroup + 1
    /\ UNCHANGED <<eventVars, port, listenVars>>

\* handleHealthCheckRequest() returns, at the latest at the connection's deadline.
HealthCheckDone ==
    /\ waitGroup > 0
    /\ waitGroup' = waitGroup - 1
    /\ UNCHANGED <<eventVars, port, listenVars, accepted, late>>

WsfcRestarted ==
    /\ port' = DefaultPort
    /\ listener' = {} /\ open' = FALSE
    /\ accepted' = FALSE /\ late' = 0 /\ waitGroup' = 0

-----------------------------------------------------------------------------
\* Type invariant of the agent.
WsfcTypeOK ==
    /\ port \in Ports \cup {DefaultPort, BadPort, NoPort}
    /\ listener \subseteq Ports \cup {DefaultPort, NoPort} /\ open \in BOOLEAN
    /\ accepted \in BOOLEAN /\ late \in Nat /\ waitGroup \in 0..MaxConns

\* What the instance, or the project, says: its flag, or else that it has addresses.
Says(flag, addresses) == IF flag # "unset" THEN flag ELSE IF addresses THEN "true" ELSE "unset"

\* The instance has the first word.
Asked(d) ==
    LET instance == Says(d.enable, d.addresses)
        project == Says(d.projectEnable, d.projectAddresses)
    IN  instance = "true" \/ (instance = "unset" /\ project = "true")

\* The agent listens if the metadata asks for it, on the port of the instance, or the
\* default one if nobody names a port, also when stop() had to wait for requests and a
\* port was in use; a port that does not resolve stops it.  (If only the project names
\* one, the agent listens on any free port.)
ListensAsAsked ==
    IF Asked(wMd) /\ wMd.port # BadPort
    THEN /\ open /\ listener # {}
         /\ wMd.port # NoPort => listener = {wMd.port}
         /\ wMd.port = NoPort /\ wMd.projectPort = NoPort => listener = {DefaultPort}
    ELSE listener = {} /\ ~open
=============================================================================
