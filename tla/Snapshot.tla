------------------------------ MODULE Snapshot ------------------------------
(***************************************************************************)
(* The guest consistent snapshot listener (snapshot_listener.go): one      *)
(* goroutine receives requests on a gRPC stream and hands them over an     *)
(* unbuffered channel to another one, which runs the pre or post script    *)
(* and sends the response with retry.Run.                                  *)
(*                                                                         *)
(* The snapshot service is external.  It may ask for the same operation    *)
(* any number of times until it has the response, it gives up on the pre   *)
(* script when it asks for the post script, and it may send messages the   *)
(* agent ignores.                                                          *)
(***************************************************************************)
EXTENDS Integers, Sequences, FiniteSets, SequencesExt

CONSTANTS
    Ops,         \* operation IDs
    Outcomes,    \* what may become of the script of each type
    Capacity,    \* lru.New(128)
    MaxAttempts, \* policy.MaxAttempts
    MaxStream,   \* bound: messages in flight on the stream
    MaxFaults    \* bound: broken streams, failed responses, restarts, the end of ctx

ScriptOutcomes == {"missing", "timeout", "exit0", "exit1", "exit124"}

ASSUME SnapshotAssumption ==
    /\ Capacity \in Nat \ {0} /\ MaxAttempts \in Nat \ {0} /\ MaxStream \in Nat \ {0}
    /\ MaxFaults \in Nat
    /\ Outcomes \in [{"PRE_SNAPSHOT", "POST_SNAPSHOT"} -> SUBSET ScriptOutcomes]

PRE == "PRE_SNAPSHOT"
POST == "POST_SNAPSHOT"
Types == {PRE, POST}
Requests == [type : Types \cup {"NOT_SET"}, op : Ops]

\* A GuestMessage without a snapshot request.
ServerInfo == [type |-> "ServerInfo"]

\* A request whose operation type is not set.
Untyped == [type |-> "NOT_SET", op |-> CHOOSE o \in Ops : TRUE]

\* runScript(): scripts_return_code and agent_return_code.
ScriptsReturnCode(outcome) ==
    CASE outcome = "missing" -> -1
      [] outcome \in {"timeout", "exit124"} -> 124
      [] outcome = "exit1" -> 1
      [] OTHER -> 0
AgentReturnCode(outcome) ==
    CASE outcome = "missing" -> "SCRIPT_NOT_FOUND"
      [] ScriptsReturnCode(outcome) = 124 -> "SCRIPT_TIMED_OUT"
      [] ScriptsReturnCode(outcome) # 0 -> "UNHANDLED_SCRIPT_ERROR"
      [] OTHER -> "NO_ERROR"

Response(m, outcome) ==
    [type |-> m.type, op |-> m.op,
     scripts |-> ScriptsReturnCode(outcome), agent |-> AgentReturnCode(outcome)]
Responses == {Response(m, outcome) : m \in [type : Types, op : Ops], outcome \in ScriptOutcomes}

VARIABLES
    asked,    \* requests the service has made
    stream,   \* messages on their way to the agent
    broken,   \* the stream has failed
    answers,  \* responses the service has
    lPc, lMsg,             \* listenForSnapshotRequests()
    hPc, hMsg, hResponse,  \* handleSnapshotRequests()
    attempt,  \* of retry.Run
    seen,     \* the LRU caches, most recently used first
    cancelled,
    ran,      \* history: scripts this process has run
    outcomes, \* history: what became of the scripts
    since,    \* history: operations handled since another one was, whose script ran
    faults,   \* so far
    rpcFails  \* failed responses among them

serviceVars == <<asked, answers>>
streamVars == <<stream, broken>>
listenerVars == <<lPc, lMsg>>
handlerVars == <<hPc, hMsg, hResponse, attempt>>
historyVars == <<ran, outcomes, since>>
boundVars == <<faults, rpcFails>>
vars == <<serviceVars, streamVars, listenerVars, handlerVars, seen, cancelled, historyVars, boundVars>>

None == [type |-> "none"]
PerOp(v) == [t \in Types |-> [o \in Ops |-> v]]

Init ==
    /\ asked = {} /\ answers = {}
    /\ stream = <<>> /\ broken = FALSE
    /\ lPc = "connect" /\ lMsg = None
    /\ hPc = "dial" /\ hMsg = None /\ hResponse = None /\ attempt = 0
    /\ seen = [t \in Types |-> <<>>]
    /\ cancelled = FALSE
    /\ ran = {} /\ outcomes = PerOp({}) /\ since = PerOp({})
    /\ faults = 0 /\ rpcFails = 0

-----------------------------------------------------------------------------
(* The service and the network.                                            *)

Fault == faults < MaxFaults /\ faults' = faults + 1

Answered(t, o) == \E r \in answers : r.type = t /\ r.op = o

Connected == lPc \in {"recv", "send"} /\ ~broken

Send(m) == Connected /\ Len(stream) < MaxStream /\ stream' = Append(stream, m)

\* The service asks, for the first time or again.
Request(t, o) ==
    /\ ~Answered(t, o)
    /\ IF t = PRE THEN [type |-> POST, op |-> o] \notin asked
                  ELSE [type |-> PRE, op |-> o] \in asked
    /\ Send([type |-> t, op |-> o])
    /\ asked' = asked \cup {[type |-> t, op |-> o]}
    /\ UNCHANGED <<answers, broken, listenerVars, handlerVars, seen, cancelled, historyVars, boundVars>>

OddMessage ==
    /\ stream = <<>>
    /\ \E m \in {ServerInfo, Untyped} : Send(m)
    /\ UNCHANGED <<serviceVars, broken, listenerVars, handlerVars, seen, cancelled, historyVars, boundVars>>

\* What had arrived can still be read.
Break ==
    /\ Connected /\ Fault
    /\ broken' = TRUE
    /\ \E n \in 0..Len(stream) : stream' = SubSeq(stream, 1, n)
    /\ UNCHANGED <<serviceVars, listenerVars, handlerVars, seen, cancelled, historyVars, rpcFails>>

Cancel ==
    /\ ~cancelled /\ Fault
    /\ cancelled' = TRUE
    /\ UNCHANGED <<serviceVars, streamVars, listenerVars, handlerVars, seen, historyVars, rpcFails>>

\* The agent starts again: the caches are empty and the scripts are forgotten.
Restart ==
    /\ ~cancelled /\ Fault
    /\ stream' = <<>> /\ broken' = FALSE
    /\ lPc' = "connect" /\ lMsg' = None
    /\ hPc' = "dial" /\ hMsg' = None /\ hResponse' = None /\ attempt' = 0
    /\ seen' = [t \in Types |-> <<>>]
    /\ ran' = {} /\ since' = PerOp({})
    /\ UNCHANGED <<serviceVars, cancelled, outcomes, rpcFails>>

-----------------------------------------------------------------------------
(* listenForSnapshotRequests().  A CreateConnection() that fails is tried  *)
(* again at once, on a new connection.                                     *)

\* Fault: a new connection starts with new caches.
ConnectForget ==
    /\ lPc = "connect"
    /\ lPc' = IF cancelled THEN "done" ELSE "recv"
    /\ stream' = <<>> /\ broken' = FALSE
    /\ seen' = [t \in Types |-> <<>>]
    /\ UNCHANGED <<serviceVars, lMsg, handlerVars, cancelled, historyVars, boundVars>>

Connect ==
    /\ lPc = "connect"
    /\ lPc' = IF cancelled THEN "done" ELSE "recv"
    /\ stream' = <<>> /\ broken' = FALSE
    /\ UNCHANGED <<serviceVars, lMsg, handlerVars, seen, cancelled, historyVars, boundVars>>

\* Fault: every request is handed over by a goroutine of its own.
RecvAnyOrder ==
    /\ stream # <<>>
    /\ \/ lPc = "recv" /\ stream' = Tail(stream)
       \/ lPc = "send" /\ stream' = <<lMsg>> \o Tail(stream)
    /\ lMsg' = Head(stream)
    /\ lPc' = "send"
    /\ UNCHANGED <<serviceVars, broken, handlerVars, seen, cancelled, historyVars, boundVars>>

Recv ==
    /\ lPc = "recv" /\ stream # <<>>
    /\ lMsg' = Head(stream)
    /\ stream' = Tail(stream)
    /\ lPc' = "send"
    /\ UNCHANGED <<serviceVars, broken, handlerVars, seen, cancelled, historyVars, boundVars>>

RecvError ==
    /\ lPc = "recv" /\ (cancelled \/ (broken /\ stream = <<>>))
    /\ lPc' = "connect"
    /\ UNCHANGED <<serviceVars, streamVars, lMsg, handlerVars, seen, cancelled, historyVars, boundVars>>

\* requestChan is unbuffered: both goroutines take part.
Handover ==
    /\ lPc = "send" /\ hPc = "wait"
    /\ lPc' = "recv" /\ lMsg' = None
    /\ hPc' = "look" /\ hMsg' = lMsg
    /\ UNCHANGED <<serviceVars, streamVars, hResponse, attempt, seen, cancelled, historyVars, boundVars>>

-----------------------------------------------------------------------------
(* handleSnapshotRequests().                                               *)

\* grpc.Dial() blocks until the service is there.
HandlerDial ==
    /\ hPc = "dial"
    /\ hPc' = IF cancelled THEN "done" ELSE "wait"
    /\ UNCHANGED <<serviceVars, streamVars, listenerVars, hMsg, hResponse, attempt, seen, cancelled,
                   historyVars, boundVars>>

\* lru.Cache.Get() moves the entry to the front, Add() evicts the oldest.
Touch(cache, o) ==
    LET rest == RemoveFirst(cache, o)
    IN  <<o>> \o SubSeq(rest, 1, IF Len(rest) < Capacity THEN Len(rest) ELSE Capacity - 1)

\* getSnapshotResponse() up to the script: an invalid, unknown or duplicate
\* request is ignored.
Look ==
    /\ hPc = "look"
    /\ IF hMsg.type \in Types
       THEN LET t == hMsg.type
                o == hMsg.op
            IN  /\ seen' = [seen EXCEPT ![t] = Touch(@, o)]
                /\ since' = [since EXCEPT ![t] =
                                [p \in Ops |-> IF p # o /\ <<t, p>> \in ran THEN @[p] \cup {o} ELSE {}]]
                /\ hPc' = IF Contains(seen[t], o) THEN "wait" ELSE "run"
       ELSE hPc' = "wait" /\ UNCHANGED <<seen, since>>
    /\ UNCHANGED <<serviceVars, streamVars, listenerVars, hMsg, hResponse, attempt, cancelled,
                   ran, outcomes, boundVars>>

\* A cancelled context kills the script, or does not let it start.
RunScript ==
    /\ hPc = "run"
    /\ \E outcome \in IF cancelled THEN {"missing", "exit1"} ELSE Outcomes[hMsg.type] :
        /\ hResponse' = Response(hMsg, outcome)
        /\ outcomes' = [outcomes EXCEPT ![hMsg.type][hMsg.op] = @ \cup {outcome}]
    /\ ran' = ran \cup {<<hMsg.type, hMsg.op>>}
    /\ hPc' = "respond" /\ attempt' = 0
    /\ UNCHANGED <<serviceVars, streamVars, listenerVars, hMsg, seen, cancelled, since, boundVars>>

\* HandleResponsesFromGuest() succeeds.
Respond ==
    /\ hPc = "respond" /\ ~cancelled
    /\ answers' = answers \cup {hResponse}
    /\ hPc' = "wait" /\ hMsg' = None /\ hResponse' = None
    /\ UNCHANGED <<asked, streamVars, listenerVars, attempt, seen, cancelled, historyVars, boundVars>>

\* Fault: one attempt, whatever the policy says.
RespondFailsOnce ==
    /\ hPc = "respond"
    /\ Fault /\ rpcFails' = rpcFails + 1
    /\ answers' \in {answers, answers \cup {hResponse}}
    /\ hPc' = "dial" /\ UNCHANGED attempt
    /\ UNCHANGED <<asked, streamVars, listenerVars, hMsg, hResponse, seen, cancelled, historyVars>>

\* It fails, although the service may have the response: retry.Run waits and
\* tries again, up to MaxAttempts times; then the handler dials again.
RespondFails ==
    /\ hPc = "respond"
    /\ Fault /\ rpcFails' = rpcFails + 1
    /\ answers' \in {answers, answers \cup {hResponse}}
    /\ IF attempt + 1 >= MaxAttempts
       THEN hPc' = "dial" /\ UNCHANGED attempt
       ELSE attempt' = attempt + 1 /\ UNCHANGED hPc
    /\ UNCHANGED <<asked, streamVars, listenerVars, hMsg, hResponse, seen, cancelled, historyVars>>

RespondCancelled ==
    /\ hPc = "respond" /\ cancelled
    /\ hPc' = "dial"
    /\ UNCHANGED <<serviceVars, streamVars, listenerVars, hMsg, hResponse, attempt, seen, cancelled,
                   historyVars, boundVars>>

Listener == Connect \/ Recv \/ RecvError
Handler == HandlerDial \/ Look \/ RunScript \/ Respond \/ RespondFails \/ RespondCancelled
Service == OddMessage \/ Break \/ \E t \in Types, o \in Ops : Request(t, o)

Next == Service \/ Cancel \/ Restart \/ Listener \/ Handover \/ Handler

\* The goroutines run, and a service that waits for a response asks again.
Fairness ==
    /\ WF_vars(Listener) /\ WF_vars(Handover) /\ WF_vars(Handler)
    /\ \A t \in Types, o \in Ops :
        SF_vars([type |-> t, op |-> o] \in asked /\ Request(t, o))

Spec == Init /\ [][Next]_vars
FairSpec == Spec /\ Fairness

-----------------------------------------------------------------------------
\* Type invariant of the stream, the two goroutines and the caches.
TypeOK ==
    /\ asked \subseteq Requests /\ answers \subseteq Responses
    /\ stream \in Seq(Requests \cup {ServerInfo}) /\ broken \in BOOLEAN
    /\ lPc \in {"connect", "recv", "send", "done"}
    /\ lMsg \in Requests \cup {ServerInfo, None}
    /\ hPc \in {"dial", "wait", "look", "run", "respond", "done"}
    /\ hMsg \in Requests \cup {ServerInfo, None}
    /\ hResponse \in Responses \cup {None} /\ attempt \in 0..(MaxAttempts - 1)
    /\ \A t \in Types : /\ seen[t] \in Seq(Ops) /\ Len(seen[t]) <= Capacity
                        /\ IsInjective(seen[t])
    /\ ran \subseteq Types \X Ops
    /\ \A t \in Types, o \in Ops : outcomes[t][o] \subseteq ScriptOutcomes /\ since[t][o] \subseteq Ops

\* However often the service asks and the stream breaks, a process runs the
\* script of an operation again only when as many other operations of that kind
\* as the cache holds were handled since it last heard of this one.
RerunOnlyWhenEvicted ==
    [][\A t \in Types, o \in Ops :
        hPc = "look" /\ hPc' = "run" /\ hMsg = [type |-> t, op |-> o] /\ <<t, o>> \in ran
            => Cardinality(since[t][o]) >= Capacity]_vars

\* The disks are not prepared for a snapshot after they were released from it: the
\* pre script of an operation does not run after its post script, although a
\* pre request may be late, repeated, or left over from a broken stream.
PreBeforePost ==
    [][\A o \in Ops :
        hPc = "run" /\ hPc' = "respond" /\ hMsg = [type |-> PRE, op |-> o]
            => outcomes[POST][o] = {}]_vars

\* A request is answered in the end: lost messages, broken streams, restarts and
\* failed responses are made up for.  The only ways to fail are that the service
\* gives up on it, that the agent's context is cancelled, and that as many
\* responses failed as an operation has attempts.
RequestsAnswered ==
    []<>(\A m \in asked :
            \/ Answered(m.type, m.op)
            \/ m.type = PRE /\ [m EXCEPT !.type = POST] \in asked
            \/ cancelled \/ rpcFails >= MaxAttempts)
=============================================================================
