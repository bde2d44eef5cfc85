--------------------------- MODULE RequestProofs ---------------------------
(***************************************************************************)
(* Theorems about the components that answer requests.  CommandMonitor:    *)
(* for any number of connections, commands and callers.  Snapshot: for any *)
(* number of operations, any capacity of the cache, any number of requests *)
(* in flight, attempts and faults.                                         *)
(***************************************************************************)
EXTENDS CommandMonitor, Snapshot, SequenceTheorems, FiniteSetTheorems, TLAPS

-----------------------------------------------------------------------------
(* The command monitor.                                                    *)

\* The server starts within its types.
LEMMA CommandTypeInit == CommandInit => CommandTypeOK
<1> SUFFICES ASSUME CommandInit PROVE CommandTypeOK
  OBVIOUS
<1>1. (CHOOSE op \in CallOps : TRUE) \in CallOps
  <2>1. PICK cmd \in Cmds : TRUE
    BY CommandAssumption
  <2>2. [op |-> "register", cmd |-> cmd] \in CallOps
    BY DEF CallOps
  <2> QED BY <2>2
<1>2. callOp \in [Callers -> CallOps]
  BY <1>1, Zenon DEF CommandInit
<1>3. calls \in 0..MaxCalls
  BY CommandAssumption DEF CommandInit
<1> QED BY <1>2, <1>3 DEF CommandInit, CommandTypeOK, Replies

\* Every action keeps the server, its connections and its callers within their
\* types.
LEMMA CommandTypeStep == CommandTypeOK /\ [CommandNext]_commandVars => CommandTypeOK'
<1> SUFFICES ASSUME CommandTypeOK, [CommandNext]_commandVars PROVE CommandTypeOK'
  OBVIOUS
<1> USE CommandAssumption DEF CommandTypeOK, serverVars, connVars, callVars, Set
<1>1. CASE StartServer \/ CancelContext \/ AcceptFails
  BY <1>1 DEF StartServer, CancelContext, AcceptFails
<1>2. CASE Close \/ LoopCheck
  BY <1>2 DEF Close, LoopCheck, Reset, Replies
<1>3. ASSUME NEW c \in Conns, Accept(c) \/ Dial(c) PROVE CommandTypeOK'
  BY <1>3 DEF Accept, Dial, Replies
<1>4. ASSUME NEW c \in Conns, ReadRequest(c) PROVE CommandTypeOK'
  <2>1. req[c] \in CommandRequests
    OBVIOUS
  <2> QED BY <1>4, <2>1 DEF ReadRequest, CommandRequests, Replies, Bad, Hangup, Partial
<1>5. ASSUME NEW c \in Conns, Lookup(c) \/ HandlerReturns(c) PROVE CommandTypeOK'
  BY <1>5 DEF Lookup, HandlerReturns, Replies
<1>6. ASSUME NEW p \in Callers, CallLocked(p) PROVE CommandTypeOK'
  BY <1>6 DEF CallLocked
<1>7. ASSUME NEW p \in Callers, CallDone(p) PROVE CommandTypeOK'
  <2>1. callOp[p].cmd \in Cmds
    BY DEF CallOps
  <2> QED BY <1>7, <2>1 DEF CallDone
<1>8. ASSUME NEW p \in Callers, NEW op \in CallOps, CallLock(p, op) PROVE CommandTypeOK'
  BY <1>8 DEF CallLock
<1>9. CASE UNCHANGED commandVars
  BY <1>9 DEF commandVars
<1> QED BY <1>1, <1>2, <1>3, <1>4, <1>5, <1>6, <1>7, <1>8, <1>9
  DEF CommandNext, LoopStep, ConnStep, CallStep

\* Type correctness of the command monitor.
THEOREM CommandTypeCorrect == CommandSpec => []CommandTypeOK
  BY CommandTypeInit, CommandTypeStep, PTL DEF CommandSpec

-----------------------------------------------------------------------------
(***************************************************************************)
(* HandlerIsRegistered says nothing of the lock that makes it so.  The     *)
(* inductive invariant does: a connection that runs a handler is a reader  *)
(* of handlersMu, and a caller that has it locked excludes the readers.    *)
(***************************************************************************)
HandlersRead == \A c \in Conns : connPc[c] = "handler" <=> c \in readers

WriterExcludesReaders == \A p \in Callers : callPc[p] = "locked" => readers = {}

LockInv == CommandTypeOK /\ HandlersRead /\ WriterExcludesReaders /\ HandlerIsRegistered

\* Every action keeps LockInv.
LEMMA LockStep == LockInv /\ [CommandNext]_commandVars => LockInv'
<1> SUFFICES ASSUME LockInv, [CommandNext]_commandVars
             PROVE  HandlersRead' /\ WriterExcludesReaders' /\ HandlerIsRegistered'
  BY CommandTypeStep DEF LockInv
<1> CommandTypeOK /\ CommandTypeOK'
  BY CommandTypeStep DEF LockInv
<1> USE DEF LockInv, HandlersRead, WriterExcludesReaders, HandlerIsRegistered,
            serverVars, connVars, callVars, Set
<1> DEFINE Kept == HandlersRead' /\ WriterExcludesReaders' /\ HandlerIsRegistered'
<1>1. CASE StartServer \/ CancelContext \/ AcceptFails
  BY <1>1 DEF StartServer, CancelContext, AcceptFails
<1>2. CASE Close \/ LoopCheck
  BY <1>2 DEF Close, LoopCheck, Reset
<1>3. ASSUME NEW c \in Conns, Accept(c) \/ Dial(c) PROVE Kept
  BY <1>3 DEF Accept, Dial, CommandTypeOK
<1>4. ASSUME NEW c \in Conns, ReadRequest(c) PROVE Kept
  BY <1>4 DEF ReadRequest, CommandTypeOK
<1>5. ASSUME NEW c \in Conns, Lookup(c) PROVE Kept
  <2>1. \A p \in Callers : callPc[p] # "locked"
    BY <1>5 DEF Lookup, WriterWaits
  <2> QED BY <1>5, <2>1 DEF Lookup, CommandTypeOK
<1>6. ASSUME NEW c \in Conns, HandlerReturns(c) PROVE Kept
  BY <1>6 DEF HandlerReturns, CommandTypeOK
<1>7. ASSUME NEW p \in Callers, CallLocked(p) PROVE Kept
  BY <1>7 DEF CallLocked, CommandTypeOK
<1>8. ASSUME NEW p \in Callers, CallDone(p) PROVE Kept
  <2>1. \A c \in Conns : connPc[c] # "handler"
    BY <1>8 DEF CallDone
  <2> QED BY <1>8, <2>1 DEF CallDone, CommandTypeOK
<1>9. ASSUME NEW p \in Callers, NEW op \in CallOps, CallLock(p, op) PROVE Kept
  BY <1>9 DEF CallLock, CommandTypeOK
<1>10. CASE UNCHANGED commandVars
  BY <1>10 DEF commandVars
<1> QED BY <1>1, <1>2, <1>3, <1>4, <1>5, <1>6, <1>7, <1>8, <1>9, <1>10
  DEF CommandNext, LoopStep, ConnStep, CallStep

\* A handler runs only while it is registered, however many connections and
\* callers share handlersMu.
THEOREM HandlersAreRegistered == CommandSpec => []HandlerIsRegistered
<1>1. CommandInit => LockInv
  BY CommandTypeInit DEF CommandInit, LockInv, HandlersRead, WriterExcludesReaders, HandlerIsRegistered
<1>2. LockInv => HandlerIsRegistered
  BY DEF LockInv
<1> QED BY <1>1, <1>2, LockStep, PTL DEF CommandSpec
-----------------------------------------------------------------------------
(* The snapshot listener: its inductive invariant.                         *)

Messages == Requests \cup {ServerInfo, None, Untyped}
Asked(t, o) == [type |-> t, op |-> o]

SnapTypeInv ==
    /\ asked \subseteq Requests
    /\ stream \in Seq(Messages) /\ lMsg \in Messages /\ hMsg \in Messages
    /\ hPc \in {"dial", "wait", "look", "run", "respond", "done"}
    /\ seen \in [Types -> Seq(Ops)]
    /\ outcomes \in [Types -> [Ops -> SUBSET ScriptOutcomes]]
    /\ since \in [Types -> [Ops -> SUBSET Ops]]
    /\ ran \subseteq Types \X Ops
    /\ hPc = "run" => hMsg.type \in Types /\ hMsg.op \in Ops

\* No such message is on its way to the handler.
NotComing(m) == lMsg # m /\ \A i \in 1..Len(stream) : stream[i] # m

Handling(m) == hPc \in {"look", "run"} /\ hMsg = m

\* The service asked for the post script before one is on its way, and when one is, or
\* has run, no request for the pre script is behind it.
OrderInv ==
    \A o \in Ops :
        LET pre == Asked(PRE, o)
            post == Asked(POST, o)
        IN  /\ ~NotComing(post) \/ hMsg = post \/ outcomes[POST][o] # {} => post \in asked
            /\ Handling(post) \/ outcomes[POST][o] # {} => NotComing(pre)
            /\ outcomes[POST][o] # {} => ~Handling(pre)
            /\ lMsg = post => \A i \in 1..Len(stream) : stream[i] # pre
            /\ \A i, j \in 1..Len(stream) : stream[i] = post /\ i < j => stream[j] # pre

\* The cache holds the operations handled last, each once.
CacheInv ==
    \A t \in Types :
        /\ Len(seen[t]) <= Capacity
        /\ \A i, j \in 1..Len(seen[t]) : seen[t][i] = seen[t][j] => i = j

\* Of an operation whose script ran: those before it in the cache were handled since,
\* and if it is not in the cache as many were as it holds.
SinceInv ==
    \A t \in Types, o \in Ops :
        /\ IsFiniteSet(since[t][o])
        /\ <<t, o>> \in ran =>
            /\ \A k \in 1..Len(seen[t]) : seen[t][k] = o => \A i \in 1..(k - 1) : seen[t][i] \in since[t][o]
            /\ ~Contains(seen[t], o) => Cardinality(since[t][o]) >= Capacity

\* The script about to run is of the operation looked at last.
RunInv == hPc = "run" => Len(seen[hMsg.type]) > 0 /\ seen[hMsg.type][1] = hMsg.op

SnapInv == SnapTypeInv /\ OrderInv /\ CacheInv /\ SinceInv /\ RunInv
\* The types are different, and a request tells them apart.
LEMMA Kinds ==
    /\ PRE # POST /\ Types = {PRE, POST}
    /\ \A t, o : Asked(t, o).type = t /\ Asked(t, o).op = o
    /\ \A t \in Types : \A o : Asked(t, o) # None /\ Asked(t, o) # ServerInfo /\ Asked(t, o) # Untyped
<1>1. PRE # POST /\ Types = {PRE, POST} /\ "none" \notin Types /\ "ServerInfo" \notin Types /\ "NOT_SET" \notin Types
  BY DEF PRE, POST, Types
<1>2. \A t, o : Asked(t, o).type = t /\ Asked(t, o).op = o
  BY DEF Asked
<1>3. None.type = "none" /\ ServerInfo.type = "ServerInfo" /\ Untyped.type = "NOT_SET"
  BY DEF None, ServerInfo, Untyped
<1> QED BY <1>1, <1>2, <1>3

\* The listener starts.
LEMMA SnapInit == Init => SnapInv
<1> SUFFICES ASSUME Init PROVE SnapInv
  OBVIOUS
<1> USE SnapshotAssumption DEF Init
<1>1. SnapTypeInv
  <2>1. stream \in Seq(Messages) /\ None \in Messages
    BY EmptySeq DEF Messages
  <2>2. seen \in [Types -> Seq(Ops)]
    BY EmptySeq
  <2>3. outcomes \in [Types -> [Ops -> SUBSET ScriptOutcomes]] /\ since \in [Types -> [Ops -> SUBSET Ops]]
    BY DEF PerOp
  <2> QED BY <2>1, <2>2, <2>3 DEF SnapTypeInv
<1>2. Len(stream) = 0 /\ \A t \in Types : Len(seen[t]) = 0
  OBVIOUS
<1>3. OrderInv
  <2> SUFFICES ASSUME NEW o \in Ops
               PROVE  outcomes[POST][o] = {} /\ lMsg # Asked(POST, o) /\ hMsg # Asked(POST, o)
    BY <1>2 DEF OrderInv, NotComing, Handling
  <2>1. POST \in Types
    BY DEF Types
  <2> QED BY <2>1, Kinds DEF PerOp
<1>4. CacheInv
  BY <1>2 DEF CacheInv
<1>5. SinceInv
  BY <1>2, FS_EmptySet DEF SinceInv, PerOp
<1>6. RunInv
  BY DEF RunInv
<1> QED BY <1>1, <1>3, <1>4, <1>5, <1>6 DEF SnapInv

\* A step that handles no request and takes none.
LEMMA SnapQuiet ==
    ASSUME SnapInv, UNCHANGED <<asked, stream, lMsg, seen, outcomes, since, ran>>,
           hMsg' \in {hMsg, None}, hPc' \in {"dial", "wait", "respond", "done"}
    PROVE  SnapInv'
<1> USE DEF SnapInv
<1>1. SnapTypeInv'
  BY DEF SnapTypeInv, Messages
<1>2. OrderInv'
  <2> SUFFICES ASSUME NEW o \in Ops PROVE hMsg' = Asked(POST, o) => hMsg = Asked(POST, o)
    BY DEF OrderInv, NotComing, Handling
  <2> QED BY Kinds
<1>3. CacheInv' /\ SinceInv' /\ RunInv'
  BY DEF CacheInv, SinceInv, RunInv
<1> QED BY <1>1, <1>2, <1>3

\* A step that only takes messages off the stream.
LEMMA SnapShorter ==
    ASSUME SnapInv, UNCHANGED <<asked, lMsg, hMsg, hPc, seen, outcomes, since, ran>>,
           stream' \in Seq(Messages), Len(stream') <= Len(stream),
           \A i \in 1..Len(stream') : stream'[i] = stream[i]
    PROVE  SnapInv'
<1> USE DEF SnapInv
<1>1. SnapTypeInv'
  BY DEF SnapTypeInv
<1>2. Len(stream) \in Nat /\ Len(stream') \in Nat
  BY DEF SnapTypeInv
<1>3. \A m : NotComing(m) => NotComing(m)'
  BY <1>2 DEF NotComing
<1>4. OrderInv'
  <2> SUFFICES ASSUME NEW o \in Ops
               PROVE  LET pre == Asked(PRE, o)
                          post == Asked(POST, o)
                      IN  /\ ~NotComing(post)' \/ hMsg = post \/ outcomes[POST][o] # {} => post \in asked
                          /\ Handling(post) \/ outcomes[POST][o] # {} => NotComing(pre)'
                          /\ outcomes[POST][o] # {} => ~Handling(pre)
                          /\ lMsg = post => \A i \in 1..Len(stream') : stream'[i] # pre
                          /\ \A i, j \in 1..Len(stream') : stream'[i] = post /\ i < j => stream'[j] # pre
    BY DEF OrderInv, NotComing, Handling
  <2> QED BY <1>2, <1>3 DEF OrderInv
<1>5. CacheInv' /\ SinceInv' /\ RunInv'
  BY DEF CacheInv, SinceInv, RunInv
<1> QED BY <1>1, <1>4, <1>5
\* A message is put on the stream: never a request for the pre script when one for the
\* post script was made.
LEMMA SnapSend ==
    ASSUME SnapInv, UNCHANGED <<lMsg, hMsg, hPc, seen, outcomes, since, ran>>,
           NEW m \in Messages, stream' = Append(stream, m), asked \subseteq asked', asked' \subseteq Requests,
           \A o \in Ops : m = Asked(POST, o) => m \in asked',
           \A o \in Ops : m = Asked(PRE, o) => Asked(POST, o) \notin asked
    PROVE  SnapInv'
<1> USE DEF SnapInv
<1>1. stream \in Seq(Messages) /\ Len(stream) \in Nat
  BY DEF SnapTypeInv
<1>2. PICK s : s = stream'
  OBVIOUS
<1>3. /\ s \in Seq(Messages) /\ Len(s) = Len(stream) + 1 /\ s[Len(stream) + 1] = m
      /\ \A i \in 1..Len(stream) : s[i] = stream[i]
  BY <1>1, <1>2, AppendProperties
<1>4. SnapTypeInv'
  BY <1>2, <1>3 DEF SnapTypeInv
<1>5. \A x : NotComing(x)' <=> NotComing(x) /\ x # m
  BY <1>1, <1>2, <1>3 DEF NotComing
<1>6. OrderInv'
  <2> SUFFICES ASSUME NEW o \in Ops
               PROVE  LET pre == Asked(PRE, o)
                          post == Asked(POST, o)
                      IN  /\ ~NotComing(post)' \/ hMsg = post \/ outcomes[POST][o] # {} => post \in asked'
                          /\ Handling(post) \/ outcomes[POST][o] # {} => NotComing(pre)'
                          /\ outcomes[POST][o] # {} => ~Handling(pre)
                          /\ lMsg = post => \A i \in 1..Len(s) : s[i] # pre
                          /\ \A i, j \in 1..Len(s) : s[i] = post /\ i < j => s[j] # pre
    BY <1>2 DEF OrderInv, NotComing, Handling
  <2> DEFINE pre == Asked(PRE, o)
             post == Asked(POST, o)
  <2>1. /\ ~NotComing(post) \/ hMsg = post \/ outcomes[POST][o] # {} => post \in asked
        /\ Handling(post) \/ outcomes[POST][o] # {} => NotComing(pre)
        /\ outcomes[POST][o] # {} => ~Handling(pre)
        /\ lMsg = post => \A i \in 1..Len(stream) : stream[i] # pre
        /\ \A i, j \in 1..Len(stream) : stream[i] = post /\ i < j => stream[j] # pre
    BY DEF OrderInv
  <2> HIDE DEF pre, post
  <2>2. (m = post => m \in asked') /\ (m = pre => post \notin asked)
    BY DEF pre, post
  <2>3. m = pre => ~Handling(post) /\ NotComing(post) /\ outcomes[POST][o] = {}
    BY <2>1, <2>2 DEF Handling
  <2>4. ~NotComing(post)' \/ hMsg = post \/ outcomes[POST][o] # {} => post \in asked'
    BY <1>5, <2>1, <2>2
  <2>5. Handling(post) \/ outcomes[POST][o] # {} => NotComing(pre)'
    BY <1>5, <2>1, <2>3
  <2>6. lMsg = post => \A i \in 1..Len(s) : s[i] # pre
    BY <1>1, <1>3, <2>1, <2>3 DEF NotComing
  <2>7. ASSUME NEW i \in 1..Len(s), NEW j \in 1..Len(s), s[i] = post, i < j PROVE s[j] # pre
    <3>1. i \in 1..Len(stream) /\ stream[i] = post
      BY <1>1, <1>3, <2>7
    <3>2. m # pre
      BY <2>3, <3>1 DEF NotComing
    <3> QED BY <1>1, <1>3, <2>1, <2>7, <3>1, <3>2
  <2> QED BY <2>1, <2>4, <2>5, <2>6, <2>7 DEF pre, post
<1>7. CacheInv' /\ SinceInv' /\ RunInv'
  BY DEF CacheInv, SinceInv, RunInv
<1> QED BY <1>4, <1>6, <1>7

\* The first message is received.
LEMMA SnapRecv ==
    ASSUME SnapInv, Recv
    PROVE  SnapInv'
<1> USE DEF SnapInv
<1>1. /\ stream # <<>> /\ lMsg' = Head(stream) /\ stream' = Tail(stream)
      /\ UNCHANGED <<asked, hMsg, hPc, seen, outcomes, since, ran>>
  BY Zenon DEF Recv, serviceVars, handlerVars, historyVars
<1>2. stream \in Seq(Messages) /\ Len(stream) \in Nat
  BY DEF SnapTypeInv
<1>3. PICK s : s = stream'
  OBVIOUS
<1>4. /\ s \in Seq(Messages) /\ Len(s) = Len(stream) - 1 /\ Len(stream) > 0
      /\ \A i \in 1..Len(s) : s[i] = stream[i + 1]
      /\ lMsg' = stream[1]
  BY <1>1, <1>2, <1>3, HeadTailProperties
<1>5. SnapTypeInv'
  BY <1>1, <1>3, <1>4 DEF SnapTypeInv
<1>6. \A x : NotComing(x) => NotComing(x)'
  BY <1>2, <1>3, <1>4 DEF NotComing
<1>7. OrderInv'
  <2> SUFFICES ASSUME NEW o \in Ops
               PROVE  LET pre == Asked(PRE, o)
                          post == Asked(POST, o)
                      IN  /\ ~NotComing(post)' \/ hMsg = post \/ outcomes[POST][o] # {} => post \in asked
                          /\ Handling(post) \/ outcomes[POST][o] # {} => NotComing(pre)'
                          /\ outcomes[POST][o] # {} => ~Handling(pre)
                          /\ lMsg' = post => \A i \in 1..Len(s) : s[i] # pre
                          /\ \A i, j \in 1..Len(s) : s[i] = post /\ i < j => s[j] # pre
    BY <1>1, <1>3 DEF OrderInv, NotComing, Handling
  <2> DEFINE pre == Asked(PRE, o)
             post == Asked(POST, o)
  <2>1. /\ ~NotComing(post) \/ hMsg = post \/ outcomes[POST][o] # {} => post \in asked
        /\ Handling(post) \/ outcomes[POST][o] # {} => NotComing(pre)
        /\ outcomes[POST][o] # {} => ~Handling(pre)
        /\ \A i, j \in 1..Len(stream) : stream[i] = post /\ i < j => stream[j] # pre
    BY DEF OrderInv
  <2> HIDE DEF pre, post
  <2>2. ASSUME NEW i \in 1..Len(s), NEW j \in 1..Len(s), s[i] = post, i < j PROVE s[j] # pre
    <3>1. i + 1 \in 1..Len(stream) /\ j + 1 \in 1..Len(stream) /\ i + 1 < j + 1
      BY <1>2, <1>4, <2>2
    <3>2. s[i] = stream[i + 1] /\ s[j] = stream[j + 1]
      BY <1>4
    <3> QED BY <2>1, <2>2, <3>1, <3>2
  <2>3. ASSUME NEW i \in 1..Len(s), lMsg' = post PROVE s[i] # pre
    <3>1. 1 \in 1..Len(stream) /\ i + 1 \in 1..Len(stream) /\ 1 < i + 1
      BY <1>2, <1>4
    <3>2. s[i] = stream[i + 1] /\ stream[1] = post
      BY <1>4, <2>3
    <3> QED BY <2>1, <3>1, <3>2
  <2> QED BY <1>6, <2>1, <2>2, <2>3 DEF pre, post
<1>8. CacheInv' /\ SinceInv' /\ RunInv'
  BY <1>1 DEF CacheInv, SinceInv, RunInv
<1> QED BY <1>5, <1>7, <1>8

\* A message is handed over.
LEMMA SnapHandover ==
    ASSUME SnapInv, Handover
    PROVE  SnapInv'
<1> USE DEF SnapInv
<1>1. /\ hPc' = "look" /\ hMsg' = lMsg /\ lMsg' = None
      /\ UNCHANGED <<asked, stream, seen, outcomes, since, ran>>
  BY Zenon DEF Handover, serviceVars, streamVars, historyVars
<1>2. SnapTypeInv'
  BY <1>1 DEF SnapTypeInv, Messages
<1>3. OrderInv'
  <2> SUFFICES ASSUME NEW o \in Ops
               PROVE  LET pre == Asked(PRE, o)
                          post == Asked(POST, o)
                      IN  /\ ~NotComing(post)' \/ hMsg' = post \/ outcomes[POST][o] # {} => post \in asked
                          /\ Handling(post)' \/ outcomes[POST][o] # {} => NotComing(pre)'
                          /\ outcomes[POST][o] # {} => ~Handling(pre)'
                          /\ lMsg' = post => \A i \in 1..Len(stream) : stream[i] # pre
                          /\ \A i, j \in 1..Len(stream) : stream[i] = post /\ i < j => stream[j] # pre
    BY <1>1 DEF OrderInv, NotComing, Handling
  <2> DEFINE pre == Asked(PRE, o)
             post == Asked(POST, o)
  <2>1. /\ ~NotComing(post) \/ hMsg = post \/ outcomes[POST][o] # {} => post \in asked
        /\ Handling(post) \/ outcomes[POST][o] # {} => NotComing(pre)
        /\ lMsg = post => \A i \in 1..Len(stream) : stream[i] # pre
        /\ \A i, j \in 1..Len(stream) : stream[i] = post /\ i < j => stream[j] # pre
    BY DEF OrderInv
  <2>2. pre # None /\ post # None
    BY Kinds
  <2> HIDE DEF pre, post
  <2>3. ~NotComing(post)' \/ hMsg' = post \/ outcomes[POST][o] # {} => post \in asked
    BY <1>1, <2>1, <2>2 DEF NotComing
  <2>4. Handling(post)' \/ outcomes[POST][o] # {} => NotComing(pre)'
    BY <1>1, <2>1, <2>2 DEF NotComing, Handling
  <2>5. outcomes[POST][o] # {} => ~Handling(pre)'
    BY <1>1, <2>1 DEF NotComing, Handling
  <2> QED BY <1>1, <2>1, <2>2, <2>3, <2>4, <2>5 DEF pre, post
<1>4. CacheInv' /\ SinceInv' /\ RunInv'
  BY <1>1 DEF CacheInv, SinceInv, RunInv
<1> QED BY <1>2, <1>3, <1>4

\* The agent starts again.
LEMMA SnapRestart ==
    ASSUME SnapInv, Restart
    PROVE  SnapInv'
<1> USE DEF SnapInv
<1>1. /\ stream' = <<>> /\ lMsg' = None /\ hPc' = "dial" /\ hMsg' = None
      /\ seen' = [t \in Types |-> <<>>] /\ ran' = {} /\ since' = PerOp({})
      /\ UNCHANGED <<asked, outcomes>>
  BY Zenon DEF Restart, serviceVars
<1>2. /\ stream' \in Seq(Messages) /\ None \in Messages /\ seen' \in [Types -> Seq(Ops)]
      /\ since' \in [Types -> [Ops -> SUBSET Ops]]
  BY <1>1, EmptySeq DEF Messages, PerOp
<1>3. Len(stream') = 0 /\ \A t \in Types : Len(seen'[t]) = 0
  BY <1>1
<1>4. SnapTypeInv'
  BY <1>1, <1>2 DEF SnapTypeInv
<1>5. OrderInv'
  <2> SUFFICES ASSUME NEW o \in Ops
               PROVE  /\ lMsg' # Asked(POST, o) /\ hMsg' # Asked(POST, o) /\ lMsg' # Asked(PRE, o)
                      /\ outcomes[POST][o] # {} => Asked(POST, o) \in asked
    BY <1>1, <1>3 DEF OrderInv, NotComing, Handling
  <2>1. outcomes[POST][o] # {} => Asked(POST, o) \in asked
    BY DEF OrderInv
  <2> QED BY <1>1, <2>1, Kinds
<1>6. CacheInv' /\ RunInv'
  BY <1>1, <1>3, SnapshotAssumption DEF CacheInv, RunInv
<1>7. SinceInv'
  BY <1>1, <1>3, FS_EmptySet DEF SinceInv, PerOp
<1> QED BY <1>4, <1>5, <1>6, <1>7
\* What Touch leaves of a cache: the operation first, then the others in their order,
\* the last one dropped when a new operation does not fit.
Touched(cache, c, o, j) ==
    /\ c \in Seq(Ops) /\ Len(c) >= 1 /\ Len(c) <= Capacity /\ c[1] = o
    /\ j <= Len(cache) => cache[j] = o /\ Len(c) = Len(cache)
    /\ j > Len(cache) => /\ \A i \in 1..Len(cache) : cache[i] # o
                         /\ Len(c) = IF Len(cache) < Capacity THEN Len(cache) + 1 ELSE Capacity
    /\ \A i \in 2..Len(c) : c[i] = cache[IF i <= j THEN i - 1 ELSE i]

\* Touch puts an operation that is in the cache in front of the others.
LEMMA RestOfCache ==
    ASSUME NEW cache \in Seq(Ops), NEW o \in Ops, NEW j \in 1..Len(cache), cache[j] = o,
           \A i \in 1..Len(cache) : cache[i] = o => i = j
    PROVE  LET rest == RemoveFirst(cache, o)
           IN  /\ rest \in Seq(Ops) /\ Len(rest) = Len(cache) - 1
               /\ \A i \in 1..Len(rest) : rest[i] = cache[IF i < j THEN i ELSE i + 1]
<1>1. SelectInSeq(cache, LAMBDA v : v = o) = j
  <2>1. {i \in 1..Len(cache) : cache[i] = o} = {j}
    OBVIOUS
  <2>2. Min({j}) = j
    BY DEF Min
  <2> QED BY <2>1, <2>2 DEF SelectInSeq
<1>2. RemoveFirst(cache, o) = SubSeq(cache, 1, j - 1) \o SubSeq(cache, j + 1, Len(cache))
  BY <1>1 DEF RemoveFirst, RemoveAt
<1>3. Len(cache) \in Nat /\ \A i \in 1..Len(cache) : cache[i] \in Ops
  OBVIOUS
<1>4. PICK a, b : a = SubSeq(cache, 1, j - 1) /\ b = SubSeq(cache, j + 1, Len(cache))
  OBVIOUS
<1>5. a \in Seq(Ops) /\ Len(a) = j - 1 /\ \A i \in 1..(j - 1) : a[i] = cache[i]
  <2>1. \A i \in 1..(j - 1) : cache[i] \in Ops
    BY <1>3
  <2> QED BY <1>3, <1>4, <2>1, SubSeqProperties
<1>6. b \in Seq(Ops) /\ Len(b) = Len(cache) - j /\ \A i \in 1..(Len(cache) - j) : b[i] = cache[j + i]
  <2>1. \A i \in (j + 1)..Len(cache) : cache[i] \in Ops
    BY <1>3
  <2> QED BY <1>3, <1>4, <2>1, SubSeqProperties
<1>7. PICK r : r = a \o b
  OBVIOUS
<1>8. /\ r \in Seq(Ops) /\ Len(r) = Len(a) + Len(b)
      /\ \A i \in 1..(Len(a) + Len(b)) : r[i] = IF i <= Len(a) THEN a[i] ELSE b[i - Len(a)]
  BY <1>5, <1>6, <1>7, ConcatProperties
<1>9. RemoveFirst(cache, o) = r
  BY <1>2, <1>4, <1>7, Zenon
<1>10. /\ r \in Seq(Ops) /\ Len(r) = Len(cache) - 1
       /\ \A i \in 1..Len(r) : r[i] = cache[IF i < j THEN i ELSE i + 1]
  <2>1. Len(r) = Len(cache) - 1
    BY <1>3, <1>5, <1>6, <1>8
  <2>2. ASSUME NEW i \in 1..Len(r) PROVE r[i] = cache[IF i < j THEN i ELSE i + 1]
    <3>1. CASE i < j
      BY <1>3, <1>5, <1>6, <1>8, <2>1, <3>1
    <3>2. CASE ~(i < j)
      <4>1. i - Len(a) \in 1..(Len(cache) - j) /\ ~(i <= Len(a)) /\ j + (i - Len(a)) = i + 1
        BY <1>3, <1>5, <2>1, <3>2
      <4>2. r[i] = b[i - Len(a)]
        BY <1>3, <1>5, <1>6, <1>8, <2>1, <4>1
      <4>3. b[i - Len(a)] = cache[i + 1]
        BY <1>6, <4>1
      <4> QED BY <3>2, <4>2, <4>3
    <3> QED BY <3>1, <3>2
  <2> QED BY <1>8, <2>1, <2>2
<1> QED BY <1>9, <1>10

\* Touch, whether the operation is in the cache or not.
LEMMA TouchFacts ==
    ASSUME NEW cache \in Seq(Ops), NEW o \in Ops, Len(cache) <= Capacity,
           \A i, j \in 1..Len(cache) : cache[i] = cache[j] => i = j
    PROVE  \E j \in 1..(Len(cache) + 1) : Touched(cache, Touch(cache, o), o, j)
<1> USE SnapshotAssumption
<1>1. Len(cache) \in Nat
  OBVIOUS
<1>2. PICK rest : rest = RemoveFirst(cache, o)
  OBVIOUS
<1>3. PICK j \in 1..(Len(cache) + 1) :
        /\ rest \in Seq(Ops)
        /\ j <= Len(cache) => cache[j] = o /\ Len(rest) = Len(cache) - 1
        /\ j > Len(cache) => (\A i \in 1..Len(cache) : cache[i] # o) /\ Len(rest) = Len(cache)
        /\ \A i \in 1..Len(rest) : rest[i] = cache[IF i < j THEN i ELSE i + 1]
  <2>1. CASE \E i \in 1..Len(cache) : cache[i] = o
    <3>1. PICK j \in 1..Len(cache) : cache[j] = o
      BY <2>1
    <3>2. \A i \in 1..Len(cache) : cache[i] = o => i = j
      BY <3>1
    <3>3. /\ rest \in Seq(Ops) /\ Len(rest) = Len(cache) - 1
          /\ \A i \in 1..Len(rest) : rest[i] = cache[IF i < j THEN i ELSE i + 1]
      BY <1>2, <3>1, <3>2, RestOfCache
    <3>4. j \in 1..(Len(cache) + 1) /\ ~(j > Len(cache)) /\ j <= Len(cache)
      BY <1>1
    <3> QED BY <3>1, <3>3, <3>4
  <2>2. CASE ~\E i \in 1..Len(cache) : cache[i] = o
    <3>1. rest = cache
      BY <1>2, <2>2 DEF RemoveFirst
    <3> QED BY <1>1, <2>2, <3>1
  <2> QED BY <2>1, <2>2
<1>4. PICK n : n = IF Len(rest) < Capacity THEN Len(rest) ELSE Capacity - 1
  OBVIOUS
<1>5. Len(rest) \in Nat /\ n \in 0..Len(rest) /\ n < Capacity
  BY <1>3, <1>4
<1>6. PICK s : s = SubSeq(rest, 1, n)
  OBVIOUS
<1>7. s \in Seq(Ops) /\ Len(s) = n /\ \A i \in 1..n : s[i] = rest[i]
  <2>1. \A i \in 1..n : rest[i] \in Ops
    BY <1>3, <1>5
  <2> QED BY <1>5, <1>6, <2>1, SubSeqProperties
<1>8. PICK f : f = <<o>>
  OBVIOUS
<1>9. f \in Seq(Ops) /\ Len(f) = 1 /\ f[1] = o
  BY <1>8
<1> HIDE SnapshotAssumption
<1>10. PICK c : c = f \o s
  OBVIOUS
<1>11. /\ c \in Seq(Ops) /\ Len(c) = 1 + n
       /\ \A i \in 1..(1 + n) : c[i] = IF i <= 1 THEN f[i] ELSE s[i - 1]
  <2>1. /\ c \in Seq(Ops) /\ Len(c) = Len(f) + Len(s)
        /\ \A i \in 1..(Len(f) + Len(s)) : c[i] = IF i <= Len(f) THEN f[i] ELSE s[i - Len(f)]
    BY <1>7, <1>9, <1>10, ConcatProperties, Zenon
  <2> QED BY <1>7, <1>9, <2>1
<1>12. Touch(cache, o) = c
  BY <1>2, <1>4, <1>6, <1>8, <1>10, Zenon DEF Touch
<1>13. Capacity \in Nat \ {0}
  BY SnapshotAssumption
<1>14. c[1] = o /\ Len(c) >= 1 /\ Len(c) <= Capacity
  BY <1>5, <1>9, <1>11, <1>13
<1>15. j <= Len(cache) => Len(c) = Len(cache)
  BY <1>1, <1>3, <1>4, <1>11, <1>13
<1>16. j > Len(cache) => Len(c) = IF Len(cache) < Capacity THEN Len(cache) + 1 ELSE Capacity
  BY <1>1, <1>3, <1>4, <1>11, <1>13
<1>17. ASSUME NEW i \in 2..Len(c) PROVE c[i] = cache[IF i <= j THEN i - 1 ELSE i]
  <2>1. i - 1 \in 1..n /\ i - 1 \in 1..Len(rest) /\ i \in 1..(1 + n) /\ ~(i <= 1)
    BY <1>5, <1>11
  <2>2. c[i] = rest[i - 1]
    BY <1>7, <1>11, <2>1
  <2>3. rest[i - 1] = cache[IF i - 1 < j THEN i - 1 ELSE (i - 1) + 1]
    BY <1>3, <2>1
  <2> QED BY <2>2, <2>3
<1> QED BY <1>3, <1>11, <1>12, <1>14, <1>15, <1>16, <1>17 DEF Touched
\* SinceInv of one cache and one operation.
SinceOf(cache, p, S) ==
    /\ \A k \in 1..Len(cache) : cache[k] = p => \A i \in 1..(k - 1) : cache[i] \in S
    /\ ~Contains(cache, p) => Cardinality(S) >= Capacity

Distinct(cache) == \A i, j \in 1..Len(cache) : cache[i] = cache[j] => i = j

\* A touched cache holds no operation twice.
LEMMA TouchedDistinct ==
    ASSUME NEW cache \in Seq(Ops), Distinct(cache), NEW c, NEW o \in Ops,
           NEW j \in 1..(Len(cache) + 1), Touched(cache, c, o, j)
    PROVE  Distinct(c)
<1>1. Len(cache) \in Nat /\ Len(c) \in Nat /\ Len(c) <= Len(cache) + 1 /\ c[1] = o
  BY SnapshotAssumption DEF Touched
<1>2. ASSUME NEW i \in 2..Len(c)
      PROVE  LET k == IF i <= j THEN i - 1 ELSE i
             IN  k \in 1..Len(cache) /\ k # j /\ c[i] = cache[k]
  BY <1>1, SnapshotAssumption DEF Touched
<1>3. ASSUME NEW i \in 2..Len(c) PROVE c[i] # o
  <2> DEFINE k == IF i <= j THEN i - 1 ELSE i
  <2>1. k \in 1..Len(cache) /\ k # j /\ c[i] = cache[k]
    BY <1>2
  <2>2. CASE j <= Len(cache)
    <3>1. cache[j] = o /\ j \in 1..Len(cache)
      BY <1>1, <2>2 DEF Touched
    <3> QED BY <2>1, <3>1 DEF Distinct
  <2>3. CASE j > Len(cache)
    BY <2>1, <2>3 DEF Touched
  <2> QED BY <1>1, <2>2, <2>3
<1>4. ASSUME NEW i \in 2..Len(c), NEW n \in 2..Len(c), c[i] = c[n] PROVE i = n
  <2> DEFINE k == IF i <= j THEN i - 1 ELSE i
             m == IF n <= j THEN n - 1 ELSE n
  <2>1. k \in 1..Len(cache) /\ k # j /\ c[i] = cache[k] /\ m \in 1..Len(cache) /\ m # j /\ c[n] = cache[m]
    BY <1>2
  <2>2. k = m
    BY <1>4, <2>1 DEF Distinct
  <2> QED BY <2>1, <2>2
<1> QED BY <1>1, <1>3, <1>4 DEF Distinct

\* Touching another operation keeps SinceOf when that one joins the set: those before
\* p in the cache are the same or the new one, and when p is evicted the
\* others fill the cache.
LEMMA TouchedSince ==
    ASSUME NEW cache \in Seq(Ops), Distinct(cache), Len(cache) <= Capacity, NEW c, NEW o \in Ops,
           NEW j \in 1..(Len(cache) + 1), Touched(cache, c, o, j),
           NEW p \in Ops, p # o, NEW S, IsFiniteSet(S), SinceOf(cache, p, S)
    PROVE  IsFiniteSet(S \cup {o}) /\ SinceOf(c, p, S \cup {o})
<1>1. Capacity \in Nat \ {0} /\ Len(cache) \in Nat /\ Len(c) \in Nat /\ Len(c) <= Len(cache) + 1 /\ c[1] = o
  BY SnapshotAssumption DEF Touched
<1>2. PICK T : T = S \cup {o}
  OBVIOUS
<1>3. IsFiniteSet(T) /\ Cardinality(T) \in Nat /\ Cardinality(T) >= Cardinality(S) /\ Cardinality(S) \in Nat
  <2>1. Cardinality(S) \in Nat
    BY FS_CardinalityType
  <2>2. /\ IsFiniteSet(S \cup {o})
        /\ Cardinality(S \cup {o}) = IF o \in S THEN Cardinality(S) ELSE Cardinality(S) + 1
    BY FS_AddElement
  <2> QED BY <1>2, <2>1, <2>2
<1>4. ASSUME NEW i \in 2..Len(c)
      PROVE  LET k == IF i <= j THEN i - 1 ELSE i
             IN  k \in 1..Len(cache) /\ k # j /\ c[i] = cache[k]
  BY <1>1 DEF Touched
<1>5. ASSUME NEW n \in 1..Len(c), c[n] = p, NEW i \in 1..(n - 1) PROVE c[i] \in T
  <2>1. n \in 2..Len(c)
    BY <1>1, <1>5
  <2> DEFINE m == IF n <= j THEN n - 1 ELSE n
  <2>2. m \in 1..Len(cache) /\ cache[m] = p
    BY <1>4, <1>5, <2>1
  <2>3. CASE i = 1
    BY <1>1, <1>2, <2>3
  <2>4. CASE i # 1
    <3> DEFINE k == IF i <= j THEN i - 1 ELSE i
    <3>1. i \in 2..Len(c)
      BY <1>1, <2>4
    <3>2. k \in 1..Len(cache) /\ k # j /\ c[i] = cache[k]
      BY <1>4, <3>1
    <3>3. k \in 1..(m - 1)
      BY <1>1, <2>2, <3>2
    <3> QED BY <1>2, <2>2, <3>2, <3>3 DEF SinceOf
  <2> QED BY <2>3, <2>4
<1>6. ASSUME ~Contains(c, p) PROVE Cardinality(T) >= Capacity
  <2>1. CASE ~Contains(cache, p)
    BY <1>1, <1>3, <2>1 DEF SinceOf
  <2>2. CASE Contains(cache, p)
    <3>1. PICK m \in 1..Len(cache) : cache[m] = p
      BY <2>2 DEF Contains
    <3>2. \A i \in 2..Len(c) : c[i] # p
      BY <1>1, <1>6 DEF Contains
    <3>3. j > Len(cache)
      <4> SUFFICES ASSUME ~(j > Len(cache)) PROVE FALSE
        OBVIOUS
      <4>1. cache[j] = o /\ Len(c) = Len(cache)
        BY <1>1 DEF Touched
      <4>2. CASE m < j
        <5>1. m + 1 \in 2..Len(c) /\ m + 1 <= j /\ (m + 1) - 1 = m
          BY <1>1, <4>1, <4>2
        <5> QED BY <1>4, <3>1, <3>2, <5>1
      <4>3. CASE m > j
        <5>1. m \in 2..Len(c) /\ ~(m <= j)
          BY <1>1, <4>1, <4>3
        <5> QED BY <1>4, <3>1, <3>2, <5>1
      <4> QED BY <1>1, <3>1, <4>1, <4>2, <4>3
    <3>4. Len(cache) = Capacity /\ m = Capacity
      <4> SUFFICES ASSUME m + 1 <= Len(c) PROVE FALSE
        BY <1>1, <3>3 DEF Touched
      <4>1. m + 1 \in 2..Len(c) /\ m + 1 <= j /\ (m + 1) - 1 = m
        BY <1>1, <3>3
      <4> QED BY <1>4, <3>1, <3>2, <4>1
    <3> DEFINE f == [i \in 1..Capacity |-> IF i = Capacity THEN o ELSE cache[i]]
    <3>5. \A i \in 1..(Capacity - 1) : cache[i] \in S
      BY <3>1, <3>4 DEF SinceOf
    <3>6. f \in [1..Capacity -> T]
      BY <1>1, <1>2, <3>5
    <3>7. \A i, n \in 1..Capacity : f[i] = f[n] => i = n
      <4>1. \A i \in 1..Len(cache) : cache[i] # o
        BY <3>3 DEF Touched
      <4> QED BY <3>4, <4>1 DEF Distinct
    <3>8. f \in Injection(1..Capacity, T)
      BY <3>6, <3>7 DEF Injection, IsInjective
    <3>9. Cardinality(1..Capacity) <= Cardinality(T)
      BY <1>3, <3>8, FS_Injection
    <3>10. Cardinality(1..Capacity) = Capacity
      BY <1>1, FS_Interval
    <3> QED BY <1>1, <1>3, <3>9, <3>10
  <2> QED BY <2>1, <2>2
<1> QED BY <1>2, <1>3, <1>5, <1>6 DEF SinceOf

\* Nothing was handled since the operation touched last.
LEMMA TouchedItself ==
    ASSUME NEW cache \in Seq(Ops), Distinct(cache), NEW c, NEW o \in Ops,
           NEW j \in 1..(Len(cache) + 1), Touched(cache, c, o, j)
    PROVE  SinceOf(c, o, {})
<1>1. Len(c) \in Nat /\ Len(c) >= 1 /\ c[1] = o
  BY DEF Touched
<1>2. Distinct(c)
  BY TouchedDistinct
<1>3. \A k \in 1..Len(c) : c[k] = o => k = 1
  BY <1>1, <1>2 DEF Distinct
<1> QED BY <1>1, <1>3 DEF SinceOf, Contains
\* A request is looked up in the cache of its type.
LEMMA SnapLook ==
    ASSUME SnapInv, Look
    PROVE  SnapInv'
<1> USE DEF SnapInv
<1>1. UNCHANGED <<asked, stream, lMsg, hMsg, outcomes, ran>> /\ hPc = "look"
  BY Zenon DEF Look, serviceVars, streamVars, listenerVars
<1>2. CASE hMsg.type \notin Types
  <2>1. UNCHANGED <<seen, since>> /\ hPc' = "wait"
    BY <1>2 DEF Look
  <2> QED BY <1>1, <2>1, SnapQuiet
<1>3. CASE hMsg.type \in Types
  <2>1. PICK t \in Types, o \in Ops : hMsg.type = t /\ hMsg.op = o
    <3>1. hMsg \in Messages
      BY DEF SnapTypeInv
    <3>2. None.type \notin Types /\ ServerInfo.type \notin Types /\ Untyped.type \notin Types
      BY DEF None, ServerInfo, Untyped, Types, PRE, POST
    <3>3. hMsg \in Requests
      BY <1>3, <3>1, <3>2 DEF Messages
    <3> QED BY <1>3, <3>3 DEF Requests
  <2>2. PICK c : c = Touch(seen[t], o)
    OBVIOUS
  <2>3. /\ seen' = [seen EXCEPT ![t] = c]
        /\ since' = [since EXCEPT ![t] =
                        [p \in Ops |-> IF p # o /\ <<t, p>> \in ran THEN since[t][p] \cup {o} ELSE {}]]
        /\ hPc' = IF Contains(seen[t], o) THEN "wait" ELSE "run"
    BY <1>3, <2>1, <2>2 DEF Look
  <2>4. seen \in [Types -> Seq(Ops)] /\ since \in [Types -> [Ops -> SUBSET Ops]]
    BY DEF SnapTypeInv
  <2>5. seen[t] \in Seq(Ops) /\ Len(seen[t]) <= Capacity /\ Distinct(seen[t])
    BY <2>4 DEF CacheInv, Distinct
  <2>6. PICK j \in 1..(Len(seen[t]) + 1) : Touched(seen[t], c, o, j)
    BY <2>2, <2>5, TouchFacts DEF Distinct
  <2>7. c \in Seq(Ops) /\ Len(c) <= Capacity /\ Len(c) >= 1 /\ c[1] = o
    BY <2>6 DEF Touched
  <2>8. /\ seen'[t] = c /\ seen' \in [Types -> Seq(Ops)]
        /\ \A u \in Types : u # t => seen'[u] = seen[u]
    BY <2>3, <2>4, <2>7
  <2>9. since' \in [Types -> [Ops -> SUBSET Ops]]
    BY <2>3, <2>4
  <2>10. /\ \A p \in Ops : since'[t][p] = IF p # o /\ <<t, p>> \in ran THEN since[t][p] \cup {o} ELSE {}
         /\ \A u \in Types : u # t => since'[u] = since[u]
    BY <2>3, <2>4
  <2>11. SnapTypeInv'
    BY <1>1, <2>1, <2>3, <2>8, <2>9 DEF SnapTypeInv
  <2>12. OrderInv'
    <3>1. \A m : (NotComing(m)' <=> NotComing(m)) /\ (Handling(m)' => Handling(m))
      BY <1>1, <2>3 DEF NotComing, Handling
    <3> SUFFICES ASSUME NEW q \in Ops
                 PROVE  LET pre == Asked(PRE, q)
                            post == Asked(POST, q)
                        IN  /\ ~NotComing(post) \/ hMsg = post \/ outcomes[POST][q] # {} => post \in asked
                            /\ Handling(post)' \/ outcomes[POST][q] # {} => NotComing(pre)
                            /\ outcomes[POST][q] # {} => ~Handling(pre)'
                            /\ lMsg = post => \A i \in 1..Len(stream) : stream[i] # pre
                            /\ \A i, k \in 1..Len(stream) : stream[i] = post /\ i < k => stream[k] # pre
      BY <1>1 DEF OrderInv, NotComing, Handling
    <3> QED BY <3>1 DEF OrderInv
  <2>13. CacheInv'
    <3>1. Distinct(c)
      BY <2>5, <2>6, TouchedDistinct
    <3> SUFFICES ASSUME NEW u \in Types
                 PROVE  Len(seen'[u]) <= Capacity /\ Distinct(seen'[u])
      BY DEF CacheInv, Distinct
    <3> QED BY <2>7, <2>8, <3>1 DEF CacheInv, Distinct
  <2>14. SinceInv'
    <3> SUFFICES ASSUME NEW u \in Types, NEW p \in Ops
                 PROVE  IsFiniteSet(since'[u][p]) /\ (<<u, p>> \in ran => SinceOf(seen'[u], p, since'[u][p]))
      BY <1>1 DEF SinceInv, SinceOf
    <3>1. IsFiniteSet(since[u][p]) /\ (<<u, p>> \in ran => SinceOf(seen[u], p, since[u][p]))
      BY DEF SinceInv, SinceOf
    <3>2. CASE u # t
      BY <2>8, <2>10, <3>1, <3>2
    <3>3. CASE u = t /\ p # o /\ <<t, p>> \in ran
      <4>1. IsFiniteSet(since[t][p]) /\ SinceOf(seen[t], p, since[t][p])
        BY <3>1, <3>3
      <4>2. IsFiniteSet(since[t][p] \cup {o}) /\ SinceOf(c, p, since[t][p] \cup {o})
        BY <2>5, <2>6, <3>3, <4>1, TouchedSince
      <4> QED BY <2>8, <2>10, <3>3, <4>2
    <3>4. CASE u = t /\ ~(p # o /\ <<t, p>> \in ran)
      <4>1. since'[t][p] = {}
        BY <2>10, <3>4
      <4>2. SinceOf(c, o, {})
        BY <2>5, <2>6, TouchedItself
      <4> QED BY <2>8, <3>4, <4>1, <4>2, FS_EmptySet
    <3> QED BY <3>2, <3>3, <3>4
  <2>15. RunInv'
    BY <1>1, <2>1, <2>7, <2>8 DEF RunInv
  <2> QED BY <2>11, <2>12, <2>13, <2>14, <2>15
<1> QED BY <1>2, <1>3

\* The script of a request runs.
LEMMA SnapRunScript ==
    ASSUME SnapInv, RunScript
    PROVE  SnapInv'
<1> USE DEF SnapInv
<1>1. /\ UNCHANGED <<asked, stream, lMsg, hMsg, seen, since>>
      /\ hPc = "run" /\ hPc' = "respond" /\ ran' = ran \cup {<<hMsg.type, hMsg.op>>}
  BY Zenon DEF RunScript, serviceVars, streamVars, listenerVars
<1>2. PICK t \in Types, o \in Ops : hMsg.type = t /\ hMsg.op = o
  BY <1>1 DEF SnapTypeInv
<1>3. PICK outcome \in ScriptOutcomes : outcomes' = [outcomes EXCEPT ![t][o] = @ \cup {outcome}]
  <2>1. PICK outcome \in IF cancelled THEN {"missing", "exit1"} ELSE Outcomes[hMsg.type] :
            outcomes' = [outcomes EXCEPT ![hMsg.type][hMsg.op] = @ \cup {outcome}]
    BY DEF RunScript
  <2>2. Outcomes[t] \subseteq ScriptOutcomes
    BY SnapshotAssumption DEF Types, PRE, POST
  <2>3. outcome \in ScriptOutcomes
    BY <1>2, <2>1, <2>2 DEF ScriptOutcomes
  <2> QED BY <1>2, <2>1, <2>3
<1>4. outcomes \in [Types -> [Ops -> SUBSET ScriptOutcomes]]
  BY DEF SnapTypeInv
<1>5. /\ outcomes' \in [Types -> [Ops -> SUBSET ScriptOutcomes]]
      /\ \A u \in Types, p \in Ops : u # t \/ p # o => outcomes'[u][p] = outcomes[u][p]
  BY <1>3, <1>4
<1>6. SnapTypeInv'
  BY <1>1, <1>2, <1>5 DEF SnapTypeInv
<1>7. hMsg = Asked(t, o)
  <2>1. hMsg \in Messages
    BY DEF SnapTypeInv
  <2>2. None.type \notin Types /\ ServerInfo.type \notin Types /\ Untyped.type \notin Types
    BY DEF None, ServerInfo, Untyped, Types, PRE, POST
  <2>3. hMsg \in Requests
    BY <1>2, <2>1, <2>2 DEF Messages
  <2> QED BY <1>2, <2>3 DEF Requests, Asked
<1>8. OrderInv'
  <2> SUFFICES ASSUME NEW q \in Ops
               PROVE  LET pre == Asked(PRE, q)
                          post == Asked(POST, q)
                      IN  /\ ~NotComing(post) \/ hMsg = post \/ outcomes'[POST][q] # {} => post \in asked
                          /\ Handling(post)' \/ outcomes'[POST][q] # {} => NotComing(pre)
                          /\ outcomes'[POST][q] # {} => ~Handling(pre)'
                          /\ lMsg = post => \A i \in 1..Len(stream) : stream[i] # pre
                          /\ \A i, k \in 1..Len(stream) : stream[i] = post /\ i < k => stream[k] # pre
    BY <1>1 DEF OrderInv, NotComing, Handling
  <2>1. ~Handling(Asked(PRE, q))' /\ ~Handling(Asked(POST, q))'
    BY <1>1 DEF Handling
  <2>2. outcomes'[POST][q] # {} => outcomes[POST][q] # {} \/ (hMsg = Asked(POST, q) /\ Handling(Asked(POST, q)))
    BY <1>1, <1>5, <1>7, Kinds DEF Handling
  <2> QED BY <2>1, <2>2 DEF OrderInv
<1>9. CacheInv' /\ RunInv'
  BY <1>1 DEF CacheInv, RunInv
<1>10. SinceInv'
  <2> SUFFICES ASSUME NEW u \in Types, NEW p \in Ops
               PROVE  IsFiniteSet(since[u][p]) /\ (<<u, p>> \in ran' => SinceOf(seen[u], p, since[u][p]))
    BY <1>1 DEF SinceInv, SinceOf
  <2>1. IsFiniteSet(since[u][p]) /\ (<<u, p>> \in ran => SinceOf(seen[u], p, since[u][p]))
    BY DEF SinceInv, SinceOf
  <2>2. ASSUME u = t, p = o PROVE SinceOf(seen[u], p, since[u][p])
    <3>1. seen[t] \in Seq(Ops) /\ Len(seen[t]) > 0 /\ seen[t][1] = o
      BY <1>1, <1>2 DEF RunInv, SnapTypeInv
    <3>2. Len(seen[t]) \in Nat /\ \A k \in 1..Len(seen[t]) : seen[t][k] = o => k = 1
      BY <3>1 DEF CacheInv
    <3> QED BY <2>2, <3>1, <3>2 DEF SinceOf, Contains
  <2>3. <<u, p>> \in ran' => <<u, p>> \in ran \/ (u = t /\ p = o)
    BY <1>1, <1>2
  <2> QED BY <2>1, <2>2, <2>3
<1> QED BY <1>6, <1>8, <1>9, <1>10
\* Every action keeps SnapInv.
LEMMA SnapNext == SnapInv /\ [Next]_vars => SnapInv'
<1> SUFFICES ASSUME SnapInv, [Next]_vars PROVE SnapInv'
  OBVIOUS
<1> USE DEF serviceVars, streamVars, listenerVars, handlerVars, historyVars, boundVars
<1>1. stream \in Seq(Messages) /\ Len(stream) \in Nat /\ asked \subseteq Requests
  BY DEF SnapInv, SnapTypeInv
<1>2. ASSUME UNCHANGED <<asked, stream, lMsg, hMsg, hPc, seen, outcomes, since, ran>> PROVE SnapInv'
  BY <1>1, <1>2, SnapShorter
<1>3. CASE Cancel \/ RecvError \/ UNCHANGED vars
  <2>1. UNCHANGED <<asked, stream, lMsg, hMsg, hPc, seen, outcomes, since, ran>>
    BY <1>3, Zenon DEF Cancel, RecvError, vars
  <2> QED BY <1>2, <2>1
<1>4. CASE HandlerDial \/ Respond \/ RespondFails \/ RespondCancelled
  <2>1. UNCHANGED <<asked, stream, lMsg, seen, outcomes, since, ran>> /\ hMsg' \in {hMsg, None}
    BY <1>4 DEF HandlerDial, Respond, RespondFails, RespondCancelled
  <2>2. hPc' \in {"dial", "wait", "respond", "done"}
    BY <1>4 DEF HandlerDial, Respond, RespondFails, RespondCancelled
  <2> QED BY <2>1, <2>2, SnapQuiet
<1>5. CASE Connect
  <2>1. UNCHANGED <<asked, lMsg, hMsg, hPc, seen, outcomes, since, ran>> /\ stream' = <<>>
    BY <1>5, Zenon DEF Connect
  <2>2. stream' \in Seq(Messages) /\ Len(stream') = 0
    BY <2>1, EmptySeq
  <2>3. Len(stream') <= Len(stream) /\ \A i \in 1..Len(stream') : stream'[i] = stream[i]
    BY <1>1, <2>2
  <2> QED BY <2>1, <2>2, <2>3, SnapShorter
<1>6. CASE Break
  <2>1. UNCHANGED <<asked, lMsg, hMsg, hPc, seen, outcomes, since, ran>>
    BY <1>6, Zenon DEF Break
  <2>2. PICK n \in 0..Len(stream) : stream' = SubSeq(stream, 1, n)
    BY <1>6, Zenon DEF Break
  <2>3. stream' \in Seq(Messages) /\ Len(stream') = n /\ \A i \in 1..n : stream'[i] = stream[i]
    <3>1. \A i \in 1..n : stream[i] \in Messages
      BY <1>1
    <3> QED BY <1>1, <2>2, <3>1, SubSeqProperties
  <2>4. Len(stream') <= Len(stream) /\ \A i \in 1..Len(stream') : stream'[i] = stream[i]
    BY <1>1, <2>3
  <2> QED BY <2>1, <2>3, <2>4, SnapShorter
<1>7. CASE OddMessage
  <2>1. UNCHANGED <<asked, lMsg, hMsg, hPc, seen, outcomes, since, ran>>
    BY <1>7, Zenon DEF OddMessage
  <2>2. PICK m \in {ServerInfo, Untyped} : stream' = Append(stream, m)
    BY <1>7, Zenon DEF OddMessage, Send
  <2>3. m \in Messages
    BY DEF Messages
  <2>4. PRE \in Types /\ POST \in Types
    BY DEF Types
  <2>5. \A o \in Ops : m # Asked(POST, o) /\ m # Asked(PRE, o)
    BY <2>4, Kinds
  <2>6. asked \subseteq asked' /\ asked' \subseteq Requests
    BY <1>1, <2>1
  <2> QED BY <2>1, <2>2, <2>3, <2>5, <2>6, SnapSend
<1>8. ASSUME NEW t \in Types, NEW o \in Ops, Request(t, o) PROVE SnapInv'
  <2> DEFINE m == Asked(t, o)
  <2>1. UNCHANGED <<lMsg, hMsg, hPc, seen, outcomes, since, ran>>
    BY <1>8, Zenon DEF Request
  <2>2. stream' = Append(stream, m) /\ asked' = asked \cup {m}
    BY <1>8, Zenon DEF Request, Send, Asked
  <2>3. m \in Requests /\ m \in Messages
    BY DEF Asked, Requests, Messages
  <2>4. t = PRE => Asked(POST, o) \notin asked
    BY <1>8 DEF Request, Asked
  <2>5. \A q \in Ops : m = Asked(PRE, q) => Asked(POST, q) \notin asked
    BY <2>4, Kinds
  <2>6. asked \subseteq asked' /\ asked' \subseteq Requests /\ m \in asked'
    BY <1>1, <2>2, <2>3
  <2> HIDE DEF m
  <2> QED BY <2>1, <2>2, <2>3, <2>5, <2>6, SnapSend
<1> QED BY <1>3, <1>4, <1>5, <1>6, <1>7, <1>8, SnapRecv, SnapHandover, SnapRestart, SnapLook, SnapRunScript
  DEF Next, Service, Listener, Handler

\* The pre script of an operation never runs after its post script, however the
\* service repeats its requests, streams break and the agent starts again: when
\* the post script ran the service had stopped asking for the pre script, and no
\* request for it was left behind the one for the post script.
THEOREM PreNeverAfterPost == Spec => PreBeforePost
<1> DEFINE Step == \A o \in Ops :
                       hPc = "run" /\ hPc' = "respond" /\ hMsg = [type |-> PRE, op |-> o]
                           => outcomes[POST][o] = {}
<1>1. SnapInv /\ [Next]_vars => [Step]_vars
  BY DEF SnapInv, OrderInv, Handling, Asked
<1> QED BY <1>1, SnapInit, SnapNext, PTL DEF Spec, PreBeforePost

\* A process runs a script again only when as many other operations of its type as
\* the cache holds were handled since it last heard of this one, for any
\* capacity and any number of operations.
THEOREM RerunsAreEvictions == Spec => RerunOnlyWhenEvicted
<1> DEFINE Step == \A t \in Types, o \in Ops :
                       hPc = "look" /\ hPc' = "run" /\ hMsg = [type |-> t, op |-> o] /\ <<t, o>> \in ran
                           => Cardinality(since[t][o]) >= Capacity
<1>1. SnapInv /\ [Next]_vars => [Step]_vars
  <2> SUFFICES ASSUME SnapInv, [Next]_vars, NEW t \in Types, NEW o \in Ops,
                      hPc = "look", hPc' = "run", hMsg = [type |-> t, op |-> o], <<t, o>> \in ran
               PROVE  Cardinality(since[t][o]) >= Capacity
    OBVIOUS
  <2>1. Look
    <3>1. ~(Cancel \/ Restart \/ OddMessage \/ Break \/ Connect \/ Recv \/ RecvError \/ UNCHANGED vars)
      BY DEF Cancel, Restart, OddMessage, Break, Connect, Recv, RecvError, vars, handlerVars
    <3>2. ~(Handover \/ HandlerDial \/ RunScript \/ Respond \/ RespondFails \/ RespondCancelled)
      BY DEF Handover, HandlerDial, RunScript, Respond, RespondFails, RespondCancelled
    <3>3. \A u \in Types, p \in Ops : ~Request(u, p)
      BY DEF Request, handlerVars
    <3> QED BY <3>1, <3>2, <3>3 DEF Next, Service, Listener, Handler
  <2>2. hMsg.type = t /\ hMsg.op = o
    OBVIOUS
  <2>3. ~Contains(seen[t], o)
    BY <2>1, <2>2 DEF Look
  <2> QED BY <2>3 DEF SnapInv, SinceInv
<1> QED BY <1>1, SnapInit, SnapNext, PTL DEF Spec, RerunOnlyWhenEvicted
=============================================================================
