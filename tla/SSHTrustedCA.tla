---------------------------- MODULE SSHTrustedCA ----------------------------
(***************************************************************************)
(* The ssh trusted CA pipe: the watcher of events/sshtrustedca, the        *)
(* goroutine that each of its Run() calls starts to watch the context, the *)
(* subscriber sshca.writeFile, and the sshd processes that open and read   *)
(* the named pipe.  The named pipe is the kernel's and sshd is sshd's:     *)
(* both are modelled from the use the agent makes of them.                 *)
(***************************************************************************)
EXTENDS Naturals, FiniteSets

CONSTANTS
    Sshd,           \* sshd processes, each of which opens the pipe repeatedly
    CanCancel,      \* whether the watcher's context may be cancelled
    PipeExists,     \* whether the pipe is left over from an earlier boot
    HasRestorecon,  \* whether the system has the restorecon command
    Capacity,       \* certificate lists the pipe holds before a write blocks
    MaxFailures     \* bound: failures of createNamedPipe() and of the open

ASSUME ConstAssumption ==
    /\ CanCancel \in BOOLEAN /\ PipeExists \in BOOLEAN /\ HasRestorecon \in BOOLEAN
    /\ Capacity \in Nat \ {0} /\ MaxFailures \in Nat
    /\ {"canceler", "stale"} \cap Sshd = {}

VARIABLES
    wPc,           \* the watcher's Run(), and runWatcher around it
    waitingWrite,  \* mp.waitingWrite
    ctxDone,       \* ctx.Done()
    leaving,       \* the event manager or RemoveWatcher() aborts the watcher
    canceled,      \* the local `canceled' of the current Run()
    cPc,           \* the context cancellation goroutine of the current Run()
    failures,      \* failures so far
    hPc,           \* sshca.writeFile, in the event manager's callback handler
    pipe,          \* whether the named pipe exists
    writer,        \* whether the pipe's write end is open
    rd,            \* what each reader of the pipe is doing
    buf,           \* certificate lists in the pipe
    got            \* certificate lists an sshd read since it opened the pipe

watcherVars == <<wPc, waitingWrite, canceled, failures>>
ctxVars == <<ctxDone, leaving>>
pipeVars == <<pipe, writer, rd, buf, got>>
caVars == <<watcherVars, ctxVars, cPc, hPc, pipeVars>>

\* "canceler" is the O_RDONLY open of the current Run()'s goroutine, "stale"
\* that of an earlier Run() call whose goroutine is still blocked in it.
Readers == Sshd \cup {"canceler", "stale"}
Open == {r \in Readers : rd[r] = "open"}

CAInit ==
    /\ wPc = "wait"
    /\ waitingWrite = FALSE
    /\ ctxDone = FALSE
    /\ leaving = FALSE
    /\ canceled = FALSE
    /\ cPc = "off"
    /\ failures = 0
    /\ hPc = "idle"
    /\ pipe = PipeExists
    /\ writer = FALSE
    /\ rd = [r \in Readers |-> "idle"]
    /\ buf = 0
    /\ got = [r \in Sshd |-> 0]

-----------------------------------------------------------------------------
(* The watcher's Run().                                                    *)

\* Leave the loop on isWaitingWrite() and start the cancellation goroutine.
StartRun ==
    /\ wPc = "wait"
    /\ ~waitingWrite
    /\ wPc' = "setup"
    /\ canceled' = FALSE
    /\ cPc' = "select"
    /\ rd' = IF rd["canceler"] = "opening" THEN [rd EXCEPT !["stale"] = "opening", !["canceler"] = "idle"]
             ELSE [rd EXCEPT !["canceler"] = "idle"]
    /\ UNCHANGED <<waitingWrite, ctxVars, failures, hPc, pipe, writer, buf, got>>

\* createNamedPipe() succeeds; restorecon is killed by a cancelled context.
CreateNamedPipe ==
    /\ wPc = "setup"
    /\ ctxDone => ~HasRestorecon
    /\ pipe' = TRUE
    /\ wPc' = "open"
    /\ UNCHANGED <<waitingWrite, canceled, failures, ctxVars, cPc, hPc, writer, rd, buf, got>>

\* An error of createNamedPipe() or of the open: the deferred close() releases
\* the goroutine, unless it already chose ctx.Done().
FailRun ==
    /\ wPc \in {"setup", "open"}
    /\ \/ failures < MaxFailures /\ failures' = failures + 1
       \/ wPc = "setup" /\ ctxDone /\ HasRestorecon /\ UNCHANGED failures
    /\ pipe' \in IF wPc = "setup" THEN {pipe, TRUE} ELSE {pipe}
    /\ wPc' = "error"
    /\ cPc' \in IF cPc # "select" THEN {cPc} ELSE IF ctxDone THEN {"off", "cancel"} ELSE {"off"}
    /\ UNCHANGED <<waitingWrite, canceled, ctxVars, hPc, writer, rd, buf, got>>

\* open(O_WRONLY) returns once there is a reader, and lets blocked ones in.
OpenWriteEnd ==
    /\ wPc = "open"
    /\ \E r \in Readers : rd[r] # "idle"
    /\ writer' = TRUE
    /\ rd' = [r \in Readers |-> IF rd[r] = "opening" THEN "open" ELSE rd[r]]
    /\ wPc' = "check"
    /\ UNCHANGED <<waitingWrite, canceled, failures, ctxVars, cPc, hPc, pipe, buf, got>>

\* canceled.Load(), and the return that unregisters the watcher.
CheckCanceled ==
    /\ wPc = "check"
    /\ wPc' = IF canceled THEN "end" ELSE "send"
    /\ writer' = (writer /\ ~canceled)
    /\ UNCHANGED <<waitingWrite, canceled, failures, ctxVars, cPc, hPc, pipe, rd, buf, got>>

\* `cancelContext <- true' meets the goroutine's receive; Run() returns.
ReturnEvent ==
    /\ wPc = "send"
    /\ cPc = "select"
    /\ cPc' = "off"
    /\ waitingWrite' = TRUE
    /\ wPc' = "event"
    /\ UNCHANGED <<canceled, failures, ctxVars, hPc, pipeVars>>

\* The goroutine picks ctx.Done().
Cancel ==
    /\ cPc = "select"
    /\ ctxDone
    /\ cPc' = "cancel"
    /\ UNCHANGED <<watcherVars, ctxVars, hPc, pipeVars>>

\* Fault: the goroutine leaves the blocked open alone.
CancelOpenSkipped ==
    /\ cPc = "cancel"
    /\ canceled' = TRUE
    /\ cPc' = "off"
    /\ UNCHANGED <<wPc, waitingWrite, failures, ctxVars, hPc, pipeVars>>

\* canceled.Store(true) and the open(O_RDONLY), which fails without a pipe.
CancelOpen ==
    /\ cPc = "cancel"
    /\ canceled' = TRUE
    /\ cPc' = "off"
    /\ rd' = [rd EXCEPT !["canceler"] = IF ~pipe THEN "idle" ELSE IF writer THEN "open" ELSE "opening"]
    /\ UNCHANGED <<wPc, waitingWrite, failures, ctxVars, hPc, pipe, writer, buf, got>>

\* Closing the last read end discards what is in the pipe.
CloseReader(r) ==
    /\ rd[r] = "open"
    /\ rd' = [rd EXCEPT ![r] = "idle"]
    /\ buf' = IF Open = {r} THEN 0 ELSE buf
    /\ UNCHANGED <<watcherVars, ctxVars, cPc, hPc, pipe, writer, got>>

CancelClose == CloseReader("canceler") \/ CloseReader("stale")

-----------------------------------------------------------------------------
(* The event manager between the watcher and the subscriber.               *)

\* Fault: the subscriber is handed the pipe of the next event too early.
DeliverEventKeepFlag ==
    /\ wPc = "event"
    /\ hPc = "idle"
    /\ ~leaving
    /\ hPc' = "get"
    /\ wPc' = "wait"
    /\ waitingWrite' = FALSE
    /\ UNCHANGED <<canceled, failures, ctxVars, cPc, pipeVars>>

\* The event, or the error event, reaches writeFile; the watcher is renewed.
DeliverEvent ==
    /\ wPc = "event"
    /\ hPc = "idle"
    /\ ~leaving
    /\ hPc' = "get"
    /\ wPc' = "wait"
    /\ UNCHANGED <<waitingWrite, canceled, failures, ctxVars, cPc, pipeVars>>

DeliverError ==
    /\ wPc = "error"
    /\ hPc = "idle"
    /\ ~leaving
    /\ wPc' = "wait"
    /\ UNCHANGED <<waitingWrite, canceled, failures, ctxVars, cPc, hPc, pipeVars>>

\* The manager is leaving: the event is dropped, the watcher not renewed.
DropEvent ==
    /\ wPc \in {"event", "error"}
    /\ leaving
    /\ wPc' = "end"
    /\ UNCHANGED <<waitingWrite, canceled, failures, ctxVars, cPc, hPc, pipeVars>>

-----------------------------------------------------------------------------
(* sshca.writeFile.                                                        *)

\* GetKey() and the parsing of its answer.
GetCertificates(ok) ==
    /\ hPc = "get"
    /\ hPc' = IF ok THEN "write" ELSE "close"
    /\ UNCHANGED <<watcherVars, ctxVars, cPc, pipeVars>>

\* WriteString(); a pipe without readers is EPIPE.
WriteCertificates ==
    /\ hPc = "write"
    /\ Open = {} \/ buf < Capacity
    /\ buf' = IF Open = {} THEN buf ELSE buf + 1
    /\ hPc' = "close"
    /\ UNCHANGED <<watcherVars, ctxVars, cPc, pipe, writer, rd, got>>

\* Fault: Finished() without File.Close().
CloseWriteEndSkipped ==
    /\ hPc = "close"
    /\ hPc' = "finish"
    /\ UNCHANGED <<watcherVars, ctxVars, cPc, pipeVars>>

CloseWriteEnd ==
    /\ hPc = "close"
    /\ writer' = FALSE
    /\ hPc' = "finish"
    /\ UNCHANGED <<watcherVars, ctxVars, cPc, pipe, rd, buf, got>>

\* finishedCb().
Finished ==
    /\ hPc = "finish"
    /\ waitingWrite' = FALSE
    /\ hPc' = "idle"
    /\ UNCHANGED <<wPc, canceled, failures, ctxVars, cPc, pipeVars>>

-----------------------------------------------------------------------------
(* sshd, and whoever cancels the context.                                  *)

SshdOpen(r) ==
    /\ rd[r] = "idle"
    /\ pipe
    /\ rd' = [rd EXCEPT ![r] = IF writer THEN "open" ELSE "opening"]
    /\ got' = [got EXCEPT ![r] = 0]
    /\ UNCHANGED <<watcherVars, ctxVars, cPc, hPc, pipe, writer, buf>>

SshdRead(r) ==
    /\ rd[r] = "open"
    /\ buf > 0
    /\ got' = [got EXCEPT ![r] = IF @ + buf > 2 THEN 2 ELSE @ + buf]
    /\ buf' = 0
    /\ UNCHANGED <<watcherVars, ctxVars, cPc, hPc, pipe, writer, rd>>

SshdEof(r) == buf = 0 /\ ~writer /\ CloseReader(r)

CancelContext ==
    /\ CanCancel
    /\ ~ctxDone
    /\ ctxDone' = TRUE
    /\ UNCHANGED <<watcherVars, leaving, cPc, hPc, pipeVars>>

\* The event manager's context handler sets queue.leaving.
Leave ==
    /\ ctxDone
    /\ ~leaving
    /\ leaving' = TRUE
    /\ UNCHANGED <<watcherVars, ctxDone, cPc, hPc, pipeVars>>

-----------------------------------------------------------------------------
WatcherStep ==
    \/ StartRun \/ CreateNamedPipe \/ FailRun \/ OpenWriteEnd \/ CheckCanceled \/ ReturnEvent
    \/ DeliverEvent \/ DeliverError \/ DropEvent

CancelerStep == Cancel \/ CancelOpen

HandlerStep ==
    \/ \E ok \in BOOLEAN : GetCertificates(ok)
    \/ WriteCertificates \/ CloseWriteEnd \/ Finished

CANext ==
    \/ WatcherStep \/ CancelerStep \/ CancelClose \/ HandlerStep
    \/ \E r \in Sshd : SshdOpen(r) \/ SshdRead(r) \/ SshdEof(r)
    \/ CancelContext \/ Leave

CASpec == CAInit /\ [][CANext]_caVars

(***************************************************************************)
(* The agent's goroutines go on while they can, and the metadata client    *)
(* answers (its retries are bounded or the context ends them).  An sshd    *)
(* that opened the pipe reads it to its end: it is woken by every close of *)
(* the write end, while the watcher polls every 10 ms, hence SF.           *)
(***************************************************************************)
CAFairness ==
    /\ WF_caVars(WatcherStep) /\ WF_caVars(CancelerStep) /\ WF_caVars(CancelClose)
    /\ WF_caVars(HandlerStep) /\ WF_caVars(Leave)
    /\ \A r \in Sshd : SF_caVars(SshdRead(r)) /\ SF_caVars(SshdEof(r))

CAFairSpec == CASpec /\ CAFairness

-----------------------------------------------------------------------------
\* Type invariant of the watcher, the subscriber and the pipe.
CATypeOK ==
    /\ wPc \in {"wait", "setup", "open", "check", "send", "event", "error", "end"}
    /\ waitingWrite \in BOOLEAN /\ ctxDone \in BOOLEAN /\ leaving \in BOOLEAN /\ canceled \in BOOLEAN
    /\ cPc \in {"off", "select", "cancel"}
    /\ failures \in 0..MaxFailures
    /\ hPc \in {"idle", "get", "write", "close", "finish"}
    /\ pipe \in BOOLEAN /\ writer \in BOOLEAN
    /\ rd \in [Readers -> {"idle", "opening", "open"}]
    /\ buf \in 0..Capacity
    /\ got \in [Sshd -> 0..2]

\* While a subscriber holds the pipe's write end the watcher does not open it
\* again: waitingWrite stays set from before the event is reported until the
\* subscriber has closed the file and called Finished().
OneWriter ==
    hPc # "idle" => waitingWrite /\ wPc \in {"wait", "end"}

\* An sshd that opens the pipe is let in, and gets certificates or the end of
\* the file: without a cancellation, and whatever the metadata server answers,
\* it is not left blocked in open() or in an empty read().
SshdIsServed == \A r \in Sshd : rd[r] # "idle" ~> (rd[r] = "idle" \/ got[r] > 0 \/ ctxDone)

\* A cancelled Run() returns ("Watcher should have been canceled before timeout"),
\* wherever the cancellation finds it, the blocking open included.  The one way
\* to hang is the send to a goroutine that took ctx.Done() after a reader had
\* let Run() out of its open.  (Without a pipe and without restorecon there is
\* another: the goroutine finds no pipe to open and Run() then creates one.)
CancelEndsRun == ctxDone ~> (wPc = "end" \/ (wPc = "send" /\ cPc # "select"))
=============================================================================
