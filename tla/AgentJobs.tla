----------------------------- MODULE AgentJobs -----------------------------
(***************************************************************************)
(* The two jobs of the agent on the scheduler: the bootstrapping of the    *)
(* mTLS credentials (agentcrypto), which a callback of the metadata event  *)
(* puts on and takes off the schedule, and telemetry, scheduled once and   *)
(* taken off by its own run.                                               *)
(*                                                                         *)
(* Abstracted: the cryptography (a request for credentials succeeds or     *)
(* fails as a whole, verifySign() included) and the system's trust store,  *)
(* whose update is tried once, with the root certificate, and only logged. *)
(***************************************************************************)
EXTENDS Scheduler

CONSTANTS
    MTLS, Telemetry,   \* the two jobs
    TelemetryRunner,   \* telemetry has one execution at a time, the other Runners are
    NoRunner,          \* for the credentials
    Handler, Main,     \* who schedules them
    MaxChanges,        \* bound: changes of the metadata
    MaxGen,            \* bound: client certificates the metadata server hands out
    MaxFaults          \* bound: failed requests and file operations

ASSUME JobsAssumption ==
    /\ JobIds = {MTLS, Telemetry} /\ MTLS # Telemetry /\ Callers = {Handler, Main}
    /\ JobOf = [p \in Callers |-> IF p = Handler THEN MTLS ELSE Telemetry]
    /\ TelemetryRunner \in Runners /\ NoRunner \notin Runners
    /\ {MaxChanges, MaxFaults} \subseteq Nat /\ MaxGen \in Nat \ {0}

VARIABLES
    disabled,      \* the jobs the user's attributes disable
    changes,       \* of the metadata, so far
    gen,           \* the client certificate the metadata server hands out
    hPc,           \* mdsSchedulerHandler(): idle, in ScheduleJob(), or running the job
    hRun,          \* the execution that is the handler's own
    isEnabled,     \* j.isEnabled
    rootInstalled, \* j.rootCertsInstalled
    root, client,  \* root.crt and client.key: written, and the certificate in it
    step, got,     \* Run() of each execution, and the certificate it has fetched
    faults         \* so far

mdVars == <<disabled, changes, gen>>
jobVars == <<isEnabled, rootInstalled, root, client>>
schedVars == <<jobs, entries, lastId, callVars, stopped>>
agentVars == <<mdVars, hPc, hRun, jobVars, step, got, faults>>
allVars == <<vars, agentVars>>

JobsInit ==
    /\ Init /\ runJob = [r \in Runners |-> IF r = TelemetryRunner THEN Telemetry ELSE MTLS]
    /\ disabled \in SUBSET {MTLS} /\ changes = 0 /\ gen = 1
    /\ hPc = "idle" /\ hRun = NoRunner
    /\ isEnabled = FALSE /\ rootInstalled = FALSE
    /\ root = FALSE /\ client = 0
    /\ step = [r \in Runners |-> "off"] /\ got = [r \in Runners |-> 0]
    /\ faults = 0

Fault == faults < MaxFaults /\ faults' = faults + 1

\* The attributes of instance and project, and what the endpoint hands out.
ChangeMetadata ==
    /\ changes < MaxChanges /\ changes' = changes + 1
    /\ \E j \in JobIds : disabled' = IF j \in disabled THEN disabled \ {j} ELSE disabled \cup {j}
    /\ UNCHANGED <<vars, gen, hPc, hRun, jobVars, step, got, faults>>

RotateCertificate ==
    /\ gen < MaxGen /\ gen' = gen + 1
    /\ UNCHANGED <<vars, disabled, changes, hPc, hRun, jobVars, step, got, faults>>

-----------------------------------------------------------------------------
(* mdsSchedulerHandler(): the metadata event comes again and again, with   *)
(* the attributes of the time; one that carries an error is ignored.       *)

Scheduled(j) == jobs[j] # NoEntry

\* checkUserSettings(): the credentials' endpoint is asked only if the user has not
\* disabled the job, and may not answer.
CheckUserSettings ==
    \/ isEnabled' = (MTLS \notin disabled) /\ UNCHANGED faults
    \/ MTLS \notin disabled /\ Fault /\ isEnabled' = FALSE

\* Fault: a job that is scheduled stays so.
MdsSchedulerHandlerKeeps ==
    /\ hPc = "idle"
    /\ CheckUserSettings
    /\ \/ (isEnabled' => Scheduled(MTLS)) /\ UNCHANGED <<vars, hPc>>
       \/ isEnabled' /\ ~Scheduled(MTLS) /\ ScheduleJob(Handler) /\ hPc' = "schedule"
    /\ UNCHANGED <<mdVars, hRun, rootInstalled, root, client, step, got>>

MdsSchedulerHandler ==
    /\ hPc = "idle"
    /\ CheckUserSettings
    /\ \/ isEnabled' = Scheduled(MTLS) /\ UNCHANGED <<vars, hPc>>
       \/ ~isEnabled' /\ Scheduled(MTLS) /\ CallUnscheduleJob(Handler) /\ UNCHANGED hPc
       \/ isEnabled' /\ ~Scheduled(MTLS) /\ ScheduleJob(Handler) /\ hPc' = "schedule"
    /\ UNCHANGED <<mdVars, hRun, rootInstalled, root, client, step, got>>

\* An execution of job j that is not under way.  Which one does not matter.
FreeRunner(j) ==
    LET idle == {r \in Runners : runPc[r] = "idle" /\ runJob[r] = j}
    IN  {r \in idle : r = CHOOSE i \in idle : TRUE}

Call(p) ==
    /\ CheckScheduled(p) \/ AddFunc(p) \/ SetEntryID(p)
    /\ UNCHANGED agentVars

\* The handler runs the job itself: synchronous is true.
HandlerRun ==
    /\ \E r \in FreeRunner(MTLS) :
        /\ StartNow(Handler, r)
        /\ hRun' = r /\ hPc' = "run"
        /\ step' = [step EXCEPT ![r] = "root"]
    /\ UNCHANGED <<mdVars, jobVars, got, faults>>

HandlerStep == MdsSchedulerHandler \/ Call(Handler) \/ HandlerRun

-----------------------------------------------------------------------------
(* CredsJob.Run().  Whatever fails, it asks to be run again.               *)

At(r, s) == runPc[r] = "run" /\ runJob[r] = MTLS /\ step[r] = s

Return(r) ==
    /\ RunReturns(r, TRUE)
    /\ step' = [step EXCEPT ![r] = "off"] /\ got' = [got EXCEPT ![r] = 0]
    /\ hPc' = IF r = hRun THEN "idle" ELSE hPc
    /\ hRun' = IF r = hRun THEN NoRunner ELSE hRun

\* readRootCACert() and writeRootCACert(), in the first run that gets so far.
InstallRootCert(r) ==
    /\ At(r, "root")
    /\ root' = TRUE /\ rootInstalled' = TRUE
    /\ step' = [step EXCEPT ![r] = "fetch"]
    /\ UNCHANGED <<vars, mdVars, hPc, hRun, isEnabled, client, got, faults>>

InstallRootCertFails(r) ==
    /\ At(r, "root") /\ ~rootInstalled /\ Fault
    /\ Return(r)
    /\ UNCHANGED <<schedVars, mdVars, jobVars>>

FetchClientCredentials(r) ==
    /\ At(r, "fetch")
    /\ got' = [got EXCEPT ![r] = gen]
    /\ step' = [step EXCEPT ![r] = "write"]
    /\ UNCHANGED <<vars, mdVars, hPc, hRun, jobVars, faults>>

\* Fault: credentials that were bootstrapped once are kept.
WriteClientCredentialsOnce(r) ==
    /\ At(r, "write")
    /\ client' = IF client = 0 THEN got[r] ELSE client
    /\ Return(r)
    /\ UNCHANGED <<schedVars, mdVars, isEnabled, rootInstalled, root, faults>>

\* The rename of SaferWriteFile().
WriteClientCredentials(r) ==
    /\ At(r, "write")
    /\ client' = got[r]
    /\ Return(r)
    /\ UNCHANGED <<schedVars, mdVars, isEnabled, rootInstalled, root, faults>>

RunFails(r) ==
    /\ At(r, "fetch") \/ At(r, "write")
    /\ Fault
    /\ Return(r)
    /\ UNCHANGED <<schedVars, mdVars, jobVars>>

CredsJobStep(r) ==
    \/ InstallRootCert(r) \/ InstallRootCertFails(r)
    \/ FetchClientCredentials(r) \/ WriteClientCredentials(r) \/ RunFails(r)

-----------------------------------------------------------------------------
(* The telemetry job: ScheduleJobs() once, and its Run().                  *)

\* ShouldEnable() is false when the attributes disable it or cannot be read.
ScheduleJobs ==
    /\ calls[Main] = 0 /\ Telemetry \notin disabled
    /\ ScheduleJob(Main)
    /\ UNCHANGED agentVars

TelemetryStart ==
    /\ \E r \in FreeRunner(Telemetry) : StartNow(Main, r)
    /\ UNCHANGED agentVars

\* Run() returns what ShouldEnable() says now.
TelemetryReturns(r) ==
    /\ runJob[r] = Telemetry
    /\ \/ RunReturns(r, Telemetry \notin disabled) /\ UNCHANGED faults
       \/ RunReturns(r, FALSE) /\ Fault
    /\ UNCHANGED <<mdVars, hPc, hRun, jobVars, step, got>>

TelemetryStop(r) == UnscheduleJob(r) /\ UNCHANGED agentVars

TelemetryStep(r) == TelemetryReturns(r) \/ TelemetryStop(r)

\* A day or two pass: no execution of the job is still under way.
JobTick(e) ==
    /\ \A r \in Runners : runPc[r] # "idle" => runJob[r] # e[2]
    /\ \E r \in FreeRunner(e[2]) :
        /\ Tick(e, r)
        /\ step' = IF e[2] = MTLS THEN [step EXCEPT ![r] = "root"] ELSE step
    /\ UNCHANGED <<mdVars, hPc, hRun, jobVars, got, faults>>

JobsNext ==
    \/ ChangeMetadata \/ RotateCertificate
    \/ HandlerStep
    \/ ScheduleJobs \/ Call(Main) \/ TelemetryStart
    \/ \E r \in Runners : CredsJobStep(r) \/ TelemetryStep(r)
    \/ \E e \in entries : JobTick(e)

JobsSpec == JobsInit /\ [][JobsNext]_allVars

\* Events keep coming (a long poll is answered at the latest after timeout_sec),
\* cron ticks, and the goroutines go on.
MTLSTick == \E e \in entries : e[2] = MTLS /\ JobTick(e)
JobsFairSpec ==
    /\ JobsSpec
    /\ WF_allVars(HandlerStep) /\ SF_allVars(MTLSTick)
    /\ WF_allVars(Call(Main) \/ TelemetryStart)
    /\ \A r \in Runners : WF_allVars(CredsJobStep(r)) /\ WF_allVars(TelemetryStep(r))

-----------------------------------------------------------------------------
\* Type invariant of the jobs.
JobsTypeOK ==
    /\ TypeOK
    /\ disabled \subseteq JobIds /\ changes \in 0..MaxChanges /\ gen \in 1..MaxGen
    /\ hPc \in {"idle", "schedule", "run"} /\ hRun \in Runners \cup {NoRunner}
    /\ isEnabled \in BOOLEAN /\ rootInstalled \in BOOLEAN /\ root \in BOOLEAN
    /\ client \in 0..MaxGen /\ got \in [Runners -> 0..MaxGen]
    /\ step \in [Runners -> {"off", "root", "fetch", "write"}]
    /\ faults \in 0..MaxFaults

\* The job is on the schedule, or off it, as the user's attributes say, however
\* often they change and whichever probes of the endpoint and runs of the job fail:
\* a probe that fails takes a job off only until the next event.
JobFollowsSetting == <>[](Scheduled(MTLS) <=> MTLS \notin disabled)

\* As long as the user wants them, the credentials on disk become those that the
\* metadata server hands out, also when a run of an earlier schedule finishes late
\* and overwrites what a newer one has written.
CredentialsAreRenewed == <>[](MTLS \in disabled \/ client = gen)
=============================================================================
