-------------------------- MODULE SchedulerProofs --------------------------
(***************************************************************************)
(* Theorems about Scheduler, for any number of callers, jobs and job runs, *)
(* and that the agent's two jobs use it in the way they assume.            *)
(***************************************************************************)
EXTENDS AgentJobs, TLAPS

\* The scheduler starts within its types.
LEMMA TypeInit == Init => TypeOK
  BY SchedulerAssumption DEF Init, TypeOK, NoEntry

\* Every action keeps the scheduler within its types.
LEMMA TypeStep == TypeOK /\ [Next]_vars => TypeOK'
<1> SUFFICES ASSUME TypeOK, [Next]_vars PROVE TypeOK'
  OBVIOUS
<1> USE SchedulerAssumption DEF TypeOK, callVars, runVars, NoEntry
<1>1. ASSUME NEW p \in Callers,
             ScheduleJob(p) \/ CheckScheduled(p) \/ AddFuncFails(p) \/ StartLater(p)
      PROVE  TypeOK'
  BY <1>1 DEF ScheduleJob, CheckScheduled, AddFuncFails, StartLater
<1>2. ASSUME NEW p \in Callers, AddFunc(p) PROVE TypeOK'
  <2>1. lastId' \in Nat /\ 0..lastId \subseteq 0..lastId' /\ lastId + 1 \in 1..lastId'
    BY <1>2 DEF AddFunc
  <2>2. entries' \subseteq (1..lastId') \X JobIds
    BY <1>2, <2>1 DEF AddFunc
  <2>3. jobs' \in [JobIds -> 0..lastId'] /\ callEntry' \in [Callers -> 0..lastId']
    BY <1>2, <2>1 DEF AddFunc
  <2> QED BY <1>2, <2>1, <2>2, <2>3 DEF AddFunc
<1>3. ASSUME NEW p \in Callers, SetEntryID(p) PROVE TypeOK'
  BY <1>3 DEF SetEntryID
<1>4. ASSUME NEW p \in Callers, NEW r \in Runners, StartNow(p, r) PROVE TypeOK'
  BY <1>4 DEF StartNow, Start
<1>5. ASSUME NEW r \in Runners, NEW e \in entries, Tick(e, r) PROVE TypeOK'
  <2>1. e[2] \in JobIds
    OBVIOUS
  <2> QED BY <1>5, <2>1 DEF Tick, Start
<1>6. ASSUME NEW r \in Runners, NEW continue \in BOOLEAN, RunReturns(r, continue) PROVE TypeOK'
  BY <1>6 DEF RunReturns
<1>7. ASSUME NEW r \in Runners, UnscheduleJob(r) PROVE TypeOK'
  <2>1. runJob[r] \in JobIds
    OBVIOUS
  <2> QED BY <1>7, <2>1 DEF UnscheduleJob, Unschedule, Stopped
<1>8. ASSUME NEW p \in Callers, CallUnscheduleJob(p) PROVE TypeOK'
  <2>1. JobOf[p] \in JobIds
    OBVIOUS
  <2> QED BY <1>8, <2>1 DEF CallUnscheduleJob, Unschedule, Stopped
<1>9. CASE UNCHANGED vars
  BY <1>9 DEF vars
<1> QED BY <1>1, <1>2, <1>3, <1>4, <1>5, <1>6, <1>7, <1>8, <1>9 DEF Next

\* Type correctness of the scheduler.
THEOREM TypeCorrect == Spec => []TypeOK
  BY TypeInit, TypeStep, PTL DEF Spec

-----------------------------------------------------------------------------
(***************************************************************************)
(* In the agent a job is scheduled by one goroutine only.  Without this    *)
(* two calls may both find the job unscheduled, and one entry is lost.     *)
(***************************************************************************)
OneCallerPerJob == \A p, q \in Callers : JobOf[p] = JobOf[q] => p = q

\* A call past the look-up finds the job still unscheduled.
NotScheduled == \A p \in Callers : callPc[p] \in {"add", "set"} => jobs[JobOf[p]] = NoEntry

\* The call that is about to record an entry records it for the entry's job.
Recording(p, e) == callPc[p] = "set" /\ callEntry[p] = e[1] /\ JobOf[p] = e[2]

EntriesOfJobs ==
    \A e \in entries : jobs[e[2]] = e[1] \/ \E p \in Callers : Recording(p, e)

SchedulerInv == TypeOK /\ NotScheduled /\ EntriesOfJobs /\ StopIsHeeded

\* Every action keeps SchedulerInv when a job has one caller.
LEMMA SchedulerStep ==
    ASSUME OneCallerPerJob PROVE SchedulerInv /\ [Next]_vars => SchedulerInv'
<1> SUFFICES ASSUME SchedulerInv, [Next]_vars
             PROVE  NotScheduled' /\ EntriesOfJobs' /\ StopIsHeeded'
  BY TypeStep DEF SchedulerInv
<1> TypeOK /\ TypeOK' /\ NotScheduled /\ EntriesOfJobs /\ StopIsHeeded
  BY TypeStep DEF SchedulerInv
<1>a. \A p \in Callers : JobOf[p] \in JobIds
  BY SchedulerAssumption
<1>b. \A e \in entries : e = <<e[1], e[2]>> /\ e[2] \in JobIds /\ e[1] \in 1..lastId
  BY DEF TypeOK
<1>c. \A e \in entries : e[1] # NoEntry
  BY <1>b DEF TypeOK, NoEntry
<1> USE DEF callVars, runVars
<1> DEFINE Kept == NotScheduled' /\ EntriesOfJobs' /\ StopIsHeeded'
<1>1. ASSUME NEW p \in Callers,
             ScheduleJob(p) \/ CheckScheduled(p) \/ AddFuncFails(p) \/ StartLater(p)
                \/ \E r \in Runners : StartNow(p, r)
      PROVE  Kept
  <2>1. UNCHANGED <<jobs, entries, callEntry, stopped>> /\ callPc[p] # "set"
    BY <1>1 DEF ScheduleJob, CheckScheduled, AddFuncFails, StartLater, StartNow
  <2>2. /\ \A q \in Callers \ {p} : callPc'[q] = callPc[q]
        /\ callPc'[p] = "add" => jobs[JobOf[p]] = NoEntry
        /\ callPc'[p] # "set"
    BY <1>1 DEF ScheduleJob, CheckScheduled, AddFuncFails, StartLater, StartNow, TypeOK
  <2>3. NotScheduled'
    BY <2>1, <2>2 DEF NotScheduled
  <2>4. EntriesOfJobs'
    BY <2>1, <2>2 DEF EntriesOfJobs, Recording
  <2> QED BY <2>1, <2>3, <2>4 DEF StopIsHeeded
<1>2. ASSUME NEW p \in Callers, AddFunc(p) PROVE Kept
  <2>1. /\ callPc[p] = "add" /\ jobs' = jobs /\ stopped' = stopped \ {JobOf[p]}
        /\ entries' = entries \cup {<<lastId + 1, JobOf[p]>>}
        /\ callPc'[p] = "set" /\ callEntry'[p] = lastId + 1
        /\ \A q \in Callers \ {p} : callPc'[q] = callPc[q] /\ callEntry'[q] = callEntry[q]
    BY <1>2 DEF AddFunc, TypeOK
  <2>2. NotScheduled'
    BY <2>1 DEF NotScheduled
  <2>3. ASSUME NEW e, e = <<lastId + 1, JobOf[p]>> PROVE e[2] = JobOf[p] /\ Recording(p, e)'
    BY <2>1, <2>3 DEF Recording
  <2>4. ASSUME NEW e \in entries
        PROVE  jobs'[e[2]] = e[1] \/ \E q \in Callers : Recording(q, e)'
    <3>1. CASE jobs[e[2]] = e[1]
      BY <2>1, <3>1
    <3>2. ASSUME NEW q \in Callers, Recording(q, e) PROVE Recording(q, e)'
      <4>1. q # p
        BY <2>1, <3>2 DEF Recording
      <4> QED BY <2>1, <3>2, <4>1 DEF Recording
    <3> QED BY <3>1, <3>2 DEF EntriesOfJobs
  <2>5. EntriesOfJobs'
    BY <2>1, <2>3, <2>4 DEF EntriesOfJobs
  <2> QED BY <2>1, <2>2, <2>5 DEF StopIsHeeded
<1>3. ASSUME NEW p \in Callers, SetEntryID(p) PROVE Kept
  <2>1. /\ callPc[p] = "set" /\ jobs'[JobOf[p]] = callEntry[p] /\ callPc'[p] = "start"
        /\ \A j \in JobIds \ {JobOf[p]} : jobs'[j] = jobs[j]
        /\ \A q \in Callers \ {p} : callPc'[q] = callPc[q]
        /\ UNCHANGED <<entries, callEntry, stopped>>
    BY <1>3, <1>a DEF SetEntryID, TypeOK
  <2>2. NotScheduled'
    BY <1>a, <2>1 DEF NotScheduled, OneCallerPerJob
  <2>3. ASSUME NEW e \in entries
        PROVE  jobs'[e[2]] = e[1] \/ \E q \in Callers : Recording(q, e)'
    <3>1. CASE e[2] = JobOf[p]
      <4>1. jobs[e[2]] # e[1]
        BY <1>c, <2>1, <3>1 DEF NotScheduled
      <4>2. PICK q \in Callers : Recording(q, e)
        BY <4>1 DEF EntriesOfJobs
      <4>3. q = p
        BY <3>1, <4>2 DEF Recording, OneCallerPerJob
      <4> QED BY <2>1, <3>1, <4>2, <4>3 DEF Recording
    <3>2. CASE e[2] # JobOf[p]
      BY <1>b, <2>1, <3>2 DEF EntriesOfJobs, Recording
    <3> QED BY <3>1, <3>2
  <2> QED BY <2>1, <2>2, <2>3 DEF EntriesOfJobs, StopIsHeeded
<1>4. ASSUME NEW r \in Runners,
             (\E e \in entries : Tick(e, r)) \/ (\E continue \in BOOLEAN : RunReturns(r, continue))
      PROVE  Kept
  BY <1>4 DEF Tick, Start, RunReturns, NotScheduled, EntriesOfJobs, Recording, StopIsHeeded
<1>5. ASSUME NEW j \in JobIds, Unschedule(j), UNCHANGED <<callPc, callEntry>> PROVE Kept
  <2>1. /\ entries' = entries \ {<<jobs[j], j>>}
        /\ jobs'[j] = NoEntry /\ \A k \in JobIds \ {j} : jobs'[k] = jobs[k]
        /\ stopped' = Stopped(j)
        /\ UNCHANGED <<callPc, callEntry>>
    BY <1>5 DEF Unschedule, TypeOK
  <2>2. NotScheduled'
    BY <1>a, <2>1 DEF NotScheduled
  <2>3. ASSUME NEW e \in entries'
        PROVE  /\ jobs'[e[2]] = e[1] \/ \E q \in Callers : Recording(q, e)'
               /\ e[2] \notin stopped'
    <3>1. e \in entries /\ e[2] \notin stopped
      BY <2>1 DEF StopIsHeeded
    <3>2. CASE e[2] = j
      <4>1. jobs[j] # e[1]
        BY <1>b, <2>1, <3>1, <3>2
      <4>2. PICK q \in Callers : Recording(q, e)
        BY <3>1, <3>2, <4>1 DEF EntriesOfJobs
      <4>3. stopped' = stopped
        BY <2>1, <3>2, <4>2 DEF Stopped, Unrecorded, Recording
      <4> QED BY <2>1, <3>1, <4>2, <4>3 DEF Recording
    <3>3. CASE e[2] # j
      <4>1. e[2] \notin stopped'
        BY <2>1, <3>1, <3>3 DEF Stopped
      <4>2. jobs'[e[2]] = jobs[e[2]]
        BY <1>b, <2>1, <3>1, <3>3
      <4> QED BY <2>1, <3>1, <4>1, <4>2 DEF EntriesOfJobs, Recording
    <3> QED BY <3>2, <3>3
  <2> QED BY <2>2, <2>3 DEF EntriesOfJobs, StopIsHeeded
<1>6. ASSUME NEW r \in Runners, UnscheduleJob(r) PROVE Kept
  <2>1. runJob[r] \in JobIds
    BY DEF TypeOK
  <2> QED BY <1>5, <1>6, <2>1 DEF UnscheduleJob
<1>7. ASSUME NEW p \in Callers, CallUnscheduleJob(p) PROVE Kept
  BY <1>5, <1>7, <1>a DEF CallUnscheduleJob
<1>8. CASE UNCHANGED vars
  BY <1>8 DEF vars, NotScheduled, EntriesOfJobs, Recording, StopIsHeeded
<1> QED BY <1>1, <1>2, <1>3, <1>4, <1>6, <1>7, <1>8 DEF Next

\* When a job has one caller, as in the agent, every cron entry is one that
\* UnscheduleJob() can remove, and a job that said stop is off the schedule.
THEOREM SchedulerSafety ==
    ASSUME OneCallerPerJob PROVE Spec => [](EntriesAreKnown /\ StopIsHeeded)
<1>1. Init => SchedulerInv
  BY TypeInit DEF Init, SchedulerInv, NotScheduled, EntriesOfJobs, StopIsHeeded
<1>2. SchedulerInv => EntriesAreKnown /\ StopIsHeeded
  BY DEF SchedulerInv, EntriesOfJobs, Recording, EntriesAreKnown
<1>3. SchedulerInv /\ [Next]_vars => SchedulerInv'
  BY SchedulerStep
<1> QED BY <1>1, <1>2, <1>3, PTL DEF Spec

-----------------------------------------------------------------------------
(* The agent's jobs.                                                       *)

\* The metadata event's callback schedules one job, the main goroutine the other.
LEMMA AgentJobsHaveOneCaller == OneCallerPerJob
  BY JobsAssumption DEF OneCallerPerJob

\* Every step of the two jobs is a step of the scheduler or leaves it alone.
LEMMA JobsStep == [JobsNext]_allVars => [Next]_vars
<1> SUFFICES ASSUME [JobsNext]_allVars PROVE [Next]_vars
  OBVIOUS
<1>a. Handler \in Callers /\ Main \in Callers
  BY JobsAssumption
<1>1. CASE ChangeMetadata \/ RotateCertificate
  BY <1>1 DEF ChangeMetadata, RotateCertificate
<1>2. CASE MdsSchedulerHandler
  <2>1. ScheduleJob(Handler) \/ CallUnscheduleJob(Handler) \/ UNCHANGED vars
    BY <1>2 DEF MdsSchedulerHandler
  <2> QED BY <1>a, <2>1 DEF Next
<1>3. CASE Call(Handler) \/ Call(Main)
  BY <1>3, <1>a DEF Call, Next
<1>4. CASE HandlerRun \/ TelemetryStart
  <2>1. \E p \in Callers, r \in Runners : StartNow(p, r)
    BY <1>4, <1>a DEF HandlerRun, TelemetryStart, FreeRunner
  <2> QED BY <2>1 DEF Next
<1>5. CASE ScheduleJobs
  BY <1>5, <1>a DEF ScheduleJobs, Next
<1>6. ASSUME NEW r \in Runners, CredsJobStep(r) PROVE [Next]_vars
  <2>1. RunReturns(r, TRUE) \/ UNCHANGED vars
    BY <1>6 DEF CredsJobStep, InstallRootCert, InstallRootCertFails, FetchClientCredentials,
                WriteClientCredentials, RunFails, Return
  <2> QED BY <2>1 DEF Next
<1>7. ASSUME NEW r \in Runners, TelemetryStep(r) PROVE [Next]_vars
  <2>1. CASE TelemetryReturns(r)
    <3>1. RunReturns(r, TRUE) \/ RunReturns(r, FALSE)
      BY <2>1 DEF TelemetryReturns
    <3> QED BY <3>1 DEF Next
  <2>2. CASE TelemetryStop(r)
    BY <2>2 DEF TelemetryStop, Next
  <2> QED BY <1>7, <2>1, <2>2 DEF TelemetryStep
<1>8. ASSUME NEW e \in entries, JobTick(e) PROVE [Next]_vars
  <2>1. \E r \in Runners : Tick(e, r)
    BY <1>8 DEF JobTick, FreeRunner
  <2> QED BY <2>1 DEF Next
<1>9. CASE UNCHANGED allVars
  BY <1>9 DEF allVars
<1> QED BY <1>1, <1>2, <1>3, <1>4, <1>5, <1>6, <1>7, <1>8, <1>9 DEF JobsNext, HandlerStep

\* The agent's jobs use the scheduler as Scheduler says it is used.
THEOREM JobsUseScheduler == JobsSpec => Spec
<1>1. JobsInit => Init
  BY DEF JobsInit
<1> QED BY <1>1, JobsStep, PTL DEF JobsSpec, Spec

\* With the agent's two jobs no cron entry is lost: each one is in s.jobs, where
\* UnscheduleJob() finds it, or about to be recorded there, and a job that is to be
\* stopped is off the schedule.
THEOREM JobsSafety == JobsSpec => [](EntriesAreKnown /\ StopIsHeeded)
  BY AgentJobsHaveOneCaller, SchedulerSafety, JobsUseScheduler, PTL
=============================================================================
