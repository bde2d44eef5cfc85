----------------------------- MODULE Scheduler -----------------------------
(***************************************************************************)
(* The job scheduler (scheduler.go): callers of ScheduleJob(), the cron    *)
(* library's entries (external) and the goroutines that run jobs, which    *)
(* unschedule their job when it says so.                                   *)
(***************************************************************************)
EXTENDS Naturals, FiniteSets

CONSTANTS
    Callers,    \* goroutines calling ScheduleJob()
    JobIds,
    JobOf,      \* the job each caller schedules
    Runners,    \* bound: job executions at a time
    MaxCalls    \* bound: calls of each caller

NoEntry == 0

ASSUME SchedulerAssumption ==
    /\ JobOf \in [Callers -> JobIds]
    /\ MaxCalls \in Nat

VARIABLES
    jobs,      \* s.jobs: the entry of each scheduled job
    entries,   \* cron entries: pairs of an entry ID and a job
    lastId,    \* the last entry ID cron gave out
    callPc,    \* callers: idle, check, add, set or start
    calls,     \* calls so far
    callEntry, \* entry a caller got from AddFunc()
    runPc,     \* executions: idle, run or unschedule
    runJob,    \* job of an execution
    stopped    \* history: jobs unscheduled since they were last scheduled

callVars == <<callPc, callEntry, calls>>
runVars == <<runPc, runJob>>
vars == <<jobs, entries, lastId, callVars, runVars, stopped>>

Init ==
    /\ jobs = [j \in JobIds |-> NoEntry]
    /\ entries = {} /\ lastId = 0
    /\ callPc = [p \in Callers |-> "idle"]
    /\ callEntry = [p \in Callers |-> NoEntry]
    /\ calls = [p \in Callers |-> 0]
    /\ runPc = [r \in Runners |-> "idle"]
    /\ runJob \in [Runners -> JobIds]
    /\ stopped = {}

-----------------------------------------------------------------------------
(* ScheduleJob().                                                          *)

\* A call for a job that is not enabled returns at once and is no step.
ScheduleJob(p) ==
    /\ callPc[p] = "idle" /\ calls[p] < MaxCalls
    /\ calls' = [calls EXCEPT ![p] = @ + 1]
    /\ callPc' = [callPc EXCEPT ![p] = "check"]
    /\ UNCHANGED <<jobs, entries, lastId, callEntry, runVars, stopped>>

\* jobInit() reads s.jobs without the lock.
CheckScheduled(p) ==
    /\ callPc[p] = "check"
    /\ callPc' = [callPc EXCEPT ![p] = IF jobs[JobOf[p]] # NoEntry THEN "idle" ELSE "add"]
    /\ UNCHANGED <<jobs, entries, lastId, callEntry, calls, runVars, stopped>>

AddFunc(p) ==
    /\ callPc[p] = "add"
    /\ lastId' = lastId + 1
    /\ entries' = entries \cup {<<lastId + 1, JobOf[p]>>}
    /\ callEntry' = [callEntry EXCEPT ![p] = lastId + 1]
    /\ callPc' = [callPc EXCEPT ![p] = "set"]
    /\ stopped' = stopped \ {JobOf[p]}
    /\ UNCHANGED <<jobs, calls, runVars>>

\* AddFunc() rejects the interval.
AddFuncFails(p) ==
    /\ callPc[p] = "add"
    /\ callPc' = [callPc EXCEPT ![p] = "idle"]
    /\ UNCHANGED <<jobs, entries, lastId, callEntry, calls, runVars, stopped>>

SetEntryID(p) ==
    /\ callPc[p] = "set"
    /\ jobs' = [jobs EXCEPT ![JobOf[p]] = callEntry[p]]
    /\ callPc' = [callPc EXCEPT ![p] = "start"]
    /\ UNCHANGED <<entries, lastId, callEntry, calls, runVars, stopped>>

Start(r, j) ==
    /\ runPc[r] = "idle"
    /\ runPc' = [runPc EXCEPT ![r] = "run"]
    /\ runJob' = [runJob EXCEPT ![r] = j]

\* The first run, when the job wants one now.
StartNow(p, r) ==
    /\ callPc[p] = "start"
    /\ Start(r, JobOf[p])
    /\ callPc' = [callPc EXCEPT ![p] = "idle"]
    /\ UNCHANGED <<jobs, entries, lastId, callEntry, calls, stopped>>

StartLater(p) ==
    /\ callPc[p] = "start"
    /\ callPc' = [callPc EXCEPT ![p] = "idle"]
    /\ UNCHANGED <<jobs, entries, lastId, callEntry, calls, runVars, stopped>>

-----------------------------------------------------------------------------
(* Executions.                                                             *)

\* cron starts a job when its interval has elapsed, also before ScheduleJob() has
\* recorded the entry.
Tick(e, r) ==
    /\ Start(r, e[2])
    /\ UNCHANGED <<jobs, entries, lastId, callVars, stopped>>

\* job.Run() returns; FALSE asks for no more runs.
RunReturns(r, continue) ==
    /\ runPc[r] = "run"
    /\ runPc' = [runPc EXCEPT ![r] = IF continue THEN "idle" ELSE "unschedule"]
    /\ UNCHANGED <<jobs, entries, lastId, callVars, runJob, stopped>>

\* ScheduleJob() is between AddFunc() and recording the entry of job j.
Unrecorded(j) == \E p \in Callers : callPc[p] = "set" /\ JobOf[p] = j

\* A stop that comes then is lost: UnscheduleJob() does not know the entry.
Stopped(j) == IF Unrecorded(j) THEN stopped ELSE stopped \cup {j}

\* Fault: the entry is forgotten, but stays with cron.
UnscheduleForget(j) ==
    /\ jobs' = [jobs EXCEPT ![j] = NoEntry]
    /\ stopped' = Stopped(j)
    /\ UNCHANGED entries

\* UnscheduleJob(): nothing happens to a job that is not in s.jobs.  The map is
\* changed under RLock(), and read without a lock by CheckScheduled: one caller per
\* job does not keep calls for different jobs from racing in the map itself, which is
\* taken to be atomic here.
Unschedule(j) ==
    /\ entries' = entries \ {<<jobs[j], j>>}
    /\ jobs' = [jobs EXCEPT ![j] = NoEntry]
    /\ stopped' = Stopped(j)

\* The execution of a job that is to be stopped calls it, and so may the goroutine
\* that scheduled the job.
UnscheduleJob(r) ==
    /\ runPc[r] = "unschedule"
    /\ Unschedule(runJob[r])
    /\ runPc' = [runPc EXCEPT ![r] = "idle"]
    /\ UNCHANGED <<lastId, callVars, runJob>>

CallUnscheduleJob(p) ==
    /\ callPc[p] = "idle"
    /\ Unschedule(JobOf[p])
    /\ UNCHANGED <<lastId, callVars, runVars>>

Next ==
    \/ \E p \in Callers :
        \/ ScheduleJob(p) \/ CheckScheduled(p) \/ AddFunc(p) \/ AddFuncFails(p)
        \/ SetEntryID(p) \/ StartLater(p) \/ CallUnscheduleJob(p)
        \/ \E r \in Runners : StartNow(p, r)
    \/ \E r \in Runners :
        \/ \E e \in entries : Tick(e, r)
        \/ \E continue \in BOOLEAN : RunReturns(r, continue)
        \/ UnscheduleJob(r)

Spec == Init /\ [][Next]_vars

-----------------------------------------------------------------------------
\* Type invariant of the scheduler.
TypeOK ==
    /\ jobs \in [JobIds -> 0..lastId] /\ lastId \in Nat
    /\ entries \subseteq (1..lastId) \X JobIds
    /\ callPc \in [Callers -> {"idle", "check", "add", "set", "start"}]
    /\ callEntry \in [Callers -> 0..lastId] /\ calls \in [Callers -> 0..MaxCalls]
    /\ runPc \in [Runners -> {"idle", "run", "unschedule"}]
    /\ runJob \in [Runners -> JobIds]
    /\ stopped \subseteq JobIds

\* s.jobs, the only way to remove a cron entry, names every one of them (or the
\* ScheduleJob() call that added it is about to say so): a job that is scheduled
\* concurrently with others, stopped and scheduled again never leaves an entry
\* behind that nobody can remove.
EntriesAreKnown ==
    \A e \in entries :
        jobs[e[2]] = e[1] \/ \E p \in Callers : callPc[p] = "set" /\ callEntry[p] = e[1]

\* Run() returns "a bool stating if scheduler should continue or stop
\* scheduling": a job that said stop is not on the schedule any more, unless it
\* was scheduled anew.  A stop between AddFunc() and the recording of the entry is
\* the only one that is lost.
StopIsHeeded ==
    \A e \in entries : e[2] \notin stopped
=============================================================================
