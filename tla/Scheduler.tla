----------------------------- MODULE Scheduler -----------------------------
(***************************************************************************)
(* The periodic jobs (core/src/scheduler.rs): a registry of jobs, each with *)
(* a tokio task that sleeps until its time and runs the job's callback; the *)
(* registry built anew on every change of the configuration (app_state.rs); *)
(* jobs that WASM guests add at the start (wasm/mod.rs); and runs that      *)
(* admins ask for (admin/jobs/run_job.rs).                                  *)
(*                                                                          *)
(* A registry is reference counted.  AppState refers to the current one and *)
(* each admin's run to the one it found; when the last reference goes, the  *)
(* destructor aborts the tasks of its jobs.  Registries are named by the    *)
(* order in which they are built.  Schedules are left out: a sleeping task  *)
(* may wake at any time.                                                    *)
(***************************************************************************)
EXTENDS Naturals

CONSTANTS
  SystemJobs,  \* the ids build_job_registry_from_config lists
  GuestJobs,   \* those guests announce
  Admins,      \* each asks for one run at a time
  MaxUpdates,  \* bound: changes of the configuration
  NoRun

Jobs == SystemJobs \cup GuestJobs
Registries == 0..MaxUpdates

ASSUME SchedulerAssumption ==
  /\ SystemJobs \cap GuestJobs = {}
  /\ MaxUpdates \in Nat
  /\ NoRun \notin Registries \X Jobs

VARIABLES
  serving,  \* the guests' jobs are installed
  config,   \* system jobs that are not disabled
  current,  \* the registry AppState refers to
  built,    \* the registry built last
  jobs,     \* the entries of each registry
  task,     \* per registry and job: the task Job.start spawned
  aborted,  \* tasks whose abort handle was used
  run       \* per admin: the registry and the job of run_job_handler, or NoRun

schedulerVars == <<serving, config, current, built, jobs, task, aborted, run>>

TaskStates == {"none", "asleep", "running", "ended"}

Holds(a, r) == \E j \in Jobs : run[a] = <<r, j>>
Held(r) == \E a \in Admins : Holds(a, r)
Scheduled(r, j) == task[r][j] \in {"asleep", "running"} /\ <<r, j>> \notin aborted

SchedulerInit ==
  /\ serving = FALSE
  /\ config \in SUBSET SystemJobs
  /\ current = 0 /\ built = 0
  /\ jobs = [r \in Registries |-> IF r = 0 THEN SystemJobs ELSE {}]
  /\ task = [r \in Registries |-> [j \in Jobs |->
               IF r = 0 /\ j \in config THEN "asleep" ELSE "none"]]
  /\ aborted = {}
  /\ run = [a \in Admins |-> NoRun]

-----------------------------------------------------------------------------
(* Registries.                                                             *)

StopSleepers(r) == {r} \X {j \in jobs[r] : task[r][j] = "asleep"}

\* JobRegistry's destructor stops every job that was started.
Stop(r) == {r} \X {j \in jobs[r] : task[r][j] # "none"}

\* Registry r has lost a reference; others says whether some are left.
Release(r, others) == aborted' = aborted \cup (IF others THEN {} ELSE Stop(r))

\* At the start, before requests are served: new_job and start for a job that
\* a guest announces, in the registry AppState has.
InstallJob(g) ==
  /\ ~serving /\ g \notin jobs[current]
  /\ jobs' = [jobs EXCEPT ![current] = @ \cup {g}]
  /\ task' = [task EXCEPT ![current][g] = "asleep"]
  /\ UNCHANGED <<serving, config, current, built, aborted, run>>

Serve ==
  /\ ~serving /\ GuestJobs \subseteq jobs[current]
  /\ serving' = TRUE
  /\ UNCHANGED <<config, current, built, jobs, task, aborted, run>>

\* The configuration changes, in this part or in another, and its observer
\* builds a registry from it, whose jobs start as they are built.  Observers
\* run under a lock: one registry is built at a time.
Build(c) ==
  /\ serving /\ built = current /\ built < MaxUpdates
  /\ config' = c
  /\ built' = built + 1
  /\ jobs' = [jobs EXCEPT ![built + 1] = SystemJobs]
  /\ task' = [task EXCEPT ![built + 1] =
                [j \in Jobs |-> IF j \in c THEN "asleep" ELSE "none"]]
  /\ UNCHANGED <<serving, current, aborted, run>>

\* AppState refers to the new registry and no longer to the old one.
Swap ==
  /\ built # current
  /\ current' = built
  /\ Release(current, Held(current))
  /\ UNCHANGED <<serving, config, built, jobs, task, run>>

-----------------------------------------------------------------------------
(* Tasks.                                                                  *)

\* The time has come: run_now.
Tick(r, j) ==
  /\ task[r][j] = "asleep" /\ <<r, j>> \notin aborted
  /\ task' = [task EXCEPT ![r][j] = "running"]
  /\ UNCHANGED <<serving, config, current, built, jobs, aborted, run>>

\* The callback ends, well or not, and the task sleeps again.  An abort comes
\* too late for a task that is being polled, until it waits again.
CallbackEnds(r, j) ==
  /\ task[r][j] = "running"
  /\ task' = [task EXCEPT ![r][j] = "asleep"]
  /\ UNCHANGED <<serving, config, current, built, jobs, aborted, run>>

\* The runtime drops an aborted task where it waits.
Drop(r, j) ==
  /\ <<r, j>> \in aborted /\ task[r][j] # "ended"
  /\ task' = [task EXCEPT ![r][j] = "ended"]
  /\ UNCHANGED <<serving, config, current, built, jobs, aborted, run>>

-----------------------------------------------------------------------------
(* Admins.                                                                 *)

\* run_job_handler refers to the registry from here until the run has ended.
\* Without an entry the answer is an error and nothing changes.
RunJob(a, j) ==
  /\ serving /\ run[a] = NoRun /\ j \in jobs[current]
  /\ run' = [run EXCEPT ![a] = <<current, j>>]
  /\ UNCHANGED <<serving, config, current, built, jobs, task, aborted>>

RunEndsUnreleased(a, j) ==
  /\ run[a] # NoRun /\ run[a][2] = j
  /\ run' = [run EXCEPT ![a] = NoRun]
  /\ UNCHANGED <<serving, config, current, built, jobs, task, aborted>>

RunEndsReleasing(a, j) ==
  /\ run[a] # NoRun /\ run[a][2] = j
  /\ run' = [run EXCEPT ![a] = NoRun]
  /\ LET r == run[a][1] IN Release(r, \E b \in Admins \ {a} : Holds(b, r))
  /\ UNCHANGED <<serving, config, current, built, jobs, task>>

\* The run ends, or the admin's request is cancelled.
RunEnds(a, j) ==
  /\ run[a] # NoRun /\ run[a][2] = j
  /\ run' = [run EXCEPT ![a] = NoRun]
  /\ LET r == run[a][1] IN
     Release(r, r = current \/ \E b \in Admins \ {a} : Holds(b, r))
  /\ UNCHANGED <<serving, config, current, built, jobs, task>>

-----------------------------------------------------------------------------
SchedulerNext ==
  \/ \E g \in GuestJobs : InstallJob(g)
  \/ Serve
  \/ \E c \in SUBSET SystemJobs : Build(c)
  \/ Swap
  \/ \E r \in Registries, j \in Jobs : Tick(r, j) \/ CallbackEnds(r, j) \/ Drop(r, j)
  \/ \E a \in Admins, j \in Jobs : RunJob(a, j) \/ RunEnds(a, j)

SchedulerSpec == SchedulerInit /\ [][SchedulerNext]_schedulerVars

\* Timers fire, the runtime drops what is aborted, an observer goes on, and
\* the callbacks of system jobs, which are statements on the databases, end.
\* Nothing is promised of the callbacks of guests.
Fairness ==
  /\ WF_schedulerVars(Swap)
  /\ \A r \in Registries, j \in Jobs :
       WF_schedulerVars(Tick(r, j)) /\ WF_schedulerVars(Drop(r, j))
  /\ \A r \in Registries, j \in SystemJobs : WF_schedulerVars(CallbackEnds(r, j))
  /\ \A a \in Admins, j \in SystemJobs : WF_schedulerVars(RunEnds(a, j))

LiveSchedulerSpec == SchedulerSpec /\ Fairness

-----------------------------------------------------------------------------
(* Properties.                                                             *)

\* The variables have their types, and only tasks that were started are aborted.
SchedulerTypeOK ==
  /\ serving \in BOOLEAN
  /\ config \subseteq SystemJobs
  /\ current \in Registries /\ built \in Registries
  /\ jobs \in [Registries -> SUBSET Jobs]
  /\ task \in [Registries -> [Jobs -> TaskStates]]
  /\ aborted \subseteq {p \in Registries \X Jobs : task[p[1]][p[2]] # "none"}
  /\ run \in [Admins -> (Registries \X Jobs) \cup {NoRun}]

\* A job has two tasks by schedule only while its registry is being exchanged
\* for the next, or while an admin's run still refers to the older one.
ScheduledOnce ==
  \A r, s \in Registries, j \in Jobs :
    r < s /\ Scheduled(r, j) /\ Scheduled(s, j) => r = current \/ Held(r)

\* The tasks of a registry that was replaced end, unless a guest's job that an
\* admin started from it does not.
OldTasksEnd ==
  \A r \in Registries :
    r < current ~> \/ \A j \in Jobs : task[r][j] \in {"none", "ended"}
                   \/ \E a \in Admins, g \in GuestJobs : run[a] = <<r, g>>

\* An enabled system job is run, however often and however long the
\* configuration changes and admins run jobs themselves.
EnabledJobsRun ==
  \A j \in SystemJobs :
    serving /\ j \in config ~> j \notin config \/ task[current][j] = "running"
=============================================================================
