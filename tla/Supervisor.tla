----------------------------- MODULE Supervisor ------------------------------
(***************************************************************************)
(* The beta runtime: the web process (beta/runtime_manager.py) starts,     *)
(* adopts, reloads and stops detached supervisor processes                 *)
(* (beta/supervisor_process.py), which claim the lock of ProcessLock, run  *)
(* jobs in cycles and record them in the beta database                     *)
(* (beta/services/runtime_service.py).                                     *)
(*                                                                         *)
(* A transaction on the beta database is one step.  A supervisor may be    *)
(* killed at any moment and the web process may go down at any moment but  *)
(* while a supervisor it started is still claiming its lock: restarting    *)
(* the web application takes longer than that.  On POSIX, SIGTERM is a     *)
(* request; on Windows it ends the process, which is a kill.               *)
(***************************************************************************)
EXTENDS ProcessLock, Naturals, Sequences

CONSTANTS MaxJobs,       \* bound: the job runs ever recorded
          MaxErrors      \* bound: the database or process calls that fail

ASSUME BoundAssumption == MaxJobs \in Nat /\ MaxErrors \in Nat

VARIABLES doing,         \* doing[p]: where supervisor p is in main()
          stop,          \* the supervisors whose _STOP_EVENT is set
          jobs,          \* beta_job_runs: who runs the job, and its status
          row,           \* beta_system_status: supervisor_status, supervisor_pid
          web,           \* the web process: runtime_manager.py and state.py
          errors         \* the calls that have failed so far

vars == <<lockVars, doing, stop, jobs, row, web, errors>>
lockRest == <<path, written, seen>>

Report(status, pid) == [status |-> status, pid |-> pid]

\* The web process, with no handle on a supervisor and the defaults of state.py:
\* whether the portfolio database is locked, whether the beta database is open
\* (get_beta_db_path), and what it is in the middle of.
FreshWeb(phase, locked, open) ==
    [phase |-> phase, locked |-> locked, open |-> open, handle |-> NoPid,
     child |-> NoPid, after |-> "stay", report |-> Report("stopped", NoPid)]

Init ==
    /\ LockInit
    /\ doing = [p \in Pids |-> "boot"]
    /\ stop = {}
    /\ jobs = << >>
    /\ row = Report("stopped", NoPid)
    /\ web = FreshWeb("down", TRUE, FALSE)
    /\ errors = 0

\* One call more fails.
Fails == errors < MaxErrors /\ errors' = errors + 1

Live(p) == p # NoPid /\ Alive(p)

-----------------------------------------------------------------------------
(* The supervisor: main(), _run_supervisor_cycle, _run_job *)

Running(p, where) == at[p] = "held" /\ doing[p] = where
Do(p, where) == doing' = [doing EXCEPT ![p] = where]

\* Mutant: the jobs of the supervisor itself are the only ones looked at.
SettledNone(js) == js

\* Mutant: every row is rewritten, not the RUNNING ones only.
SettledAll(js) ==
    [i \in DOMAIN js |-> [js[i] EXCEPT !.status = "INTERRUPTED"]]

\* finalize_running_jobs: every RUNNING row, whoever wrote it, is INTERRUPTED.
Settled(js) ==
    [i \in DOMAIN js |->
        IF js[i].status = "RUNNING" THEN [js[i] EXCEPT !.status = "INTERRUPTED"]
        ELSE js[i]]

\* The lock is held: handlers, database, settings, and the rows a predecessor left.
Boot(p) ==
    /\ Running(p, "boot")
    /\ jobs' = Settled(jobs)
    /\ Do(p, "idle")
    /\ UNCHANGED <<lockVars, stop, row, web, errors>>

\* Before the settings are loaded the lock is released at once; after that the
\* finally clause reports the end.
BootFails(p) ==
    /\ Running(p, "boot")
    /\ Fails
    /\ \/ Leave(p) /\ UNCHANGED <<jobs, doing>>
       \/ jobs' \in {jobs, Settled(jobs)} /\ Do(p, "stopping") /\ UNCHANGED lockVars
    /\ UNCHANGED <<stop, row, web>>

\* Mutant: the loop beats only once it has a job to run.
LoopSilent(p) ==
    /\ Running(p, "idle")
    /\ Do(p, IF p \in stop THEN "stopping" ELSE "cycle")
    /\ UNCHANGED <<lockVars, row, stop, jobs, web, errors>>

\* Mutant: the loop sleeps instead of waiting for the stop event.
LoopDeaf(p) ==
    /\ Running(p, "idle")
    /\ Do(p, "cycle")
    /\ row' = Report("running", p)
    /\ UNCHANGED <<lockVars, stop, jobs, web, errors>>

\* while not _STOP_EVENT.wait(15), and the heartbeat that opens the cycle.
Loop(p) ==
    /\ Running(p, "idle")
    /\ IF p \in stop
       THEN Do(p, "stopping") /\ UNCHANGED row
       ELSE Do(p, "cycle") /\ row' = Report("running", p)
    /\ UNCHANGED <<lockVars, stop, jobs, web, errors>>

\* Mutant: the job runs before its row is written.
StartJobUnrecorded(p) ==
    /\ Running(p, "cycle")
    /\ Len(jobs) < MaxJobs
    /\ row' = Report("running", p)
    /\ Do(p, "job")
    /\ UNCHANGED <<lockVars, stop, jobs, web, errors>>

StartJob(p) ==
    /\ Running(p, "cycle")
    /\ Len(jobs) < MaxJobs
    /\ jobs' = Append(jobs, [by |-> p, status |-> "RUNNING"])
    /\ row' = Report("running", p)
    /\ Do(p, "job")
    /\ UNCHANGED <<lockVars, stop, web, errors>>

\* The row start_job_run returned: p's latest.
JobOf(p) ==
    CHOOSE i \in DOMAIN jobs :
        jobs[i].by = p /\ \A j \in DOMAIN jobs : jobs[j].by = p => j <= i

\* finish_job_run, with the status the job asked for, or FAILED when it raised.
FinishJob(p) ==
    /\ Running(p, "job")
    /\ jobs' = [jobs EXCEPT ![JobOf(p)].status = "FINISHED"]
    /\ row' = Report("running", p)
    /\ Do(p, "cycle")
    /\ UNCHANGED <<lockVars, stop, web, errors>>

EndCycle(p) ==
    /\ Running(p, "cycle")
    /\ Do(p, "idle")
    /\ UNCHANGED <<lockVars, stop, jobs, row, web, errors>>

\* An exception in the cycle.  A supervisor asked to stop leaves the loop with its
\* job as it is; another settles the RUNNING rows, unless that fails too, and
\* reports that it runs, unless that fails too (_record_cycle_exception).
CycleFails(p) ==
    /\ \/ Running(p, "cycle") \/ Running(p, "job")
       \/ Running(p, "idle") /\ p \notin stop
    /\ Fails
    /\ IF p \in stop
       THEN Do(p, "stopping") /\ UNCHANGED <<jobs, row>>
       ELSE /\ jobs' \in {jobs, Settled(jobs)}
            /\ row' \in {row, Report("running", p)}
            /\ Do(p, "idle")
    /\ UNCHANGED <<lockVars, stop, web>>

\* The finally clause: the supervisor's own pid stays in the row (sync_system_status
\* puts it in place of None), and the lock is released also when the report fails.
Finish(p) ==
    /\ Running(p, "stopping")
    /\ \/ row' = Report("stopped", p) /\ UNCHANGED errors
       \/ Fails /\ UNCHANGED row
    /\ Leave(p)
    /\ UNCHANGED <<doing, stop, jobs, web>>

\* The steps of the lock.
Claim(p) ==
    /\ Acquire(p) \/ GiveBack(p)
    /\ UNCHANGED <<doing, stop, jobs, row, web, errors>>

Crash(p) ==
    /\ Kill(p)
    /\ UNCHANGED <<doing, stop, jobs, row, web, errors>>

\* SIGTERM ends a process that has not yet installed its handler, and sets the stop
\* event of any other.
SigTerm(p) ==
    \/ /\ at[p] \in Claiming \/ doing[p] = "boot"
       /\ Kill(p)
       /\ UNCHANGED stop
    \/ /\ at[p] \in Having
       /\ stop' = stop \cup {p}
       /\ UNCHANGED lockVars

-----------------------------------------------------------------------------
(* The web process: initialize, _start_supervisor, reload and shutdown *)

\* sync_system_status without arguments writes what state.py remembers.
SyncRow == row' = web.report

\* Bounds the model: a start finds a pid that was not used yet.
CanLaunch == \E p \in Pids : at[p] = "new"

\* The application starts; with the credentials in its environment it unlocks at once.
WebUp ==
    /\ web.phase = "down"
    /\ web' = FreshWeb("idle", TRUE, FALSE)
    /\ UNCHANGED <<lockVars, doing, stop, jobs, row, errors>>

\* The portfolio database is unlocked; unlocking an unlocked one does nothing.
Unlock ==
    /\ web.phase = "idle" /\ web.locked
    /\ CanLaunch
    /\ web' = [web EXCEPT !.phase = "init", !.locked = FALSE]
    /\ UNCHANGED <<lockVars, doing, stop, jobs, row, errors>>

\* Unlocked, but nothing of the beta runtime is open.
Bare == web.phase = "idle" /\ ~web.locked /\ ~web.open

\* A page opens the beta database and starts nothing (_ensure_beta_ready).
PageLoad ==
    /\ Bare
    /\ SyncRow
    /\ web' = [web EXCEPT !.open = TRUE]
    /\ UNCHANGED <<lockVars, doing, stop, jobs, errors>>

\* A supervisor has the lock; what is reported of it comes later.
FindOther ==
    /\ web.phase = "init"
    /\ ActivePid # NoPid
    /\ SyncRow
    /\ web' = [web EXCEPT !.phase = "adopt", !.open = TRUE,
                          !.child = ActivePid]
    /\ UNCHANGED <<lockVars, doing, stop, jobs, errors>>

Adopt ==
    /\ web.phase = "adopt"
    /\ row' = Report("running", web.child)
    /\ web' = [web EXCEPT !.phase = "idle", !.child = NoPid,
                          !.report = Report("running", web.child)]
    /\ UNCHANGED <<lockVars, doing, stop, jobs, errors>>

Popen(p) ==
    /\ web.phase = "init"
    /\ ActivePid = NoPid
    /\ at[p] = "new"
    /\ GoTo(p, "look")
    /\ SyncRow
    /\ web' = [web EXCEPT !.phase = "started", !.open = TRUE, !.child = p]
    /\ UNCHANGED <<lockRest, doing, stop, jobs, errors>>

PopenFails ==
    /\ web.phase = "init"
    /\ ActivePid = NoPid
    /\ Fails
    /\ row' = Report("error", web.report.pid)
    /\ web' = [web EXCEPT !.phase = "idle", !.open = TRUE, !.report = row']
    /\ UNCHANGED <<lockVars, doing, stop, jobs>>

\* Mutant: the handle is kept once the child is seen to have the lock.
HandleOfOwner == IF ActivePid = web.child THEN web.child ELSE NoPid

\* The handle after the 0.4 seconds of sleep.
HandleAfterSleep == IF Alive(web.child) THEN web.child ELSE NoPid

\* What is reported then: whoever has the lock, or the child still on its way to
\* it, or that the child is gone.
ReportAfterSleep ==
    IF ActivePid # NoPid THEN Report("running", ActivePid)
    ELSE IF Alive(web.child) THEN Report("running", web.child)
    ELSE Report("error", web.report.pid)

AfterSleep ==
    /\ web.phase = "started"
    /\ row' = ReportAfterSleep
    /\ web' = [web EXCEPT !.phase = "idle", !.child = NoPid,
                          !.handle = IF row'.status = "error" THEN @
                                     ELSE HandleAfterSleep,
                          !.report = row']
    /\ UNCHANGED <<lockVars, doing, stop, jobs, errors>>

\* _stop_supervisor_process, first half: ask the process this one started.
StopOwn(handle, after, open) ==
    /\ web' = [web EXCEPT !.phase = IF Live(handle) THEN "stopping" ELSE "sweep",
                          !.handle = handle, !.child = NoPid, !.after = after,
                          !.open = open]
    /\ IF Live(handle) THEN SigTerm(handle) ELSE UNCHANGED <<lockVars, stop>>

\* The reload of the control page (reload_beta_runtime).
Reload ==
    /\ web.phase = "idle" /\ ~web.locked /\ web.open
    /\ CanLaunch
    /\ StopOwn(web.handle, "start", TRUE)
    /\ UNCHANGED <<doing, jobs, row, errors>>

\* The portfolio database is locked, also when it already is.
Lock ==
    /\ web.phase = "idle"
    /\ StopOwn(web.handle, "lock", web.open)
    /\ UNCHANGED <<doing, jobs, row, errors>>

\* An exception during the start, or while a page opens the beta database, shuts the
\* runtime down, the beta database being open by then or not.
InitializeFails ==
    /\ web.phase \in {"init", "adopt", "started"} \/ Bare
    /\ Fails
    /\ \E open \in {web.open, TRUE} :
        StopOwn(IF web.phase = "started" THEN HandleAfterSleep ELSE web.handle,
                "stay", open)
    /\ UNCHANGED <<doing, jobs, row>>

\* Mutant: the wait ends after five seconds and the process is left to itself.
WaitOwnNoKill ==
    /\ web.phase = "stopping"
    /\ web' = [web EXCEPT !.phase = "sweep"]
    /\ UNCHANGED <<lockVars, doing, stop, jobs, row, errors>>

\* process.wait(timeout=5), and process.kill() when it is too long.
WaitOwn ==
    /\ web.phase = "stopping"
    /\ IF Alive(web.handle) THEN Kill(web.handle) ELSE UNCHANGED lockVars
    /\ web' = [web EXCEPT !.phase = "sweep"]
    /\ UNCHANGED <<doing, stop, jobs, row, errors>>

\* Second half: ask whoever has the lock, without waiting, and report the stop when
\* the beta database is open.  When that fails the caller goes no further.
Sweep ==
    /\ web.phase = "sweep"
    /\ IF ActivePid # NoPid THEN SigTerm(ActivePid) ELSE UNCHANGED <<lockVars, stop>>
    /\ \/ /\ row' = IF web.open THEN Report("stopped", NoPid) ELSE row
          /\ web' = FreshWeb(IF web.after = "start" THEN "init" ELSE "idle",
                             web.locked \/ web.after = "lock", FALSE)
          /\ UNCHANGED errors
       \/ /\ web.open
          /\ Fails
          /\ web' = FreshWeb("idle", web.locked, TRUE)
          /\ UNCHANGED row
    /\ UNCHANGED <<doing, jobs>>

\* The web process ends; the supervisors are detached and stay.
WebDown ==
    /\ web.phase # "down"
    /\ Starting = {}
    /\ web' = FreshWeb("down", TRUE, FALSE)
    /\ UNCHANGED <<lockVars, doing, stop, jobs, row, errors>>

-----------------------------------------------------------------------------

SupervisorStep(p) ==
    Claim(p) \/ Boot(p) \/ Loop(p) \/ StartJob(p) \/ FinishJob(p) \/ EndCycle(p)
    \/ Finish(p)

SupervisorFault(p) == BootFails(p) \/ CycleFails(p) \/ Crash(p)

WebStep ==
    FindOther \/ Adopt \/ (\E p \in Pids : Popen(p)) \/ AfterSleep
    \/ WaitOwn \/ Sweep

\* What the user asks for, and what goes wrong.
WebEvent ==
    WebUp \/ Unlock \/ PageLoad \/ Reload \/ Lock \/ PopenFails \/ InitializeFails
    \/ WebDown

Next ==
    \/ \E p \in Pids : SupervisorStep(p) \/ SupervisorFault(p)
    \/ WebStep
    \/ WebEvent

\* Every process that is alive goes on with its program; a request once begun is
\* carried through.  Nobody has to ask for anything, and nothing has to fail.
Fairness ==
    /\ \A p \in Pids : WF_vars(SupervisorStep(p))
    /\ WF_vars(WebStep)

Spec == Init /\ [][Next]_vars /\ Fairness

-----------------------------------------------------------------------------
(* Properties *)

Phases == {"down", "idle", "init", "adopt", "started", "stopping", "sweep"}
Places == {"boot", "idle", "cycle", "job", "stopping"}
JobRun == [by : Pids, status : {"RUNNING", "FINISHED", "INTERRUPTED"}]
Reports == [status : {"stopped", "running", "error"}, pid : Pids \cup {NoPid}]
Webs == [phase : Phases, locked : BOOLEAN, open : BOOLEAN,
         handle : Pids \cup {NoPid}, child : Pids \cup {NoPid},
         after : {"stay", "start", "lock"}, report : Reports]

\* Types, and: a start always begins without a handle, so _start_supervisor never
\* returns at its first test (runtime_manager.py:251); a supervisor in a job has a
\* row for it.
TypeOK ==
    /\ doing \in [Pids -> Places]
    /\ stop \in SUBSET Pids
    /\ jobs \in Seq(JobRun)
    /\ row \in Reports
    /\ web \in Webs
    /\ errors \in 0 .. MaxErrors
    /\ web.phase = "stopping" => web.handle # NoPid
    /\ web.phase \in {"init", "adopt", "started"} => web.handle = NoPid
    /\ \A p \in Pids : doing[p] = "job" => \E i \in DOMAIN jobs : jobs[i].by = p

\* A RUNNING row belongs to the supervisor that is now at work: whatever a killed or
\* failed predecessor left RUNNING was settled before its successor's first cycle.
RunningJobHasOwner ==
    \A p \in Holding : doing[p] \in {"idle", "cycle", "job"} =>
        \A i \in DOMAIN jobs : jobs[i].status = "RUNNING" => jobs[i].by = p

\* The record of a job is written once: no supervisor settles a job that another
\* has finished, and none finishes a job that another has declared INTERRUPTED.
JobsSettleOnce ==
    [][\A i \in DOMAIN jobs : jobs[i].status # "RUNNING" => jobs'[i] = jobs[i]]_jobs

\* A supervisor told to stop ends: in the middle of a cycle, of a failure, of a
\* report that cannot be written.
StopEnds == \A p \in Pids : p \in stop ~> ~Alive(p)

\* The status row cannot stay wrong: as long as a supervisor runs, unasked to stop,
\* the row keeps coming back to it, whatever a web process wrote there.
StatusRecovers ==
    \A p \in Pids :
        <>[](at[p] = "held" /\ p \notin stop) => []<>(row = Report("running", p))

\* Somebody runs who was not told to stop; or since e failures there was one more, or
\* the web process has ended or been told to stop the runtime.
Restarted(e) ==
    \/ \E p \in Pids : Alive(p) /\ p \notin stop
    \/ web.phase \in {"stopping", "sweep"} /\ web.after # "start"
    \/ web.phase = "down"
    \/ errors > e

\* A reload that stops the supervisor this web process started brings one back, even
\* when that supervisor does not end in time or the next one meets its lock file.
ReloadOfOwnRestarts ==
    \A e \in 0 .. MaxErrors :
        web.phase = "stopping" /\ web.after = "start" /\ errors = e ~> Restarted(e)

-----------------------------------------------------------------------------
(* The inductive invariant behind the theorems *)

\* The web process knows of every supervisor that is still claiming its lock: it is
\* the child it sleeps for, or the one it has the handle of.
LauncherKnowsStart ==
    \A p \in Starting :
        \/ web.phase = "started" /\ web.child = p
        \/ web.phase \in {"idle", "stopping"} /\ web.handle = p

\* While the portfolio database is locked the web process has no supervisor of its own
\* and starts none.
LockedIsIdle ==
    web.locked =>
        /\ web.handle = NoPid
        /\ \/ web.phase \in {"down", "idle"}
           \/ web.phase = "sweep" /\ web.after = "lock"

\* A process that does not have the lock yet has not begun its program.
LockBeforeBoot ==
    \A p \in Pids : at[p] \in Claiming \cup {"new"} => doing[p] = "boot"

SupInv ==
    /\ TypeOK /\ LockInv /\ LockedIsIdle
    /\ LauncherKnowsStart /\ LockBeforeBoot /\ RunningJobHasOwner

\* The job a supervisor is in has its latest row, and that is still RUNNING.
JobInProgress ==
    \A p \in Pids : at[p] = "held" /\ doing[p] = "job" =>
        \E i \in DOMAIN jobs :
            /\ jobs[i].by = p /\ jobs[i].status = "RUNNING"
            /\ \A j \in DOMAIN jobs : jobs[j].by = p => j <= i

==============================================================================
