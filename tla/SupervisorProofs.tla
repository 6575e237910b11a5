--------------------------- MODULE SupervisorProofs ---------------------------
(***************************************************************************)
(* Proofs about ProcessLock and Supervisor, for any set of processes and   *)
(* any bounds: the runtime uses the lock without overlapping starts, hence *)
(* one supervisor at a time has it, and the RUNNING rows belong to it.     *)
(***************************************************************************)
EXTENDS Supervisor, SequenceTheorems, TLAPS

-----------------------------------------------------------------------------
(* The process lock, for any set of processes *)

\* The invariant holds before anything is started.
LEMMA LockInitInv == LockInit => LockInv
BY LockAssumption DEF LockInit, LockInv, LockTypeOK, HolderOwnsFile,
   StartKnowsHolder, LockSteps, Claiming, Having, Claimless, Starting, Holding

\* Every step of the protocol keeps the invariant when starts do not overlap.
LEMMA LockStepInv ==
  ASSUME OneAtATime, LockInv, [LockNext]_lockVars
  PROVE  LockInv'
<1> USE LockAssumption DEF LockInv, LockTypeOK, HolderOwnsFile, StartKnowsHolder,
        LockSteps, Claiming, Having, Claimless, Starting, Holding, GoTo
<1>1. CASE UNCHANGED lockVars
  BY <1>1 DEF lockVars
<1>2. ASSUME NEW p \in Pids, Launch(p) PROVE LockInv'
  BY <1>2 DEF Launch
<1>3. ASSUME NEW p \in Pids, Look(p) PROVE LockInv'
  BY <1>3 DEF Look
<1>4. ASSUME NEW p \in Pids, Read(p) PROVE LockInv'
  BY <1>4 DEF Read, Payload
<1>5. ASSUME NEW p \in Pids, Check(p) PROVE LockInv'
  BY <1>5 DEF Check, Blocks, Alive
<1>6. ASSUME NEW p \in Pids, Unlink(p) PROVE LockInv'
  BY <1>6 DEF Unlink
<1>7. ASSUME NEW p \in Pids, Create(p) PROVE LockInv'
  BY <1>7 DEF Create
<1>8. ASSUME NEW p \in Pids, Write(p) PROVE LockInv'
  BY <1>8 DEF Write
<1>9. ASSUME NEW p \in Pids, Leave(p) PROVE LockInv'
  BY <1>9 DEF Leave
<1>10. ASSUME NEW p \in Pids, Release(p) PROVE LockInv'
  BY <1>10 DEF Release
<1>11. ASSUME NEW p \in Pids, Reread(p) PROVE LockInv'
  BY <1>11 DEF Reread, Payload
<1>12. ASSUME NEW p \in Pids, Remove(p) PROVE LockInv'
  BY <1>12 DEF Remove
<1>13. ASSUME NEW p \in Pids, Kill(p) PROVE LockInv'
  BY <1>13 DEF Kill, Alive
<1> QED
  BY <1>1, <1>2, <1>3, <1>4, <1>5, <1>6, <1>7, <1>8, <1>9, <1>10, <1>11, <1>12,
     <1>13 DEF LockNext, Acquire, GiveBack

\* acquire_process_lock lets in one process at a time, whatever is killed and
\* whatever stale files are met, as long as no two starts overlap.
THEOREM LockSingleInstance ==
  ASSUME OneAtATime
  PROVE  LockSpec => []OneHolder
<1>1. LockInv => OneHolder
  BY DEF LockInv, HolderOwnsFile, OneHolder, Holding
<1> QED
  BY <1>1, LockInitInv, LockStepInv, PTL DEF LockSpec

\* Under the same assumption nobody unlinks or replaces the file of the process
\* that has the lock.
THEOREM LockFileKept ==
  ASSUME OneAtATime
  PROVE  LockSpec => []HolderOwnsFile
<1>1. LockInv => HolderOwnsFile
  BY DEF LockInv
<1> QED
  BY <1>1, LockInitInv, LockStepInv, PTL DEF LockSpec

\* The tables keep their types and no file precedes its owner, also when starts
\* overlap.
THEOREM LockTypes == LockSpec => []LockTypeOK
<1> USE LockAssumption DEF LockTypeOK, LockSteps, Claiming, Having, Claimless, GoTo
<1>1. LockInit => LockTypeOK
  BY DEF LockInit
<1>2. LockTypeOK /\ [LockNext]_lockVars => LockTypeOK'
  <2> SUFFICES ASSUME LockTypeOK, [LockNext]_lockVars
               PROVE  LockTypeOK'
    OBVIOUS
  <2>1. CASE UNCHANGED lockVars
    BY <2>1 DEF lockVars
  <2>2. ASSUME NEW p \in Pids, Launch(p) PROVE LockTypeOK'
    BY <2>2 DEF Launch
  <2>3. ASSUME NEW p \in Pids, Look(p) PROVE LockTypeOK'
    BY <2>3 DEF Look
  <2>4. ASSUME NEW p \in Pids, Read(p) PROVE LockTypeOK'
    BY <2>4 DEF Read, Payload
  <2>5. ASSUME NEW p \in Pids, Check(p) PROVE LockTypeOK'
    BY <2>5 DEF Check
  <2>6. ASSUME NEW p \in Pids, Unlink(p) PROVE LockTypeOK'
    BY <2>6 DEF Unlink
  <2>7. ASSUME NEW p \in Pids, Create(p) PROVE LockTypeOK'
    BY <2>7 DEF Create
  <2>8. ASSUME NEW p \in Pids, Write(p) PROVE LockTypeOK'
    BY <2>8 DEF Write
  <2>9. ASSUME NEW p \in Pids, Leave(p) PROVE LockTypeOK'
    BY <2>9 DEF Leave
  <2>10. ASSUME NEW p \in Pids, Release(p) PROVE LockTypeOK'
    BY <2>10 DEF Release
  <2>11. ASSUME NEW p \in Pids, Reread(p) PROVE LockTypeOK'
    BY <2>11 DEF Reread
  <2>12. ASSUME NEW p \in Pids, Remove(p) PROVE LockTypeOK'
    BY <2>12 DEF Remove
  <2>13. ASSUME NEW p \in Pids, Kill(p) PROVE LockTypeOK'
    BY <2>13 DEF Kill, Alive
  <2> QED
    BY <2>1, <2>2, <2>3, <2>4, <2>5, <2>6, <2>7, <2>8, <2>9, <2>10,
       <2>11, <2>12, <2>13
    DEF LockNext, Acquire, GiveBack
<1> QED
  BY <1>1, <1>2, PTL DEF LockSpec

-----------------------------------------------------------------------------
(* The supervisor *)

\* What the lock sees of a SIGTERM is a kill or nothing.
LEMMA SigTermLock ==
  ASSUME NEW p, SigTerm(p)
  PROVE  Kill(p) \/ UNCHANGED lockVars
BY DEF SigTerm

\* An active pid is that of a process.
LEMMA ActivePidType ==
  ASSUME LockTypeOK
  PROVE  ActivePid \in Pids \cup {NoPid}
BY DEF LockTypeOK, ActivePid, Payload

\* StopOwn touches the lock by a kill of the handle at most.
LEMMA StopOwnLock ==
  ASSUME NEW handle, NEW after, NEW open, StopOwn(handle, after, open)
  PROVE  (Live(handle) /\ Kill(handle)) \/ UNCHANGED lockVars
BY SigTermLock DEF StopOwn

\* A start begins only when no other is under way.
LEMMA StartAlone ==
  ASSUME LauncherKnowsStart, web.phase \in {"init", "adopt", "sweep", "down"}
  PROVE  Starting = {}
BY DEF LauncherKnowsStart

\* Every step of the runtime is a step of the lock, or leaves it alone.
LEMMA StepOfLock ==
  ASSUME TypeOK, LockTypeOK, LauncherKnowsStart, [Next]_vars
  PROVE  [LockNext]_lockVars
<1>1. CASE UNCHANGED vars
  BY <1>1 DEF vars
<1>2. ASSUME NEW p \in Pids, SupervisorStep(p) PROVE [LockNext]_lockVars
  BY <1>2 DEF SupervisorStep, Claim, Boot, Loop, StartJob, FinishJob, EndCycle, Finish,
     LockNext
<1>3. ASSUME NEW p \in Pids, SupervisorFault(p) PROVE [LockNext]_lockVars
  BY <1>3 DEF SupervisorFault, BootFails, CycleFails, Crash, LockNext
<1>4. ASSUME NEW p \in Pids, Popen(p) PROVE [LockNext]_lockVars
  <2>1. Starting = {}
    BY <1>4, StartAlone DEF Popen
  <2> QED
    BY <1>4, <2>1 DEF Popen, LockNext, Launch, lockRest
<1>5. CASE FindOther \/ Adopt \/ AfterSleep
  BY <1>5 DEF FindOther, Adopt, AfterSleep
<1>6. CASE WaitOwn
  BY <1>6 DEF WaitOwn, LockNext, TypeOK, Webs
<1>7. CASE Sweep
  <2>1. CASE ActivePid = NoPid
    BY <1>7, <2>1 DEF Sweep
  <2>2. CASE ActivePid # NoPid
    BY <1>7, <2>2, ActivePidType, SigTermLock DEF Sweep, LockNext
  <2> QED
    BY <2>1, <2>2
<1>8. CASE Reload \/ Lock \/ InitializeFails
  <2>1. PICK h \in Pids \cup {NoPid}, a \in {"stay", "start", "lock"}, o \in BOOLEAN :
          StopOwn(h, a, o)
    BY <1>8 DEF Reload, Lock, InitializeFails, TypeOK, Webs, HandleAfterSleep
  <2> QED
    BY <2>1, StopOwnLock DEF Live, LockNext
<1>9. CASE WebUp \/ Unlock \/ PageLoad \/ PopenFails \/ WebDown
  BY <1>9 DEF WebUp, Unlock, PageLoad, PopenFails, WebDown
<1> QED
  BY <1>1, <1>2, <1>3, <1>4, <1>5, <1>6, <1>7, <1>8, <1>9 DEF Next, WebStep, WebEvent

\* A step of the lock other than a launch starts nobody.
LEMMA NoNewStart ==
  ASSUME LockTypeOK,
         UNCHANGED lockVars
           \/ \E p \in Pids : Acquire(p) \/ Leave(p) \/ GiveBack(p) \/ Kill(p)
  PROVE  Starting' \subseteq Starting
<1> USE DEF Starting, Claiming, GoTo, LockTypeOK
<1>1. CASE UNCHANGED lockVars
  BY <1>1 DEF lockVars
<1>2. ASSUME NEW p \in Pids, Acquire(p) PROVE Starting' \subseteq Starting
  BY <1>2 DEF Acquire, Look, Read, Check, Unlink, Create, Write
<1>3. ASSUME NEW p \in Pids, Leave(p) \/ GiveBack(p) \/ Kill(p)
      PROVE  Starting' \subseteq Starting
  BY <1>3 DEF Leave, GiveBack, Release, Reread, Remove, Kill
<1> QED
  BY <1>1, <1>2, <1>3

\* Every step keeps the launcher informed.
LEMMA KnowsStep ==
  ASSUME TypeOK, LockTypeOK, LockedIsIdle, LauncherKnowsStart, [Next]_vars
  PROVE  LauncherKnowsStart'
<1> USE DEF LauncherKnowsStart
<1>1. CASE UNCHANGED vars
  BY <1>1 DEF vars, lockVars, Starting
<1>2. ASSUME NEW p \in Pids, SupervisorStep(p) \/ SupervisorFault(p)
      PROVE  LauncherKnowsStart'
  <2>1. Starting' \subseteq Starting
    BY <1>2, NoNewStart DEF SupervisorStep, SupervisorFault, Claim, Boot, Loop, StartJob,
       FinishJob, EndCycle, Finish, BootFails, CycleFails, Crash
  <2>2. UNCHANGED web
    BY <1>2 DEF SupervisorStep, SupervisorFault, Claim, Boot, Loop, StartJob,
       FinishJob, EndCycle, Finish, BootFails, CycleFails, Crash
  <2> QED
    BY <2>1, <2>2
<1>3. ASSUME NEW p \in Pids, Popen(p) PROVE LauncherKnowsStart'
  <2>1. Starting = {}
    BY <1>3, StartAlone DEF Popen
  <2>2. Starting' \subseteq {p}
    BY <1>3, <2>1 DEF Popen, Starting, GoTo, LockTypeOK
  <2>3. web'.phase = "started" /\ web'.child = p
    BY <1>3 DEF Popen, TypeOK, Webs
  <2> QED
    BY <2>2, <2>3
<1>4. CASE FindOther \/ Adopt \/ PopenFails \/ WebUp
  <2>1. Starting = {}
    BY <1>4, StartAlone DEF FindOther, Adopt, PopenFails, WebUp
  <2>2. Starting' = {}
    BY <1>4, <2>1 DEF FindOther, Adopt, PopenFails, WebUp, lockVars, Starting
  <2> QED
    BY <2>2
<1>5. CASE AfterSleep
  <2>1. Starting' = Starting
    BY <1>5 DEF AfterSleep, lockVars, Starting
  <2>2. ASSUME NEW p \in Starting PROVE web'.phase = "idle" /\ web'.handle = p
    <3>1. web.child = p /\ p \in Pids /\ Alive(p)
      BY <1>5, <2>2 DEF AfterSleep, Starting, Alive
    <3>2. HandleAfterSleep = p /\ ReportAfterSleep.status = "running"
      BY <3>1 DEF HandleAfterSleep, ReportAfterSleep, Report
    <3> QED
      BY <1>5, <3>2 DEF AfterSleep, TypeOK, Webs
  <2> QED
    BY <2>1, <2>2
<1>6. CASE WaitOwn
  <2>1. Starting' = {}
    BY <1>6 DEF WaitOwn, Starting, Alive, Kill, GoTo, LockTypeOK, Claiming, Having, lockVars
  <2> QED
    BY <2>1
<1>7. CASE Sweep
  <2>1. Starting = {}
    BY <1>7, StartAlone DEF Sweep
  <2>2. UNCHANGED lockVars \/ \E p \in Pids : Kill(p)
    BY <1>7, ActivePidType, SigTermLock DEF Sweep
  <2>3. Starting' \subseteq Starting
    BY <2>2, NoNewStart
  <2> QED
    BY <2>1, <2>3
<1>8. CASE Reload \/ Lock \/ InitializeFails
  <2>1. PICK h \in Pids \cup {NoPid}, a \in {"stay", "start", "lock"}, o \in BOOLEAN :
          /\ StopOwn(h, a, o)
          /\ web.phase = "idle" => h = web.handle
          /\ web.phase = "started" => h = HandleAfterSleep
    BY <1>8 DEF Reload, Lock, InitializeFails, TypeOK, Webs, HandleAfterSleep, Bare
  <2>2. web.phase \in {"idle", "init", "adopt", "started"}
    BY <1>8 DEF Reload, Lock, InitializeFails, Bare
  <2>3. Starting' \subseteq Starting
    BY <2>1, StopOwnLock, NoNewStart DEF Live
  <2>4. ASSUME NEW p \in Starting PROVE p = h /\ Live(p)
    <3>1. p \in Pids /\ Alive(p)
      BY <2>4 DEF Starting, Alive
    <3>2. p = h
      BY <2>1, <2>2, <2>4, <3>1 DEF HandleAfterSleep
    <3> QED
      BY <3>1, <3>2, LockAssumption DEF Live
  <2> QED
    BY <2>1, <2>3, <2>4 DEF StopOwn, TypeOK, Webs
<1>9. CASE Unlock
  <2>1. Starting = {}
    BY <1>9, LockAssumption DEF Unlock, LockedIsIdle, Starting
  <2> QED
    BY <1>9, <2>1 DEF Unlock, lockVars, Starting
<1>10. CASE PageLoad
  BY <1>10 DEF PageLoad, Bare, TypeOK, Webs, lockVars, Starting
<1>11. CASE WebDown
  BY <1>11 DEF WebDown, lockVars, Starting
<1> QED
  BY <1>1, <1>2, <1>3, <1>4, <1>5, <1>6, <1>7, <1>8, <1>9, <1>10, <1>11
     DEF Next, WebStep, WebEvent

\* The report after the sleep, like any other, names a process or none.
LEMMA ReportTypes ==
  ASSUME TypeOK, LockTypeOK
  PROVE  /\ \A p \in Pids \cup {NoPid} :
              {Report("running", p), Report("stopped", p), Report("error", p)}
                \subseteq Reports
         /\ ReportAfterSleep \in Reports
<1>1. \A p \in Pids \cup {NoPid} :
        {Report("running", p), Report("stopped", p), Report("error", p)} \subseteq Reports
  BY DEF Report, Reports
<1>2. web.child \in Pids \cup {NoPid} /\ web.report.pid \in Pids \cup {NoPid}
  BY DEF TypeOK, Webs, Reports
<1> QED
  BY <1>1, <1>2, ActivePidType DEF ReportAfterSleep

\* Settling keeps the table's type and its owners.
LEMMA SettledType ==
  ASSUME TypeOK
  PROVE  /\ Settled(jobs) \in Seq(JobRun)
         /\ DOMAIN Settled(jobs) = DOMAIN jobs
         /\ \A i \in DOMAIN jobs : /\ Settled(jobs)[i].by = jobs[i].by
                                  /\ Settled(jobs)[i].status # "RUNNING"
<1>1. jobs \in Seq(JobRun) /\ DOMAIN jobs = 1 .. Len(jobs) /\ Len(jobs) \in Nat
  BY LenProperties DEF TypeOK, Webs
<1>2. \A i \in DOMAIN jobs : jobs[i] \in JobRun
  BY <1>1, ElementOfSeq
<1>3. \A i \in DOMAIN jobs :
        /\ Settled(jobs)[i] \in JobRun
        /\ Settled(jobs)[i].by = jobs[i].by
        /\ Settled(jobs)[i].status # "RUNNING"
  BY <1>2 DEF Settled, JobRun
<1>4. Settled(jobs) \in [1 .. Len(jobs) -> JobRun]
  BY <1>1, <1>3 DEF Settled
<1>5. Settled(jobs) \in Seq(JobRun)
  BY <1>1, <1>4, SeqDef
<1> QED
  BY <1>1, <1>3, <1>4, <1>5

\* Finishing a job keeps the table's type and its owners, and makes no row RUNNING.
LEMMA FinishJobRow ==
  ASSUME TypeOK, NEW p \in Pids, FinishJob(p)
  PROVE  /\ jobs' \in Seq(JobRun)
         /\ DOMAIN jobs' = DOMAIN jobs
         /\ \A i \in DOMAIN jobs :
              /\ jobs'[i].by = jobs[i].by
              /\ jobs'[i].status = "RUNNING" => jobs[i].status = "RUNNING"
<1> DEFINE k == JobOf(p)
<1>1. jobs \in Seq(JobRun) /\ DOMAIN jobs = 1 .. Len(jobs) /\ Len(jobs) \in Nat
  BY LenProperties DEF TypeOK, Webs
<1>2. \A i \in DOMAIN jobs : jobs[i] \in JobRun
  BY <1>1, ElementOfSeq
<1>3. jobs' = [i \in DOMAIN jobs |->
                IF i = k THEN [jobs[i] EXCEPT !.status = "FINISHED"] ELSE jobs[i]]
  BY DEF FinishJob
<1> HIDE DEF k
<1>4. \A i \in DOMAIN jobs :
        /\ jobs'[i] \in JobRun
        /\ jobs'[i].by = jobs[i].by
        /\ jobs'[i].status = "RUNNING" => jobs[i].status = "RUNNING"
  BY <1>2, <1>3 DEF JobRun
<1>5. jobs' \in [1 .. Len(jobs) -> JobRun]
  BY <1>1, <1>3, <1>4
<1>6. jobs' \in Seq(JobRun)
  BY <1>1, <1>5, SeqDef
<1> QED
  BY <1>3, <1>4, <1>6

\* Starting a job appends a row of the supervisor's own.
LEMMA StartJobRow ==
  ASSUME TypeOK, NEW p \in Pids, StartJob(p)
  PROVE  /\ jobs' \in Seq(JobRun)
         /\ \A i \in DOMAIN jobs : i \in DOMAIN jobs' /\ jobs'[i] = jobs[i]
         /\ \A i \in DOMAIN jobs' : i \in DOMAIN jobs \/ jobs'[i].by = p
         /\ \E i \in DOMAIN jobs' : jobs'[i].by = p
<1> DEFINE new == [by |-> p, status |-> "RUNNING"]
<1>1. jobs \in Seq(JobRun) /\ new \in JobRun /\ jobs' = Append(jobs, new)
  BY DEF TypeOK, Webs, JobRun, StartJob
<1>2. /\ jobs' \in Seq(JobRun)
      /\ Len(jobs') = Len(jobs) + 1 /\ Len(jobs) \in Nat
      /\ DOMAIN jobs = 1 .. Len(jobs) /\ DOMAIN jobs' = 1 .. Len(jobs')
      /\ \A i \in 1 .. Len(jobs) : jobs'[i] = jobs[i]
      /\ jobs'[Len(jobs) + 1] = new
  BY <1>1, AppendProperties, LenProperties
<1>3. Len(jobs) + 1 \in DOMAIN jobs' /\ jobs'[Len(jobs) + 1].by = p
  BY <1>2
<1>4. \A i \in DOMAIN jobs' : i \in DOMAIN jobs \/ i = Len(jobs) + 1
  BY <1>2
<1> QED
  BY <1>2, <1>3, <1>4

\* What the web process may do to itself, told once for its steps.
WebTypeOK ==
    /\ web \in Webs
    /\ web.phase = "stopping" => web.handle # NoPid
    /\ web.phase \in {"init", "adopt", "started"} => web.handle = NoPid

\* The rest of the type invariant.
SupervisorTypeOK ==
    /\ doing \in [Pids -> Places]
    /\ stop \in SUBSET Pids
    /\ jobs \in Seq(JobRun)
    /\ row \in Reports
    /\ errors \in 0 .. MaxErrors
    /\ \A p \in Pids : doing[p] = "job" => \E i \in DOMAIN jobs : jobs[i].by = p

LEMMA TypeSplit == TypeOK <=> WebTypeOK /\ SupervisorTypeOK
BY DEF TypeOK, WebTypeOK, SupervisorTypeOK

\* A SIGTERM leaves the set of stopped supervisors a set of processes.
LEMMA SigTermType ==
  ASSUME stop \in SUBSET Pids, NEW p \in Pids, SigTerm(p)
  PROVE  stop' \in SUBSET Pids
BY DEF SigTerm

\* Every step of a supervisor keeps the types.
LEMMA SupervisorStepType ==
  ASSUME TypeOK, NEW p \in Pids, SupervisorStep(p) \/ SupervisorFault(p)
  PROVE  TypeOK'
<1> USE DEF SupervisorTypeOK
<1>1. SupervisorTypeOK
  BY TypeSplit
<1>2. WebTypeOK'
  <2>1. UNCHANGED web
    BY DEF SupervisorStep, SupervisorFault, Claim, Boot, Loop, StartJob, FinishJob,
       EndCycle, Finish, BootFails, CycleFails, Crash
  <2> QED
    BY <2>1, TypeSplit DEF WebTypeOK
<1>3. {Report("running", p), Report("stopped", p)} \subseteq Reports
  BY DEF Report, Reports
<1>4. ASSUME Fails PROVE errors' \in 0 .. MaxErrors
  BY <1>1, <1>4, BoundAssumption DEF Fails
<1>5. SupervisorTypeOK'
  <2>1. CASE Claim(p) \/ Crash(p)
    BY <1>1, <2>1 DEF Claim, Crash
  <2>2. CASE Boot(p)
    BY <1>1, <2>2, SettledType DEF Boot, Do, Places
  <2>3. CASE Loop(p)
    BY <1>1, <1>3, <2>3 DEF Loop, Do, Places
  <2>4. CASE StartJob(p)
    <3>1. doing' = [doing EXCEPT ![p] = "job"] /\ UNCHANGED <<stop, errors>>
          /\ row' = Report("running", p)
      BY <2>4 DEF StartJob, Do
    <3>2. \A q \in Pids : doing'[q] = "job" => \E i \in DOMAIN jobs' : jobs'[i].by = q
      BY <1>1, <2>4, <3>1, StartJobRow
    <3> QED
      BY <1>1, <1>3, <2>4, <3>1, <3>2, StartJobRow DEF Places
  <2>5. CASE FinishJob(p)
    <3>1. doing' = [doing EXCEPT ![p] = "cycle"] /\ UNCHANGED <<stop, errors>>
          /\ row' = Report("running", p)
      BY <2>5 DEF FinishJob, Do
    <3> QED
      BY <1>1, <1>3, <2>5, <3>1, FinishJobRow DEF Places
  <2>6. CASE EndCycle(p)
    BY <1>1, <2>6 DEF EndCycle, Do, Places
  <2>7. CASE Finish(p)
    BY <1>1, <1>3, <1>4, <2>7 DEF Finish
  <2>8. CASE BootFails(p)
    <3>1. jobs' = jobs \/ jobs' = Settled(jobs)
      BY <2>8 DEF BootFails
    <3>2. doing' = doing \/ doing' = [doing EXCEPT ![p] = "stopping"]
      BY <2>8 DEF BootFails, Do
    <3> QED
      BY <1>1, <1>4, <2>8, <3>1, <3>2, SettledType DEF BootFails, Places
  <2>9. CASE CycleFails(p)
    <3>1. jobs' = jobs \/ jobs' = Settled(jobs)
      BY <2>9 DEF CycleFails
    <3>2. \E where \in {"stopping", "idle"} : doing' = [doing EXCEPT ![p] = where]
      BY <2>9 DEF CycleFails, Do
    <3> QED
      BY <1>1, <1>3, <1>4, <2>9, <3>1, <3>2, SettledType DEF CycleFails, Places
  <2> QED
    BY <2>1, <2>2, <2>3, <2>4, <2>5, <2>6, <2>7, <2>8, <2>9
       DEF SupervisorStep, SupervisorFault
<1> QED
  BY <1>2, <1>5 DEF TypeOK, WebTypeOK

\* What a step of the web process must show: what becomes of the process itself, of
\* the stopped supervisors and of the row.
LEMMA WebStepParts ==
  ASSUME TypeOK, WebTypeOK', stop' \in SUBSET Pids, row' \in Reports,
         UNCHANGED <<doing, jobs>>, UNCHANGED errors \/ Fails
  PROVE  TypeOK'
<1>1. errors' \in 0 .. MaxErrors
  BY BoundAssumption DEF Fails, TypeOK
<1>2. /\ doing' \in [Pids -> Places]
      /\ jobs' \in Seq(JobRun)
      /\ \A p \in Pids : doing'[p] = "job" => \E i \in DOMAIN jobs' : jobs'[i].by = p
  <2>1. doing' = doing /\ jobs' = jobs
    OBVIOUS
  <2> QED
    BY <2>1 DEF TypeOK
<1> QED
  BY <1>1, <1>2 DEF TypeOK, WebTypeOK

\* Every step of the web process keeps the types, and while the portfolio is locked the
\* web process without a supervisor.
LEMMA WebStepType ==
  ASSUME TypeOK, LockTypeOK, LockedIsIdle, WebStep \/ WebEvent
  PROVE  TypeOK' /\ LockedIsIdle'
<1> USE DEF WebTypeOK, LockedIsIdle, Phases, Webs
<1>1. WebTypeOK /\ stop \in SUBSET Pids /\ row \in Reports
  BY DEF TypeOK
<1>2. /\ Report("stopped", NoPid) \in Reports
      /\ Report("error", web.report.pid) \in Reports
      /\ Report("running", web.child) \in Reports
      /\ ReportAfterSleep \in Reports
      /\ web.report \in Reports
  BY <1>1, ReportTypes DEF Reports
<1>3. HandleAfterSleep \in Pids \cup {NoPid}
  BY <1>1 DEF HandleAfterSleep
<1>4. ASSUME NEW phase \in {"down", "idle", "init"}, NEW l \in BOOLEAN, NEW o \in BOOLEAN,
             l => phase # "init", web' = FreshWeb(phase, l, o)
      PROVE  WebTypeOK' /\ LockedIsIdle'
  BY <1>2, <1>4 DEF FreshWeb
<1>5. ASSUME NEW h \in Pids \cup {NoPid}, NEW a \in {"stay", "start", "lock"},
             NEW o \in BOOLEAN, StopOwn(h, a, o), web.locked => h = NoPid /\ a = "lock"
      PROVE  WebTypeOK' /\ LockedIsIdle' /\ stop' \in SUBSET Pids
  <2>1. WebTypeOK' /\ LockedIsIdle'
    BY <1>1, <1>5 DEF StopOwn, Live
  <2>2. stop' \in SUBSET Pids
    BY <1>1, <1>5, SigTermType DEF StopOwn, Live
  <2> QED
    BY <2>1, <2>2
<1>6. CASE FindOther
  <2>1. WebTypeOK' /\ LockedIsIdle'
    BY <1>1, <1>2, <1>6, ActivePidType DEF FindOther
  <2>2. stop' \in SUBSET Pids /\ row' \in Reports
    BY <1>1, <1>2, <1>6 DEF FindOther, SyncRow
  <2> QED
    BY <1>6, <2>1, <2>2, WebStepParts DEF FindOther
<1>7. CASE Adopt
  <2>1. WebTypeOK' /\ LockedIsIdle'
    BY <1>1, <1>2, <1>7 DEF Adopt
  <2>2. stop' \in SUBSET Pids /\ row' \in Reports
    BY <1>1, <1>2, <1>7 DEF Adopt
  <2> QED
    BY <1>7, <2>1, <2>2, WebStepParts DEF Adopt
<1>8. ASSUME NEW p \in Pids, Popen(p) PROVE TypeOK' /\ LockedIsIdle'
  <2>1. WebTypeOK' /\ LockedIsIdle'
    BY <1>1, <1>8 DEF Popen
  <2>2. stop' \in SUBSET Pids /\ row' \in Reports
    BY <1>1, <1>2, <1>8 DEF Popen, SyncRow
  <2> QED
    BY <1>8, <2>1, <2>2, WebStepParts DEF Popen
<1>9. CASE AfterSleep
  <2>1. WebTypeOK' /\ LockedIsIdle'
    BY <1>1, <1>2, <1>9, <1>3 DEF AfterSleep
  <2>2. stop' \in SUBSET Pids /\ row' \in Reports
    BY <1>1, <1>2, <1>9 DEF AfterSleep
  <2> QED
    BY <1>9, <2>1, <2>2, WebStepParts DEF AfterSleep
<1>10. CASE WaitOwn
  <2>1. WebTypeOK' /\ LockedIsIdle'
    BY <1>1, <1>2, <1>10 DEF WaitOwn
  <2>2. stop' \in SUBSET Pids /\ row' \in Reports
    BY <1>1, <1>2, <1>10 DEF WaitOwn
  <2> QED
    BY <1>10, <2>1, <2>2, WebStepParts DEF WaitOwn
<1>11. CASE Sweep
  <2>1. stop' \in SUBSET Pids
    BY <1>1, <1>11, ActivePidType, SigTermType DEF Sweep
  <2>2. row' \in Reports
    BY <1>1, <1>2, <1>11 DEF Sweep
  <2>3. CASE web' = FreshWeb(IF web.after = "start" THEN "init" ELSE "idle",
                             web.locked \/ web.after = "lock", FALSE)
    <3>1. web.phase = "sweep" /\ (web.locked \/ web.after = "lock") \in BOOLEAN
      BY <1>11 DEF Sweep
    <3>2. web.locked \/ web.after = "lock" => web.after # "start"
      BY <3>1
    <3>3. WebTypeOK' /\ LockedIsIdle'
      BY <1>4, <2>3, <3>1, <3>2
    <3> QED
      BY <1>11, <2>1, <2>2, <3>3, WebStepParts DEF Sweep
  <2>4. CASE web' = FreshWeb("idle", web.locked, TRUE)
    <3>1. WebTypeOK' /\ LockedIsIdle'
      BY <1>1, <1>4, <2>4
    <3> QED
      BY <1>11, <2>1, <2>2, <3>1, WebStepParts DEF Sweep
  <2> QED
    BY <1>11, <2>3, <2>4 DEF Sweep
<1>12. CASE Reload
  <2>1. StopOwn(web.handle, "start", TRUE) /\ ~web.locked /\ row' = row
    BY <1>12 DEF Reload
  <2>2. WebTypeOK' /\ LockedIsIdle' /\ stop' \in SUBSET Pids
    BY <1>1, <1>5, <2>1
  <2> QED
    BY <1>1, <1>12, <2>1, <2>2, WebStepParts DEF Reload
<1>13. CASE Lock
  <2>1. StopOwn(web.handle, "lock", web.open) /\ row' = row
    BY <1>13 DEF Lock
  <2>2. WebTypeOK' /\ LockedIsIdle' /\ stop' \in SUBSET Pids
    BY <1>1, <1>5, <2>1
  <2> QED
    BY <1>1, <1>13, <2>1, <2>2, WebStepParts DEF Lock
<1>14. CASE InitializeFails
  <2>1. PICK h \in Pids \cup {NoPid}, o \in BOOLEAN : StopOwn(h, "stay", o)
    BY <1>1, <1>3, <1>14 DEF InitializeFails
  <2>2. ~web.locked /\ row' = row
    BY <1>14 DEF InitializeFails, Bare
  <2>3. WebTypeOK' /\ LockedIsIdle' /\ stop' \in SUBSET Pids
    BY <1>5, <2>1, <2>2
  <2> QED
    BY <1>1, <1>14, <2>2, <2>3, WebStepParts DEF InitializeFails
<1>15. CASE WebUp
  <2>1. WebTypeOK' /\ LockedIsIdle'
    BY <1>1, <1>2, <1>15, <1>4 DEF WebUp
  <2>2. stop' \in SUBSET Pids /\ row' \in Reports
    BY <1>1, <1>2, <1>15 DEF WebUp
  <2> QED
    BY <1>15, <2>1, <2>2, WebStepParts DEF WebUp
<1>16. CASE WebDown
  <2>1. WebTypeOK' /\ LockedIsIdle'
    BY <1>1, <1>2, <1>16, <1>4 DEF WebDown
  <2>2. stop' \in SUBSET Pids /\ row' \in Reports
    BY <1>1, <1>2, <1>16 DEF WebDown
  <2> QED
    BY <1>16, <2>1, <2>2, WebStepParts DEF WebDown
<1>17. CASE Unlock
  <2>1. WebTypeOK' /\ LockedIsIdle'
    BY <1>1, <1>2, <1>17 DEF Unlock
  <2>2. stop' \in SUBSET Pids /\ row' \in Reports
    BY <1>1, <1>2, <1>17 DEF Unlock
  <2> QED
    BY <1>17, <2>1, <2>2, WebStepParts DEF Unlock
<1>18. CASE PageLoad
  <2>1. WebTypeOK' /\ LockedIsIdle'
    BY <1>1, <1>2, <1>18 DEF PageLoad, Bare
  <2>2. stop' \in SUBSET Pids /\ row' \in Reports
    BY <1>1, <1>2, <1>18 DEF PageLoad, SyncRow
  <2> QED
    BY <1>18, <2>1, <2>2, WebStepParts DEF PageLoad
<1>19. CASE PopenFails
  <2>1. WebTypeOK' /\ LockedIsIdle'
    BY <1>1, <1>2, <1>19 DEF PopenFails
  <2>2. stop' \in SUBSET Pids /\ row' \in Reports
    BY <1>1, <1>2, <1>19 DEF PopenFails
  <2> QED
    BY <1>19, <2>1, <2>2, WebStepParts DEF PopenFails
<1> QED
  BY <1>6, <1>7, <1>8, <1>9, <1>10, <1>11, <1>12, <1>13, <1>14, <1>15, <1>16, <1>17, <1>18,
     <1>19 DEF WebStep, WebEvent

\* Only the last step of a claim adds a holder, and that one is about to boot.
LEMMA NewHolderBoots ==
  ASSUME LockTypeOK, LockBeforeBoot, LockNext
  PROVE  /\ \A q \in Holding' : q \in Holding \/ doing[q] = "boot"
         /\ \A q \in Pids : at'[q] \in Claiming \cup {"new"} => at[q] \in Claiming \cup {"new"}
<1> USE DEF LockTypeOK, LockBeforeBoot, Holding, Having, Claiming, GoTo
<1> DEFINE Goal == /\ \A q \in Holding' : q \in Holding \/ doing[q] = "boot"
                   /\ \A q \in Pids : at'[q] \in Claiming \cup {"new"}
                                      => at[q] \in Claiming \cup {"new"}
<1>1. ASSUME NEW p \in Pids, Acquire(p) PROVE Goal
  BY <1>1 DEF Acquire, Look, Read, Check, Unlink, Create, Write
<1>2. ASSUME NEW p \in Pids, Launch(p) PROVE Goal
  BY <1>2 DEF Launch
<1>3. ASSUME NEW p \in Pids, Leave(p) \/ GiveBack(p) \/ Kill(p) PROVE Goal
  BY <1>3 DEF Leave, GiveBack, Release, Reread, Remove, Kill
<1> QED
  BY <1>1, <1>2, <1>3 DEF LockNext

\* Every step leaves the RUNNING rows to the supervisor that has the lock.
LEMMA OwnerStep ==
  ASSUME TypeOK, LockInv, LockBeforeBoot, RunningJobHasOwner,
         [LockNext]_lockVars, [Next]_vars
  PROVE  RunningJobHasOwner' /\ LockBeforeBoot'
<1> DEFINE Working == {"idle", "cycle", "job"}
<1>1. LockTypeOK /\ OneHolder
  BY DEF LockInv, HolderOwnsFile, OneHolder, Holding
<1>2. /\ \A q \in Holding' : q \in Holding \/ doing[q] = "boot"
      /\ \A q \in Pids : at'[q] \in Claiming \cup {"new"} => at[q] \in Claiming \cup {"new"}
  <2>1. CASE LockNext
    BY <1>1, <2>1, NewHolderBoots
  <2>2. CASE UNCHANGED lockVars
    BY <2>2 DEF lockVars, Holding
  <2> QED
    BY <2>1, <2>2
<1>3. ASSUME UNCHANGED <<doing, jobs>> PROVE RunningJobHasOwner' /\ LockBeforeBoot'
  <2>1. doing' = doing /\ jobs' = jobs
    BY <1>3
  <2> QED
    BY <1>2, <2>1 DEF RunningJobHasOwner, LockBeforeBoot
<1>4. ASSUME NEW p \in Pids, SupervisorStep(p) \/ SupervisorFault(p)
      PROVE  RunningJobHasOwner' /\ LockBeforeBoot'
  <2>1. CASE Claim(p) \/ Crash(p) \/ Finish(p)
    BY <1>3, <2>1 DEF Claim, Crash, Finish
  <2>2. ASSUME at[p] = "held", NEW where, doing' = [doing EXCEPT ![p] = where]
        PROVE  LockBeforeBoot'
    BY <1>2, <2>2 DEF LockBeforeBoot, TypeOK, Claiming
  <2>3. CASE Boot(p)
    <3>1. \A i \in DOMAIN jobs' : jobs'[i].status # "RUNNING"
      BY <2>3, SettledType DEF Boot
    <3>2. LockBeforeBoot'
      BY <2>2, <2>3 DEF Boot, Running, Do
    <3> QED
      BY <3>1, <3>2 DEF RunningJobHasOwner
  <2>4. CASE Loop(p) \/ EndCycle(p)
    <3>1. PICK where \in {"stopping", "cycle", "idle"} :
            doing' = [doing EXCEPT ![p] = where]
      BY <2>4 DEF Loop, EndCycle, Do
    <3>2. doing[p] \in Working /\ at[p] = "held" /\ jobs' = jobs
      BY <2>4 DEF Loop, EndCycle, Running
    <3>3. \A q \in Pids : doing'[q] \in Working => doing[q] \in Working
      BY <3>1, <3>2 DEF TypeOK
    <3>4. RunningJobHasOwner'
      BY <1>2, <3>2, <3>3 DEF RunningJobHasOwner, Holding
    <3> QED
      BY <2>2, <3>1, <3>2, <3>4
  <2>5. CASE StartJob(p)
    <3>1. /\ at[p] = "held" /\ doing[p] = "cycle"
          /\ doing' = [doing EXCEPT ![p] = "job"]
          /\ UNCHANGED lockVars
      BY <2>5 DEF StartJob, Running, Do
    <3>2. Holding' = Holding /\ p \in Holding
      BY <3>1 DEF lockVars, Holding, Having
    <3>3. \A q \in Holding' : q = p
      BY <1>1, <3>2 DEF OneHolder
    <3>4. \A i \in DOMAIN jobs' : jobs'[i].status = "RUNNING" => jobs'[i].by = p
      BY <2>5, <3>1, <3>2, StartJobRow DEF RunningJobHasOwner
    <3> QED
      BY <2>2, <3>1, <3>3, <3>4 DEF RunningJobHasOwner
  <2>6. CASE FinishJob(p)
    <3>1. /\ at[p] = "held" /\ doing[p] = "job"
          /\ doing' = [doing EXCEPT ![p] = "cycle"]
      BY <2>6 DEF FinishJob, Running, Do
    <3>2. \A q \in Pids : doing'[q] \in Working => doing[q] \in Working
      BY <3>1 DEF TypeOK
    <3>3. RunningJobHasOwner'
      BY <1>2, <2>6, <3>2, FinishJobRow DEF RunningJobHasOwner, Holding
    <3> QED
      BY <2>2, <3>1, <3>3
  <2>7. CASE BootFails(p) \/ CycleFails(p)
    <3>1. at[p] = "held"
      BY <2>7 DEF BootFails, CycleFails, Running
    <3>2. jobs' = jobs \/ jobs' = Settled(jobs)
      BY <2>7 DEF BootFails, CycleFails
    <3>3. \/ doing' = doing
          \/ doing' = [doing EXCEPT ![p] = "stopping"]
          \/ doing[p] \in Working /\ doing' = [doing EXCEPT ![p] = "idle"]
      BY <2>7 DEF BootFails, CycleFails, Do, Running
    <3>4. \A q \in Pids : doing'[q] \in Working => doing[q] \in Working
      BY <3>3 DEF TypeOK
    <3>5. RunningJobHasOwner'
      <4> SUFFICES ASSUME NEW q \in Holding', doing'[q] \in Working,
                          NEW i \in DOMAIN jobs', jobs'[i].status = "RUNNING"
                   PROVE  jobs'[i].by = q
        BY DEF RunningJobHasOwner
      <4>1. q \in Pids /\ doing[q] \in Working
        BY <3>4 DEF Holding
      <4>2. q \in Holding
        BY <1>2, <4>1
      <4>3. i \in DOMAIN jobs /\ jobs'[i].by = jobs[i].by /\ jobs[i].status = "RUNNING"
        BY <3>2, SettledType
      <4> QED
        BY <4>1, <4>2, <4>3 DEF RunningJobHasOwner
    <3>6. LockBeforeBoot'
      BY <1>2, <2>2, <3>1, <3>3 DEF LockBeforeBoot
    <3> QED
      BY <3>5, <3>6
  <2> QED
    BY <1>4, <2>1, <2>3, <2>4, <2>5, <2>6, <2>7 DEF SupervisorStep, SupervisorFault
<1>5. CASE WebStep \/ WebEvent
  <2>1. UNCHANGED <<doing, jobs>>
    BY <1>5 DEF WebStep, WebEvent, FindOther, Adopt, Popen, AfterSleep, WaitOwn, Sweep,
       WebUp, Unlock, PageLoad, Reload, Lock, PopenFails, InitializeFails, WebDown
  <2> QED
    BY <1>3, <2>1
<1>6. CASE UNCHANGED vars
  BY <1>3, <1>6 DEF vars
<1> QED
  BY <1>4, <1>5, <1>6 DEF Next

-----------------------------------------------------------------------------

\* The invariant holds at first.
LEMMA SupInitInv == Init => SupInv
<1> SUFFICES ASSUME Init PROVE SupInv
  OBVIOUS
<1>1. LockInv
  BY LockInitInv DEF Init
<1>2. LauncherKnowsStart /\ LockBeforeBoot /\ LockedIsIdle
  BY DEF Init, LockInit, LauncherKnowsStart, LockBeforeBoot, LockedIsIdle, Starting,
     Claiming, FreshWeb
<1>3. RunningJobHasOwner
  BY DEF Init, LockInit, RunningJobHasOwner, Holding, Having
<1>4. TypeOK
  BY BoundAssumption, LockAssumption, EmptySeq
     DEF Init, TypeOK, Webs, Phases, Places, Reports, Report, FreshWeb
<1> QED
  BY <1>1, <1>2, <1>3, <1>4 DEF SupInv

\* Every step keeps it, and is a step of the lock.
LEMMA SupStepInv ==
  ASSUME OneAtATime, SupInv, [Next]_vars
  PROVE  SupInv' /\ [LockNext]_lockVars
<1>1. TypeOK /\ LockInv /\ LockTypeOK /\ LockedIsIdle /\ LauncherKnowsStart
      /\ LockBeforeBoot /\ RunningJobHasOwner
  BY DEF SupInv, LockInv
<1>2. [LockNext]_lockVars
  BY <1>1, StepOfLock
<1>3. LockInv'
  BY <1>1, <1>2, LockStepInv
<1>4. LauncherKnowsStart'
  BY <1>1, KnowsStep
<1>5. RunningJobHasOwner' /\ LockBeforeBoot'
  BY <1>1, <1>2, OwnerStep
<1>6. TypeOK' /\ LockedIsIdle'
  <2>1. CASE \E p \in Pids : SupervisorStep(p) \/ SupervisorFault(p)
    <3>1. TypeOK'
      BY <1>1, <2>1, SupervisorStepType
    <3>2. UNCHANGED web
      BY <2>1 DEF SupervisorStep, SupervisorFault, Claim, Boot, Loop, StartJob,
         FinishJob, EndCycle, Finish, BootFails, CycleFails, Crash
    <3> QED
      BY <1>1, <3>1, <3>2 DEF LockedIsIdle
  <2>2. CASE WebStep \/ WebEvent
    BY <1>1, <2>2, WebStepType
  <2>3. CASE UNCHANGED vars
    BY <1>1, <2>3 DEF vars, TypeOK, LockedIsIdle
  <2> QED
    BY <2>1, <2>2, <2>3 DEF Next
<1> QED
  BY <1>2, <1>3, <1>4, <1>5, <1>6 DEF SupInv

\* The runtime of the beta supervisor implements the lock with starts that never
\* overlap: whatever is reloaded, locked, unlocked, killed or restarted.
THEOREM RuntimeUsesLock ==
  ASSUME OneAtATime
  PROVE  Spec => LockSpec
<1>1. Init => LockInit
  BY DEF Init
<1> QED
  BY <1>1, SupInitInv, SupStepInv, PTL DEF Spec, LockSpec

\* Hence two supervisors never have the lock together.
THEOREM RuntimeSingleInstance ==
  ASSUME OneAtATime
  PROVE  Spec => []OneHolder
BY RuntimeUsesLock, LockSingleInstance, PTL

\* And a job recorded as RUNNING, once the next supervisor is at work, is that one's:
\* nothing a predecessor left behind passes for a job in progress.
THEOREM RuntimeJobOwner ==
  ASSUME OneAtATime
  PROVE  Spec => []RunningJobHasOwner
<1>1. SupInv => RunningJobHasOwner
  BY DEF SupInv
<1> QED
  BY <1>1, SupInitInv, SupStepInv, PTL DEF Spec

\* The tables and the web process keep their types; in particular a start never finds
\* a handle.
THEOREM RuntimeTypes ==
  ASSUME OneAtATime
  PROVE  Spec => []TypeOK
<1>1. SupInv => TypeOK
  BY DEF SupInv
<1> QED
  BY <1>1, SupInitInv, SupStepInv, PTL DEF Spec

-----------------------------------------------------------------------------
(* A job's record is written once *)

\* No lock step brings a process to "held" but the one that ends a claim.
LEMMA NewlyHeld ==
  ASSUME LockTypeOK, LockBeforeBoot, [LockNext]_lockVars
  PROVE  \A q \in Pids : at'[q] = "held" => at[q] = "held" \/ doing[q] = "boot"
<1> USE DEF LockTypeOK, LockBeforeBoot, Claiming, GoTo
<1> DEFINE Goal == \A q \in Pids : at'[q] = "held" => at[q] = "held" \/ doing[q] = "boot"
<1>1. ASSUME NEW p \in Pids, Acquire(p) PROVE Goal
  BY <1>1 DEF Acquire, Look, Read, Check, Unlink, Create, Write
<1>2. ASSUME NEW p \in Pids, Launch(p) PROVE Goal
  BY <1>2 DEF Launch
<1>3. ASSUME NEW p \in Pids, Leave(p) \/ GiveBack(p) \/ Kill(p) PROVE Goal
  BY <1>3 DEF Leave, GiveBack, Release, Reread, Remove, Kill
<1>4. CASE UNCHANGED lockVars
  BY <1>4 DEF lockVars
<1> QED
  BY <1>1, <1>2, <1>3, <1>4 DEF LockNext

\* Only the holder of the lock moves its place, so that nobody settles the row of a
\* job in progress but the supervisor that leaves the job with it.
LEMMA JobStep ==
  ASSUME SupInv, JobInProgress, [LockNext]_lockVars, [Next]_vars
  PROVE  JobInProgress'
<1>1. /\ TypeOK /\ LockTypeOK /\ LockBeforeBoot
      /\ \A p, q \in Holding : p = q
      /\ doing \in [Pids -> Places]
  BY DEF SupInv, LockInv, HolderOwnsFile, Holding, TypeOK
<1>2. \A q \in Pids : at'[q] = "held" => at[q] = "held" \/ doing[q] = "boot"
  BY <1>1, NewlyHeld
<1>3. ASSUME UNCHANGED <<doing, jobs>> PROVE JobInProgress'
  <2>1. doing' = doing /\ jobs' = jobs
    BY <1>3
  <2> QED
    BY <1>2, <2>1 DEF JobInProgress
<1>4. ASSUME NEW p \in Pids, at[p] = "held", NEW where, doing' = [doing EXCEPT ![p] = where]
      PROVE  \A q \in Pids : at'[q] = "held" /\ doing'[q] = "job" => q = p
  <2> SUFFICES ASSUME NEW q \in Pids, at'[q] = "held", doing'[q] = "job", q # p PROVE FALSE
    OBVIOUS
  <2>1. doing[q] = "job"
    BY <1>1, <1>4
  <2>2. p \in Holding /\ q \in Holding
    BY <1>2, <1>4, <2>1 DEF Holding, Having
  <2> QED
    BY <1>1, <2>2
<1>5. ASSUME NEW p \in Pids, at[p] = "held",
             NEW where \in Places \ {"job"}, doing' = [doing EXCEPT ![p] = where]
      PROVE  JobInProgress'
  BY <1>1, <1>4, <1>5 DEF JobInProgress
<1>6. ASSUME NEW p \in Pids, SupervisorStep(p) \/ SupervisorFault(p) PROVE JobInProgress'
  <2> USE DEF Running, Do, Places
  <2>1. CASE Claim(p) \/ Crash(p) \/ Finish(p)
    BY <1>3, <2>1 DEF Claim, Crash, Finish
  <2>2. CASE Boot(p)
    BY <1>5, <2>2 DEF Boot
  <2>3. CASE Loop(p)
    <3>1. at[p] = "held" /\ \E where \in Places \ {"job"} : doing' = [doing EXCEPT ![p] = where]
      BY <2>3 DEF Loop
    <3> QED
      BY <1>5, <3>1
  <2>4. CASE StartJob(p)
    <3> DEFINE n == Len(jobs) + 1
    <3>1. /\ at[p] = "held" /\ doing' = [doing EXCEPT ![p] = "job"]
          /\ jobs' = Append(jobs, [by |-> p, status |-> "RUNNING"])
          /\ jobs \in Seq(JobRun)
      BY <1>1, <2>4 DEF StartJob, TypeOK
    <3>2. /\ DOMAIN jobs' = 1 .. n /\ Len(jobs) \in Nat
          /\ jobs'[n].by = p /\ jobs'[n].status = "RUNNING"
      BY <3>1, AppendProperties, LenProperties DEF JobRun
    <3>3. n \in DOMAIN jobs' /\ \A j \in DOMAIN jobs' : j <= n
      BY <3>2
    <3>4. \A q \in Pids : at'[q] = "held" /\ doing'[q] = "job" => q = p
      BY <1>4, <3>1
    <3> HIDE DEF n
    <3> QED
      BY <3>2, <3>3, <3>4 DEF JobInProgress
  <2>5. CASE FinishJob(p)
    BY <1>5, <2>5 DEF FinishJob
  <2>6. CASE EndCycle(p)
    BY <1>5, <2>6 DEF EndCycle
  <2>7. CASE BootFails(p)
    <3>1. CASE UNCHANGED <<doing, jobs>>
      BY <1>3, <3>1
    <3>2. CASE at[p] = "held" /\ doing' = [doing EXCEPT ![p] = "stopping"]
      BY <1>5, <3>2
    <3> QED
      BY <2>7, <3>1, <3>2 DEF BootFails
  <2>8. CASE CycleFails(p)
    <3>1. at[p] = "held" /\ \E where \in Places \ {"job"} : doing' = [doing EXCEPT ![p] = where]
      BY <2>8 DEF CycleFails
    <3> QED
      BY <1>5, <3>1
  <2> QED
    BY <1>6, <2>1, <2>2, <2>3, <2>4, <2>5, <2>6, <2>7, <2>8 DEF SupervisorStep, SupervisorFault
<1>7. CASE WebStep \/ WebEvent
  <2>1. UNCHANGED <<doing, jobs>>
    BY <1>7 DEF WebStep, WebEvent, FindOther, Adopt, Popen, AfterSleep, WaitOwn, Sweep,
       WebUp, Unlock, PageLoad, Reload, Lock, PopenFails, InitializeFails, WebDown
  <2> QED
    BY <1>3, <2>1
<1>8. CASE UNCHANGED vars
  BY <1>3, <1>8 DEF vars
<1> QED
  BY <1>6, <1>7, <1>8 DEF Next

\* The row a supervisor finishes is the one of the job it is in: it is RUNNING.
LEMMA FinishesRunning ==
  ASSUME TypeOK, JobInProgress, NEW p \in Pids, FinishJob(p)
  PROVE  \A i \in DOMAIN jobs : jobs[i].status # "RUNNING" => jobs'[i] = jobs[i]
<1>1. jobs \in Seq(JobRun) /\ DOMAIN jobs = 1 .. Len(jobs) /\ Len(jobs) \in Nat
  BY LenProperties DEF TypeOK
<1>2. PICK i \in DOMAIN jobs : /\ jobs[i].by = p /\ jobs[i].status = "RUNNING"
                               /\ \A j \in DOMAIN jobs : jobs[j].by = p => j <= i
  BY DEF JobInProgress, FinishJob, Running
<1>3. /\ JobOf(p) \in DOMAIN jobs /\ jobs[JobOf(p)].by = p
      /\ \A j \in DOMAIN jobs : jobs[j].by = p => j <= JobOf(p)
  BY <1>2 DEF JobOf
<1>4. JobOf(p) = i
  <2> DEFINE k == JobOf(p)
  <2>1. k \in DOMAIN jobs /\ k <= i /\ i <= k
    BY <1>2, <1>3
  <2> HIDE DEF k
  <2>2. k = i
    BY <1>1, <2>1
  <2> QED
    BY <2>2 DEF k
<1>5. jobs' = [jobs EXCEPT ![i].status = "FINISHED"]
  BY <1>4 DEF FinishJob
<1> QED
  BY <1>1, <1>2, <1>5

\* The record of a job is written once, through kills, failures, reloads and the
\* supervisors that follow each other.
THEOREM RuntimeJobsSettleOnce ==
  ASSUME OneAtATime
  PROVE  Spec => JobsSettleOnce
<1> DEFINE Kept == \A i \in DOMAIN jobs : jobs[i].status # "RUNNING" => jobs'[i] = jobs[i]
<1>1. Init => JobInProgress
  BY DEF Init, JobInProgress
<1>2. SupInv /\ JobInProgress /\ [Next]_vars => SupInv' /\ JobInProgress'
  BY SupStepInv, JobStep
<1>3. SupInv /\ JobInProgress /\ [Next]_vars =>
        [\A i \in DOMAIN jobs : jobs[i].status # "RUNNING" => jobs'[i] = jobs[i]]_jobs
  <2> SUFFICES ASSUME SupInv, JobInProgress, [Next]_vars PROVE Kept \/ jobs' = jobs
    OBVIOUS
  <2>1. TypeOK
    BY DEF SupInv
  <2>2. ASSUME jobs' = Settled(jobs) PROVE Kept
    BY <2>2 DEF Settled
  <2>3. ASSUME NEW p \in Pids, SupervisorStep(p) \/ SupervisorFault(p) PROVE Kept \/ jobs' = jobs
    <3>1. CASE StartJob(p)
      BY <2>1, <3>1, StartJobRow
    <3>2. CASE FinishJob(p)
      BY <2>1, <3>2, FinishesRunning
    <3>3. CASE Boot(p) \/ BootFails(p) \/ CycleFails(p)
      <4>1. jobs' = jobs \/ jobs' = Settled(jobs)
        BY <3>3 DEF Boot, BootFails, CycleFails
      <4> QED
        BY <2>2, <4>1
    <3>4. CASE Claim(p) \/ Crash(p) \/ Finish(p) \/ Loop(p) \/ EndCycle(p)
      BY <3>4 DEF Claim, Crash, Finish, Loop, EndCycle
    <3> QED
      BY <2>3, <3>1, <3>2, <3>3, <3>4 DEF SupervisorStep, SupervisorFault
  <2>4. CASE WebStep \/ WebEvent
    BY <2>4 DEF WebStep, WebEvent, FindOther, Adopt, Popen, AfterSleep, WaitOwn, Sweep,
       WebUp, Unlock, PageLoad, Reload, Lock, PopenFails, InitializeFails, WebDown
  <2>5. CASE UNCHANGED vars
    BY <2>5 DEF vars
  <2> QED
    BY <2>3, <2>4, <2>5 DEF Next
<1> QED
  BY <1>1, <1>2, <1>3, SupInitInv, PTL DEF Spec, JobsSettleOnce
=============================================================================
