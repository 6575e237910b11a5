----------------------------- MODULE ProcessLock -----------------------------
(***************************************************************************)
(* The PID-file lock of process_lock.py: a process claims the lock by      *)
(* creating the file and writing its pid into it, gives way to a process   *)
(* whose pid it finds there and which is alive, and unlinks any other      *)
(* file.  The web launcher (run_api.py) and the beta supervisor claim      *)
(* their locks this way.                                                   *)
(*                                                                         *)
(* Every access to the file system is a step of its own, so processes      *)
(* interleave between them, and a process may be killed before any step.   *)
(* A process creates the file at most once, so its pid also names the file *)
(* it created; the operating system does not reuse a pid here.             *)
(***************************************************************************)
CONSTANTS Pids,          \* the processes that may ever be started
          NoPid,         \* stands for Python's None and for an absent file
          OneAtATime     \* TRUE: nobody starts while another start is under way

ASSUME LockAssumption == NoPid \notin Pids /\ OneAtATime \in BOOLEAN

VARIABLES path,          \* whose file the lock path names, NoPid when none
          written,       \* written[p]: p's pid is in the file p created
          at,            \* at[p]: what p does next
          seen           \* seen[p]: the pid p has read from the file

lockVars == <<path, written, at, seen>>

Claiming  == {"look", "read", "check", "unlink", "create", "write"}
Having    == {"held", "release", "reread", "remove"}
Claimless == {"new", "look", "read", "check", "unlink", "create"}
LockSteps == Claiming \cup Having \cup {"new", "dead", "killed"}

Alive(p) == at[p] \in Claiming \cup Having
Starting == {p \in Pids : at[p] \in Claiming}
Holding  == {p \in Pids : at[p] \in Having}

\* What a reader finds in the file: the pid of its owner, or nothing it can parse.
Payload == IF path # NoPid /\ written[path] THEN path ELSE NoPid

\* active_process_lock_pid
ActivePid == IF Payload # NoPid /\ Alive(Payload) THEN Payload ELSE NoPid

LockInit ==
    /\ path = NoPid
    /\ written = [p \in Pids |-> FALSE]
    /\ at = [p \in Pids |-> "new"]
    /\ seen = [p \in Pids |-> NoPid]

GoTo(p, step) == at' = [at EXCEPT ![p] = step]

-----------------------------------------------------------------------------
(* acquire_process_lock *)

\* p is started and calls acquire_process_lock.
Launch(p) ==
    /\ at[p] = "new"
    /\ OneAtATime => Starting = {}
    /\ GoTo(p, "look")
    /\ UNCHANGED <<path, written, seen>>

\* if path.exists()
Look(p) ==
    /\ at[p] = "look"
    /\ GoTo(p, IF path = NoPid THEN "create" ELSE "read")
    /\ UNCHANGED <<path, written, seen>>

\* existing_pid: 0 when the file has gone, is empty or cannot be parsed.
Read(p) ==
    /\ at[p] = "read"
    /\ seen' = [seen EXCEPT ![p] = Payload]
    /\ GoTo(p, "check")
    /\ UNCHANGED <<path, written>>

\* Mutant: The pid in the file is never checked against the running processes.
BlocksAny(p, q) == q # NoPid

\* Mutant: Any file found is taken for a stale one.
NeverBlocks(p, q) == FALSE

\* The pid in the file belongs to another process that is running.
Blocks(p, q) == q # NoPid /\ q # p /\ Alive(q)

Check(p) ==
    /\ at[p] = "check"
    /\ GoTo(p, IF Blocks(p, seen[p]) THEN "dead" ELSE "unlink")
    /\ UNCHANGED <<path, written, seen>>

Unlink(p) ==
    /\ at[p] = "unlink"
    /\ path' = NoPid
    /\ GoTo(p, "create")
    /\ UNCHANGED <<written, seen>>

\* O_CREAT | O_EXCL: FileExistsError sends the caller away.
Create(p) ==
    /\ at[p] = "create"
    /\ IF path = NoPid
       THEN path' = p /\ GoTo(p, "write")
       ELSE GoTo(p, "dead") /\ UNCHANGED path
    /\ UNCHANGED <<written, seen>>

\* Mutant: The file is left open, its payload still in the buffer.
WriteBuffered(p) ==
    /\ at[p] = "write"
    /\ GoTo(p, "held")
    /\ UNCHANGED <<path, written, seen>>

\* The payload reaches the file when it is closed.
Write(p) ==
    /\ at[p] = "write"
    /\ written' = [written EXCEPT ![p] = TRUE]
    /\ GoTo(p, "held")
    /\ UNCHANGED <<path, seen>>

-----------------------------------------------------------------------------
(* ProcessLock.release, and the end of a process *)

Leave(p) ==
    /\ at[p] = "held"
    /\ GoTo(p, "release")
    /\ UNCHANGED <<path, written, seen>>

\* if self.path.exists()
Release(p) ==
    /\ at[p] = "release"
    /\ GoTo(p, IF path = NoPid THEN "dead" ELSE "reread")
    /\ UNCHANGED <<path, written, seen>>

\* The file is p's own, or it cannot be read and the handler unlinks it.
Reread(p) ==
    /\ at[p] = "reread"
    /\ GoTo(p, IF Payload \in {p, NoPid} THEN "remove" ELSE "dead")
    /\ UNCHANGED <<path, written, seen>>

Remove(p) ==
    /\ at[p] = "remove"
    /\ path' = NoPid
    /\ GoTo(p, "dead")
    /\ UNCHANGED <<written, seen>>

\* The process ends without running its finally clauses; its file stays.
Kill(p) ==
    /\ Alive(p)
    /\ GoTo(p, "killed")
    /\ UNCHANGED <<path, written, seen>>

Acquire(p) ==
    Look(p) \/ Read(p) \/ Check(p) \/ Unlink(p) \/ Create(p) \/ Write(p)

GiveBack(p) == Release(p) \/ Reread(p) \/ Remove(p)

LockNext ==
    \E p \in Pids : Launch(p) \/ Acquire(p) \/ Leave(p) \/ GiveBack(p) \/ Kill(p)

LockSpec == LockInit /\ [][LockNext]_lockVars

\* A running process goes on; nothing obliges one to start, to leave or to be
\* killed.
LockFairness == \A p \in Pids : WF_lockVars(Acquire(p) \/ GiveBack(p))

FairLockSpec == LockSpec /\ LockFairness

-----------------------------------------------------------------------------
(* Properties *)

\* The tables keep their types, and no file is there before its owner created it.
LockTypeOK ==
    /\ path \in Pids \cup {NoPid}
    /\ written \in [Pids -> BOOLEAN]
    /\ at \in [Pids -> LockSteps]
    /\ seen \in [Pids -> Pids \cup {NoPid}]
    /\ path # NoPid => at[path] \notin Claimless
    /\ \A p \in Pids : at[p] \in Claimless => ~written[p]

\* Two processes never have the lock together (process_lock.py:1, "single-instance
\* local processes"), across kills, the stale files they leave and a start that
\* meets a process on its way out.
OneHolder == \A p, q \in Holding : p = q

\* The file always names the process that has the lock: no other start, and no
\* other release, unlinks it or puts its own in its place.
HolderOwnsFile == \A p \in Holding : path = p /\ written[p]

\* A start is never refused for nothing: the process comes to hold the lock unless
\* it is killed, or another one is found to have it.  A file left by a killed
\* process, written or empty, keeps nobody out.
StartAnswered ==
    \A p \in Pids : at[p] = "look" ~> Holding # {} \/ at[p] = "killed"

-----------------------------------------------------------------------------
(* The inductive invariant behind OneHolder, when starts do not overlap *)

\* The process that is starting has found out what there is to know of a holder:
\* from its check on no other process has the lock, and none can come to have it.
StartKnowsHolder ==
    \A p \in Starting :
        /\ \A q \in Starting : q = p
        /\ at[p] = "check" => \A q \in Holding : q = seen[p]
        /\ at[p] \in {"unlink", "create", "write"} => Holding = {}
        /\ at[p] = "write" => path = p

LockInv == LockTypeOK /\ HolderOwnsFile /\ StartKnowsHolder

==============================================================================
