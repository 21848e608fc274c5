----------------------------- MODULE AsyncQueue -----------------------------
(***************************************************************************)
(* The asynchronous job queue of the Microsoft 365 connector: a directory  *)
(* of JSON files (asyncqueue/queues/jsonfilesqueue.py), the listener that  *)
(* puts the "make this group a team" jobs there, and the daemon            *)
(* univention-ms-office-async that takes them out and runs them            *)
(* (asyncqueue/tasks), several instances of which may be started but only  *)
(* the holder of a lock file works.                                        *)
(*                                                                         *)
(* A job is the sequence of the Graph calls of its task tree: the          *)
(* sub-tasks (one add_group_owner per owner) in order, its own call        *)
(* (create_team_from_group) last.  A job file's name is the time it was    *)
(* written, so the order of the files is the order of the clock, which is  *)
(* taken to be monotone.                                                   *)
(***************************************************************************)
EXTENDS Integers, Sequences, FiniteSets

CONSTANTS
  Job, Call, calls,
  Repeatable,   \* calls that Microsoft 365 accepts again once carried out
  Proc,         \* instances of univention-ms-office-async
  Service,      \* the instances systemd runs; the others run with --once
  MaxAttempts,  \* stop_max_attempt_number
  LockTries,    \* attempts to get the lock before giving up
  MaxCrashes,   \* bound: kills of a process explored
  NoJob, NoProc

ASSUME JobAssumption ==
  /\ calls \in [Job -> Seq(Call)]
  /\ \A j \in Job : calls[j] # <<>>
  /\ NoJob \notin Job

ASSUME ProcAssumption ==
  /\ Service \subseteq Proc
  /\ NoProc \notin Proc
  /\ MaxAttempts \in Nat \ {0}
  /\ LockTries \in Nat \ {0}
  /\ MaxCrashes \in Nat

VARIABLES
  clock,        \* time.time(), counted in files written
  stamp,        \* stamp[j]: the time in the name of j's file
  tmp,          \* jobs with a *.json.tmp file
  pending,      \* jobs with a *.json file in the job directory
  failed,       \* jobs with a *.json file in its failed/ directory
  writing,      \* the job the listener has written but not yet moved
  lock,         \* the process that holds the lock file
  pc,           \* pc[p]: what process p does
  tries,        \* tries[p]: failed attempts of p to get the lock
  job,          \* job[p]: the job p holds in memory
  pos,          \* pos[p]: the call p is at, 0 while the job is verified
  attempt,      \* attempt[p]: how often the current call was tried
  initialized,  \* the connection's ids are complete
  applied,      \* calls Microsoft 365 has carried out so far
  crashes,      \* kills so far
  done,         \* jobs logged as successful (history)
  lost          \* jobs that went down with a process (history)

files == <<clock, stamp, tmp, pending, failed, writing>>
procs == <<lock, pc, tries, job, pos, attempt>>
history == <<done, lost>>
vars == <<files, procs, initialized, applied, crashes, history>>

PC == {"off", "locking", "idle", "verify", "run", "store", "move"}

TypeOK ==
  /\ clock \in Nat
  /\ stamp \in [Job -> Nat]
  /\ tmp \subseteq Job
  /\ pending \subseteq Job
  /\ failed \subseteq Job
  /\ writing \in Job \cup {NoJob}
  /\ lock \in Proc \cup {NoProc}
  /\ pc \in [Proc -> PC]
  /\ tries \in [Proc -> 0 .. LockTries]
  /\ job \in [Proc -> Job \cup {NoJob}]
  /\ pos \in [Proc -> Nat]
  /\ attempt \in [Proc -> 1 .. MaxAttempts]
  /\ initialized \in BOOLEAN
  /\ applied \subseteq Call
  /\ crashes \in 0 .. MaxCrashes
  /\ done \subseteq Job
  /\ lost \subseteq Job

Init ==
  /\ clock = 0
  /\ stamp = [j \in Job |-> 0]
  /\ tmp = {} /\ pending = {} /\ failed = {}
  /\ writing = NoJob
  /\ lock = NoProc
  /\ pc = [p \in Proc |-> "off"]
  /\ tries = [p \in Proc |-> 0]
  /\ job = [p \in Proc |-> NoJob]
  /\ pos = [p \in Proc |-> 0]
  /\ attempt = [p \in Proc |-> 1]
  /\ initialized = TRUE
  /\ applied = {}
  /\ crashes = 0
  /\ done = {} /\ lost = {}

-----------------------------------------------------------------------------
(* The listener: GroupConnector.convert_group_to_team and enqueue.         *)

\* Every job is handed over once; stamp 0 says it has no file yet.
WriteTmp(j) ==
  /\ writing = NoJob
  /\ stamp[j] = 0
  /\ clock' = clock + 1
  /\ stamp' = [stamp EXCEPT ![j] = clock']
  /\ tmp' = tmp \cup {j}
  /\ writing' = j
  /\ UNCHANGED <<pending, failed, procs, initialized, applied, crashes, history>>

Publish ==
  /\ writing # NoJob
  /\ tmp' = tmp \ {writing}
  /\ pending' = pending \cup {writing}
  /\ writing' = NoJob
  /\ UNCHANGED <<clock, stamp, failed, procs, initialized, applied, crashes, history>>

\* The listener is killed between the two: the .tmp file stays and no glob
\* for *.json ever finds it.
ListenerCrash ==
  /\ writing # NoJob
  /\ crashes < MaxCrashes
  /\ crashes' = crashes + 1
  /\ lost' = lost \cup {writing}
  /\ writing' = NoJob
  /\ UNCHANGED <<clock, stamp, tmp, pending, failed, procs, initialized, applied, done>>

-----------------------------------------------------------------------------
(* The configuration wizard or an administrator removes and restores the   *)
(* ids of the connection while the daemon runs.                            *)

ToggleInitialized ==
  /\ initialized' = ~initialized
  /\ UNCHANGED <<files, procs, applied, crashes, history>>

-----------------------------------------------------------------------------
(* The daemon: main, worker, Task.process and MSGraphCoreTask.             *)

\* Faulty variants are named ...Fault and stand before the definition they
\* replace: each breaks one property the module's runs check.

\* A job that went down with its process is put back.
ExitRequeuesFault(p) ==
  /\ pc' = [pc EXCEPT ![p] = "off"]
  /\ lock' = IF lock = p THEN NoProc ELSE lock
  /\ tries' = [tries EXCEPT ![p] = 0]
  /\ job' = [job EXCEPT ![p] = NoJob]
  /\ pos' = [pos EXCEPT ![p] = 0]
  /\ attempt' = [attempt EXCEPT ![p] = 1]
  /\ pending' = IF job[p] = NoJob THEN pending ELSE pending \cup {job[p]}
  /\ UNCHANGED <<clock, stamp, tmp, failed, writing, history>>

\* The lock file survives its process.
ExitKeepsLockFault(p) ==
  /\ pc' = [pc EXCEPT ![p] = "off"]
  /\ tries' = [tries EXCEPT ![p] = 0]
  /\ job' = [job EXCEPT ![p] = NoJob]
  /\ pos' = [pos EXCEPT ![p] = 0]
  /\ attempt' = [attempt EXCEPT ![p] = 1]
  /\ lost' = IF job[p] = NoJob THEN lost ELSE lost \cup {job[p]}
  /\ UNCHANGED <<files, lock, done>>

\* The process ends, whatever the reason: the lock goes with it (finally,
\* or the kernel), and so does the job it had taken out of the directory.
Exit(p) ==
  /\ pc' = [pc EXCEPT ![p] = "off"]
  /\ lock' = IF lock = p THEN NoProc ELSE lock
  /\ tries' = [tries EXCEPT ![p] = 0]
  /\ job' = [job EXCEPT ![p] = NoJob]
  /\ pos' = [pos EXCEPT ![p] = 0]
  /\ attempt' = [attempt EXCEPT ![p] = 1]
  /\ lost' = IF job[p] = NoJob THEN lost ELSE lost \cup {job[p]}
  /\ UNCHANGED <<files, done>>

Start(p) ==
  /\ pc[p] = "off"
  /\ pc' = [pc EXCEPT ![p] = "locking"]
  /\ UNCHANGED <<files, lock, tries, job, pos, attempt, initialized, applied, crashes, history>>

\* The lock is taken without a look at who holds it.
GetLockFault(p) ==
  /\ pc[p] = "locking"
  /\ lock' = p
  /\ pc' = [pc EXCEPT ![p] = "idle"]
  /\ UNCHANGED <<files, tries, job, pos, attempt, initialized, applied, crashes, history>>

GetLock(p) ==
  /\ pc[p] = "locking"
  /\ lock = NoProc
  /\ lock' = p
  /\ pc' = [pc EXCEPT ![p] = "idle"]
  /\ UNCHANGED <<files, tries, job, pos, attempt, initialized, applied, crashes, history>>

WaitForLock(p) ==
  /\ pc[p] = "locking"
  /\ lock # NoProc
  /\ tries[p] + 1 < LockTries
  /\ tries' = [tries EXCEPT ![p] = @ + 1]
  /\ UNCHANGED <<files, lock, pc, job, pos, attempt, initialized, applied, crashes, history>>

GiveUpLock(p) ==
  /\ pc[p] = "locking"
  /\ lock # NoProc
  /\ tries[p] + 1 = LockTries
  /\ Exit(p)
  /\ UNCHANGED <<initialized, applied, crashes>>

\* find_jobs()[-1].
NextJobFault(j) == j \in pending /\ \A k \in pending : stamp[j] >= stamp[k]

\* find_jobs()[0]: the file with the smallest name.
NextJob(j) == j \in pending /\ \A k \in pending : stamp[j] <= stamp[k]

\* The file stays, as --no-delete would have it.
TakeFault(p) ==
  /\ pc[p] = "idle"
  /\ \E j \in pending : NextJob(j) /\ job' = [job EXCEPT ![p] = j]
  /\ pos' = [pos EXCEPT ![p] = 0]
  /\ attempt' = [attempt EXCEPT ![p] = 1]
  /\ pc' = [pc EXCEPT ![p] = "verify"]
  /\ UNCHANGED <<files, lock, tries, initialized, applied, crashes, history>>

\* dequeue reads the file and deletes it before the job is run.
Take(p) ==
  /\ pc[p] = "idle"
  /\ \E j \in pending :
       /\ NextJob(j)
       /\ pending' = pending \ {j}
       /\ job' = [job EXCEPT ![p] = j]
  /\ pos' = [pos EXCEPT ![p] = 0]
  /\ attempt' = [attempt EXCEPT ![p] = 1]
  /\ pc' = [pc EXCEPT ![p] = "verify"]
  /\ UNCHANGED <<clock, stamp, tmp, failed, writing, lock, tries, initialized, applied, crashes, history>>

\* With --once the worker ends when the directory is empty.
ExitOnce(p) ==
  /\ pc[p] = "idle"
  /\ p \notin Service
  /\ pending = {}
  /\ Exit(p)
  /\ UNCHANGED <<initialized, applied, crashes>>

\* Task.process goes on to the next call: a sub-task is verified before it
\* runs, the job's own call was verified before the sub-tasks.
GoOn(p) ==
  /\ pos' = [pos EXCEPT ![p] = @ + 1]
  /\ attempt' = [attempt EXCEPT ![p] = 1]
  /\ pc' = [pc EXCEPT ![p] = IF pos[p] + 1 < Len(calls[job[p]]) THEN "verify" ELSE "run"]
  /\ UNCHANGED job

Verified(p) ==
  /\ pc[p] = "verify"
  /\ initialized
  /\ IF pos[p] = 0
     THEN GoOn(p)
     ELSE /\ pc' = [pc EXCEPT ![p] = "run"]
          /\ UNCHANGED <<job, pos, attempt>>
  /\ UNCHANGED <<files, lock, tries, initialized, applied, crashes, history>>

\* A job that cannot be verified is dropped.
NotVerifiedDropsFault(p) ==
  /\ pc[p] = "verify"
  /\ ~initialized
  /\ pc' = [pc EXCEPT ![p] = "idle"]
  /\ job' = [job EXCEPT ![p] = NoJob]
  /\ UNCHANGED <<files, lock, tries, pos, attempt, initialized, applied, crashes, history>>

\* A sub-task that cannot be verified is skipped.
NotVerifiedSkipsFault(p) ==
  /\ pc[p] = "verify"
  /\ ~initialized
  /\ GoOn(p)
  /\ UNCHANGED <<files, lock, tries, initialized, applied, crashes, history>>

\* process() returns False, for the job as for any of its sub-tasks.
NotVerified(p) ==
  /\ pc[p] = "verify"
  /\ ~initialized
  /\ pc' = [pc EXCEPT ![p] = "store"]
  /\ UNCHANGED <<files, lock, tries, job, pos, attempt, initialized, applied, crashes, history>>

CurrentCall(p) == calls[job[p]][pos[p]]

Accepted(c) == c \notin applied \/ c \in Repeatable

\* run() returns True; after the last call the worker is done with the job.
RunOk(p) ==
  /\ pc[p] = "run"
  /\ initialized
  /\ Accepted(CurrentCall(p))
  /\ applied' = applied \cup {CurrentCall(p)}
  /\ IF pos[p] < Len(calls[job[p]])
     THEN GoOn(p) /\ UNCHANGED done
     ELSE /\ done' = done \cup {job[p]}
          /\ job' = [job EXCEPT ![p] = NoJob]
          /\ pc' = [pc EXCEPT ![p] = "idle"]
          /\ UNCHANGED <<pos, attempt>>
  /\ UNCHANGED <<files, lock, tries, initialized, crashes, lost>>

\* The exception an attempt can end with.  A request whose answer is lost
\* (requests' Timeout) may have been carried out all the same.
Failure == [class : {"MSGraphError", "other"}, carriedOut : {FALSE}]
           \cup {[class |-> "other", carriedOut |-> TRUE]}

AfterFailure(p, f) ==
  IF f.carriedOut /\ initialized THEN applied \cup {CurrentCall(p)} ELSE applied

\* The attempts are not counted against a limit.
RetryUnlimitedFault(p) ==
  /\ pc[p] = "run"
  /\ \E f \in Failure : applied' = AfterFailure(p, f)
  /\ attempt' = [attempt EXCEPT ![p] = @ + 1]
  /\ UNCHANGED <<files, lock, pc, tries, job, pos, initialized, crashes, history>>

\* The attempts are not counted at all.
RetryUncountedFault(p) ==
  /\ pc[p] = "run"
  /\ \E f \in Failure : applied' = AfterFailure(p, f)
  /\ UNCHANGED <<files, procs, initialized, crashes, history>>

\* retrying.retry tries again after any exception.
Retry(p) ==
  /\ pc[p] = "run"
  /\ attempt[p] < MaxAttempts
  /\ \E f \in Failure : applied' = AfterFailure(p, f)
  /\ attempt' = [attempt EXCEPT ![p] = @ + 1]
  /\ UNCHANGED <<files, lock, pc, tries, job, pos, initialized, crashes, history>>

\* The exception is logged and the job counted as successful.
GiveUpFault(p) ==
  /\ pc[p] = "run"
  /\ initialized
  /\ attempt[p] = MaxAttempts
  /\ done' = done \cup {job[p]}
  /\ job' = [job EXCEPT ![p] = NoJob]
  /\ pc' = [pc EXCEPT ![p] = "idle"]
  /\ UNCHANGED <<files, lock, tries, pos, attempt, initialized, applied, crashes, lost>>

\* The last attempt's exception is raised: worker() catches MSGraphError
\* and nothing else.  Without the ids no request is sent that could end in
\* an MSGraphError.
GiveUp(p) ==
  /\ pc[p] = "run"
  /\ initialized
  /\ attempt[p] = MaxAttempts
  /\ pc' = [pc EXCEPT ![p] = "store"]
  /\ UNCHANGED <<files, lock, tries, job, pos, attempt, initialized, applied, crashes, history>>

Escape(p) ==
  /\ pc[p] = "run"
  /\ attempt[p] = MaxAttempts
  /\ \E f \in Failure : f.class = "other" /\ applied' = AfterFailure(p, f)
  /\ Exit(p)
  /\ UNCHANGED <<initialized, crashes>>

\* enqueue(task, error=True), as a temporary file and a rename.
StoreTmp(p) ==
  /\ pc[p] = "store"
  /\ tmp' = tmp \cup {job[p]}
  /\ pc' = [pc EXCEPT ![p] = "move"]
  /\ UNCHANGED <<clock, stamp, pending, failed, writing, lock, tries, job, pos, attempt,
                 initialized, applied, crashes, history>>

StoreFailed(p) ==
  /\ pc[p] = "move"
  /\ tmp' = tmp \ {job[p]}
  /\ failed' = failed \cup {job[p]}
  /\ job' = [job EXCEPT ![p] = NoJob]
  /\ pc' = [pc EXCEPT ![p] = "idle"]
  /\ UNCHANGED <<clock, stamp, pending, writing, lock, tries, pos, attempt,
                 initialized, applied, crashes, history>>

\* The process is killed, or the machine goes down under it.
Crash(p) ==
  /\ pc[p] # "off"
  /\ crashes < MaxCrashes
  /\ crashes' = crashes + 1
  /\ Exit(p)
  /\ UNCHANGED <<initialized, applied>>

-----------------------------------------------------------------------------
Listener == Publish \/ ListenerCrash \/ \E j \in Job : WriteTmp(j)

Run(p) == RunOk(p) \/ Retry(p) \/ GiveUp(p) \/ Escape(p)

\* What process p does of itself once it is started.
Work(p) ==
  \/ GetLock(p) \/ WaitForLock(p) \/ GiveUpLock(p)
  \/ Take(p) \/ ExitOnce(p)
  \/ Verified(p) \/ NotVerified(p) \/ Run(p)
  \/ StoreTmp(p) \/ StoreFailed(p)

Daemon(p) == Start(p) \/ Work(p) \/ Crash(p)

Next == Listener \/ ToggleInitialized \/ \E p \in Proc : Daemon(p)

Spec == Init /\ [][Next]_vars

\* The listener finishes what it began, a started process runs, and systemd
\* restarts the service whenever it has ended (Restart=always).  Nobody is
\* obliged to start an instance with --once or to change the connection.
Fairness ==
  /\ WF_vars(Publish)
  /\ \A p \in Proc : WF_vars(Work(p))
  /\ \A p \in Service : WF_vars(Start(p))

FairSpec == Spec /\ Fairness

-----------------------------------------------------------------------------
(* Properties                                                              *)

Working(p) == pc[p] \notin {"off", "locking"}

InMemory == {job[p] : p \in Proc} \ {NoJob}

\* The daemon is started by systemd and by hand; however the instances
\* interleave, die and give up waiting, at most one of them works on the
\* directory, and it is the one that holds the lock.
OneWorker == \A p \in Proc : Working(p) => lock = p

\* A job is in one place at a time: waiting, held by one process, kept under
\* failed/, finished or gone with a process.  In particular no job that was
\* taken out is ever run a second time, by the same or another instance.
OnePlace ==
  /\ \A p, q \in Proc : job[p] = job[q] /\ job[p] # NoJob => p = q
  /\ pending \cap (InMemory \cup failed \cup done \cup lost) = {}
  /\ InMemory \cap (failed \cup done \cup lost) = {}
  /\ failed \cap (done \cup lost) = {}
  /\ done \cap lost = {}

\* Every job the listener handed over is somewhere: no branch of the worker
\* forgets one, and one that is lost was lost with a process.
NothingVanishes ==
  {j \in Job : stamp[j] # 0}
    = pending \cup InMemory \cup failed \cup done \cup lost \cup ({writing} \ {NoJob})

\* A team needs its owners: while the daemon is at the job's own call, all
\* the sub-tasks have been carried out, through all their retries.
SubTasksFirst ==
  \A p \in Proc : pc[p] = "run" =>
    \A i \in 1 .. (pos[p] - 1) : calls[job[p]][i] \in applied

\* A job reported successful has had every one of its calls carried out.
DoneIsDone == \A j \in done : \A i \in DOMAIN calls[j] : calls[j][i] \in applied

\* Jobs are taken in the order in which they were handed over: as long as an
\* older job waits, no younger one has been taken out of the directory.
OldestFirst ==
  \A j \in pending : \A k \in InMemory \cup failed \cup done : stamp[k] < stamp[j]

\* Every job that reaches the directory is settled, whatever fails on the
\* way: ten attempts per call and a restarting daemon never leave it waiting
\* behind another job for ever.
EveryJobSettled ==
  \A j \in Job : j \in pending ~> j \in done \cup failed \cup lost

\* After any crash or giving up, some instance works again: the lock of a
\* dead process never keeps its successors out.
WorkerReturns == Service # {} => []<>(\E p \in Proc : Working(p))

\* The queue as the listener sees it.
JobStatus == [j \in Job |->
  CASE j \in done    -> "done"
    [] j \in failed  -> "failed"
    [] j \in lost    -> "lost"
    [] j \in InMemory -> "running"
    [] j \in pending -> "queued"
    [] OTHER         -> "new"]

Abstract == INSTANCE AsyncJobs WITH status <- JobStatus

\* The directory, the lock, the retries and the crashes implement the queue
\* of AsyncJobs: at most one run per job, one job at a time, calls in order.
ImplementsAsyncJobs == Abstract!Spec

=============================================================================
