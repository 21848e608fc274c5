-------------------------- MODULE AsyncQueueProofs --------------------------
(***************************************************************************)
(* Proofs about AsyncQueue, for any jobs, processes and bounds.  The       *)
(* inductive invariant IInv joins the checked invariants with what they    *)
(* rest on: which program points hold a job, that a job without a file is  *)
(* nowhere, and how far the running job's calls have been carried out.     *)
(***************************************************************************)
EXTENDS AsyncQueue, TLAPS

\* A process holds a job exactly between taking it and settling it.
JobHeld == \A p \in Proc : job[p] # NoJob <=> pc[p] \in {"verify", "run", "store", "move"}

\* What the listener is still writing, and what it has not begun, is nowhere.
Fresh ==
  \A j \in Job : stamp[j] = 0 \/ writing = j =>
    j \notin pending \cup failed \cup done \cup lost \cup InMemory

\* Where the process is in the job, and that everything before is done.
Progress ==
  \A p \in Proc :
    /\ pc[p] = "verify" => pos[p] < Len(calls[job[p]])
    /\ pc[p] = "run" => pos[p] \in 1 .. Len(calls[job[p]])
    /\ pc[p] \in {"verify", "run"} =>
         \A i \in 1 .. (pos[p] - 1) : calls[job[p]][i] \in applied

\* Files are named by a clock that never shows the same time twice.
Stamps ==
  /\ \A j \in Job : stamp[j] <= clock
  /\ \A j, k \in Job : stamp[j] = stamp[k] /\ stamp[j] # 0 => j = k
  /\ writing # NoJob => stamp[writing] = clock /\ clock # 0

IInv ==
  /\ TypeOK /\ JobHeld /\ OneWorker /\ OnePlace /\ Fresh
  /\ Progress /\ DoneIsDone /\ Stamps /\ OldestFirst

LEMMA CallsLen ==
  ASSUME NEW j \in Job
  PROVE  /\ calls[j] \in Seq(Call)
         /\ Len(calls[j]) \in Nat \ {0}
         /\ DOMAIN calls[j] = 1 .. Len(calls[j])
         /\ \A i \in 1 .. Len(calls[j]) : calls[j][i] \in Call
<1>1. calls[j] \in Seq(Call) /\ calls[j] # <<>>
  BY JobAssumption
<1>2. QED
  BY <1>1

LEMMA InitIInv == Init => IInv
<1> SUFFICES ASSUME Init PROVE IInv
  OBVIOUS
<1> USE JobAssumption, ProcAssumption DEF Init
<1>1. TypeOK
  BY DEF TypeOK, PC
<1>2. JobHeld /\ OneWorker /\ Progress
  BY DEF JobHeld, OneWorker, Working, Progress
<1>3. InMemory = {}
  BY DEF InMemory
<1>4. OnePlace /\ Fresh /\ DoneIsDone /\ Stamps /\ OldestFirst
  BY <1>3 DEF OnePlace, Fresh, DoneIsDone, Stamps, OldestFirst
<1>5. QED
  BY <1>1, <1>2, <1>4 DEF IInv
LEMMA GoOnType ==
  ASSUME TypeOK, NEW p \in Proc, GoOn(p)
  PROVE  /\ pc' \in [Proc -> PC]
         /\ pos' \in [Proc -> Nat]
         /\ attempt' \in [Proc -> 1 .. MaxAttempts]
         /\ job' = job
BY ProcAssumption DEF TypeOK, GoOn, PC


LEMMA AttemptGrows ==
  ASSUME NEW p \in Proc, NEW f \in Failure, applied' = AfterFailure(p, f)
  PROVE  applied \subseteq applied'
BY DEF AfterFailure


LEMMA NextTypeOK == IInv /\ [Next]_vars => TypeOK'
<1> SUFFICES ASSUME IInv, [Next]_vars PROVE TypeOK'
  OBVIOUS
<1> USE DEF IInv, TypeOK, JobHeld, Progress, PC, files, procs, history
<1>1. ASSUME NEW j \in Job, WriteTmp(j) PROVE TypeOK'
  BY <1>1 DEF WriteTmp
<1>2. ASSUME Publish PROVE TypeOK'
  BY <1>2 DEF Publish
<1>3. ASSUME ListenerCrash PROVE TypeOK'
  BY <1>3, ProcAssumption DEF ListenerCrash
<1>4. ASSUME ToggleInitialized PROVE TypeOK'
  BY <1>4 DEF ToggleInitialized
<1>5. ASSUME NEW p \in Proc, Start(p) PROVE TypeOK'
  BY <1>5 DEF Start
<1>6. ASSUME NEW p \in Proc, GetLock(p) PROVE TypeOK'
  BY <1>6 DEF GetLock
<1>7. ASSUME NEW p \in Proc, WaitForLock(p) PROVE TypeOK'
  BY <1>7, ProcAssumption DEF WaitForLock
<1>8. ASSUME NEW p \in Proc, GiveUpLock(p) PROVE TypeOK'
  BY <1>8, ProcAssumption DEF Exit, GiveUpLock
<1>9. ASSUME NEW p \in Proc, Take(p) PROVE TypeOK'
  BY <1>9, ProcAssumption DEF Take
<1>10. ASSUME NEW p \in Proc, ExitOnce(p) PROVE TypeOK'
  BY <1>10, ProcAssumption DEF Exit, ExitOnce
<1>11. ASSUME NEW p \in Proc, Verified(p) PROVE TypeOK'
  <2>1. CASE pos[p] = 0
    BY <1>11, <2>1, GoOnType DEF Verified
  <2>2. CASE pos[p] # 0
    BY <1>11, <2>2 DEF Verified
  <2> QED
    BY <2>1, <2>2
<1>12. ASSUME NEW p \in Proc, NotVerified(p) PROVE TypeOK'
  BY <1>12 DEF NotVerified
<1>13. ASSUME NEW p \in Proc, RunOk(p) PROVE TypeOK'
  <2>1. applied' \subseteq Call
    BY <1>13, CallsLen DEF RunOk, CurrentCall
  <2>2. CASE pos[p] < Len(calls[job[p]])
    BY <1>13, <2>1, <2>2, GoOnType DEF RunOk
  <2>3. CASE ~(pos[p] < Len(calls[job[p]]))
    <3>1. job[p] \in Job
      BY <1>13 DEF RunOk
    <3>2. done' \subseteq Job
      BY <1>13, <2>3, <3>1 DEF RunOk
    <3>3. pc' \in [Proc -> PC] /\ job' \in [Proc -> Job \cup {NoJob}]
      BY <1>13, <2>3 DEF RunOk
    <3> QED
      BY <1>13, <2>1, <2>3, <3>2, <3>3 DEF RunOk
  <2> QED
    BY <2>2, <2>3
<1>14. ASSUME NEW p \in Proc, Retry(p) PROVE TypeOK'
  <2>1. applied' \subseteq Call
    BY <1>14, CallsLen DEF Retry, AfterFailure, CurrentCall
  <2>2. attempt' \in [Proc -> 1 .. MaxAttempts]
    BY <1>14, ProcAssumption DEF Retry
  <2> QED
    BY <1>14, <2>1, <2>2 DEF Retry
<1>15. ASSUME NEW p \in Proc, GiveUp(p) PROVE TypeOK'
  <2>1. pc' \in [Proc -> PC]
    BY <1>15 DEF GiveUp
  <2> QED
    BY <1>15, <2>1 DEF GiveUp
<1>16. ASSUME NEW p \in Proc, Escape(p) PROVE TypeOK'
  <2>1. applied' \subseteq Call
    BY <1>16, CallsLen DEF Escape, AfterFailure, CurrentCall
  <2> QED
    BY <1>16, <2>1, ProcAssumption DEF Escape, Exit
<1>17. ASSUME NEW p \in Proc, StoreTmp(p) PROVE TypeOK'
  BY <1>17 DEF StoreTmp
<1>18. ASSUME NEW p \in Proc, StoreFailed(p) PROVE TypeOK'
  BY <1>18 DEF StoreFailed
<1>19. ASSUME NEW p \in Proc, Crash(p) PROVE TypeOK'
  BY <1>19, ProcAssumption DEF Exit, Crash
<1>20. CASE UNCHANGED vars
  BY <1>20 DEF vars
<1>21. QED
  BY <1>1, <1>2, <1>3, <1>4, <1>5, <1>6, <1>7, <1>8, <1>9, <1>10, <1>11,
     <1>12, <1>13, <1>14, <1>15, <1>16, <1>17, <1>18, <1>19, <1>20 DEF Next,
     Listener, Daemon, Work, Run

LEMMA NextJobHeld == IInv /\ [Next]_vars => JobHeld'
<1> SUFFICES ASSUME IInv, [Next]_vars PROVE JobHeld'
  OBVIOUS
<1> USE DEF IInv, TypeOK, JobHeld, PC, files, procs, history
<1>1. ASSUME NEW j \in Job, WriteTmp(j) PROVE JobHeld'
  BY <1>1 DEF WriteTmp
<1>2. ASSUME Publish PROVE JobHeld'
  BY <1>2 DEF Publish
<1>3. ASSUME ListenerCrash PROVE JobHeld'
  BY <1>3 DEF ListenerCrash
<1>4. ASSUME ToggleInitialized PROVE JobHeld'
  BY <1>4 DEF ToggleInitialized
<1>5. ASSUME NEW p \in Proc, Start(p) PROVE JobHeld'
  BY <1>5 DEF Start
<1>6. ASSUME NEW p \in Proc, GetLock(p) PROVE JobHeld'
  BY <1>6 DEF GetLock
<1>7. ASSUME NEW p \in Proc, WaitForLock(p) PROVE JobHeld'
  BY <1>7 DEF WaitForLock
<1>8. ASSUME NEW p \in Proc, GiveUpLock(p) PROVE JobHeld'
  BY <1>8, JobAssumption DEF Exit, GiveUpLock
<1>9. ASSUME NEW p \in Proc, Take(p) PROVE JobHeld'
  BY <1>9, JobAssumption DEF Take
<1>10. ASSUME NEW p \in Proc, ExitOnce(p) PROVE JobHeld'
  BY <1>10 DEF Exit, ExitOnce
<1>11. ASSUME NEW p \in Proc, Verified(p) PROVE JobHeld'
  BY <1>11 DEF GoOn, Verified
<1>12. ASSUME NEW p \in Proc, NotVerified(p) PROVE JobHeld'
  BY <1>12 DEF NotVerified
<1>13. ASSUME NEW p \in Proc, RunOk(p) PROVE JobHeld'
  BY <1>13 DEF GoOn, RunOk
<1>14. ASSUME NEW p \in Proc, Retry(p) PROVE JobHeld'
  BY <1>14 DEF Retry
<1>15. ASSUME NEW p \in Proc, GiveUp(p) PROVE JobHeld'
  BY <1>15 DEF GiveUp
<1>16. ASSUME NEW p \in Proc, Escape(p) PROVE JobHeld'
  BY <1>16 DEF Exit, Escape
<1>17. ASSUME NEW p \in Proc, StoreTmp(p) PROVE JobHeld'
  BY <1>17 DEF StoreTmp
<1>18. ASSUME NEW p \in Proc, StoreFailed(p) PROVE JobHeld'
  BY <1>18 DEF StoreFailed
<1>19. ASSUME NEW p \in Proc, Crash(p) PROVE JobHeld'
  BY <1>19 DEF Exit, Crash
<1>20. CASE UNCHANGED vars
  BY <1>20 DEF vars
<1>21. QED
  BY <1>1, <1>2, <1>3, <1>4, <1>5, <1>6, <1>7, <1>8, <1>9, <1>10, <1>11,
     <1>12, <1>13, <1>14, <1>15, <1>16, <1>17, <1>18, <1>19, <1>20 DEF Next,
     Listener, Daemon, Work, Run

LEMMA NextOneWorker == IInv /\ [Next]_vars => OneWorker'
<1> SUFFICES ASSUME IInv, [Next]_vars PROVE OneWorker'
  OBVIOUS
<1> USE DEF IInv, TypeOK, OneWorker, Working, files, procs, history
<1>1. ASSUME NEW j \in Job, WriteTmp(j) PROVE OneWorker'
  BY <1>1 DEF WriteTmp
<1>2. ASSUME Publish PROVE OneWorker'
  BY <1>2 DEF Publish
<1>3. ASSUME ListenerCrash PROVE OneWorker'
  BY <1>3 DEF ListenerCrash
<1>4. ASSUME ToggleInitialized PROVE OneWorker'
  BY <1>4 DEF ToggleInitialized
<1>5. ASSUME NEW p \in Proc, Start(p) PROVE OneWorker'
  BY <1>5 DEF Start
<1>6. ASSUME NEW p \in Proc, GetLock(p) PROVE OneWorker'
  BY <1>6, ProcAssumption DEF GetLock
<1>7. ASSUME NEW p \in Proc, WaitForLock(p) PROVE OneWorker'
  BY <1>7 DEF WaitForLock
<1>8. ASSUME NEW p \in Proc, GiveUpLock(p) PROVE OneWorker'
  BY <1>8 DEF Exit, GiveUpLock
<1>9. ASSUME NEW p \in Proc, Take(p) PROVE OneWorker'
  BY <1>9 DEF Take
<1>10. ASSUME NEW p \in Proc, ExitOnce(p) PROVE OneWorker'
  BY <1>10 DEF Exit, ExitOnce
<1>11. ASSUME NEW p \in Proc, Verified(p) PROVE OneWorker'
  BY <1>11 DEF GoOn, Verified
<1>12. ASSUME NEW p \in Proc, NotVerified(p) PROVE OneWorker'
  BY <1>12 DEF NotVerified
<1>13. ASSUME NEW p \in Proc, RunOk(p) PROVE OneWorker'
  BY <1>13 DEF GoOn, RunOk
<1>14. ASSUME NEW p \in Proc, Retry(p) PROVE OneWorker'
  BY <1>14 DEF Retry
<1>15. ASSUME NEW p \in Proc, GiveUp(p) PROVE OneWorker'
  BY <1>15 DEF GiveUp
<1>16. ASSUME NEW p \in Proc, Escape(p) PROVE OneWorker'
  BY <1>16 DEF Exit, Escape
<1>17. ASSUME NEW p \in Proc, StoreTmp(p) PROVE OneWorker'
  BY <1>17 DEF StoreTmp
<1>18. ASSUME NEW p \in Proc, StoreFailed(p) PROVE OneWorker'
  BY <1>18 DEF StoreFailed
<1>19. ASSUME NEW p \in Proc, Crash(p) PROVE OneWorker'
  BY <1>19 DEF Exit, Crash
<1>20. CASE UNCHANGED vars
  BY <1>20 DEF vars
<1>21. QED
  BY <1>1, <1>2, <1>3, <1>4, <1>5, <1>6, <1>7, <1>8, <1>9, <1>10, <1>11,
     <1>12, <1>13, <1>14, <1>15, <1>16, <1>17, <1>18, <1>19, <1>20 DEF Next,
     Listener, Daemon, Work, Run

LEMMA NextOnePlace == IInv /\ [Next]_vars => OnePlace'
<1> SUFFICES ASSUME IInv, [Next]_vars PROVE OnePlace'
  OBVIOUS
<1> USE DEF IInv, TypeOK, JobHeld, OneWorker, Working, OnePlace, Fresh, InMemory, files, procs, history
<1>1. ASSUME NEW j \in Job, WriteTmp(j) PROVE OnePlace'
  BY <1>1 DEF WriteTmp
<1>2. ASSUME Publish PROVE OnePlace'
  BY <1>2 DEF Publish
<1>3. ASSUME ListenerCrash PROVE OnePlace'
  BY <1>3 DEF ListenerCrash
<1>4. ASSUME ToggleInitialized PROVE OnePlace'
  BY <1>4 DEF ToggleInitialized
<1>5. ASSUME NEW p \in Proc, Start(p) PROVE OnePlace'
  BY <1>5 DEF Start
<1>6. ASSUME NEW p \in Proc, GetLock(p) PROVE OnePlace'
  BY <1>6 DEF GetLock
<1>7. ASSUME NEW p \in Proc, WaitForLock(p) PROVE OnePlace'
  BY <1>7 DEF WaitForLock
<1>8. ASSUME NEW p \in Proc, GiveUpLock(p) PROVE OnePlace'
  BY <1>8 DEF Exit, GiveUpLock
<1>9. ASSUME NEW p \in Proc, Take(p) PROVE OnePlace'
  BY <1>9 DEF Take
<1>10. ASSUME NEW p \in Proc, ExitOnce(p) PROVE OnePlace'
  BY <1>10 DEF Exit, ExitOnce
<1>11. ASSUME NEW p \in Proc, Verified(p) PROVE OnePlace'
  BY <1>11 DEF GoOn, Verified
<1>12. ASSUME NEW p \in Proc, NotVerified(p) PROVE OnePlace'
  BY <1>12 DEF NotVerified
<1>13. ASSUME NEW p \in Proc, RunOk(p) PROVE OnePlace'
  <2>1. job[p] # NoJob /\ job[p] \in Job
    BY <1>13 DEF RunOk
  <2>2. CASE pos[p] < Len(calls[job[p]])
    BY <1>13, <2>2 DEF RunOk, GoOn
  <2>3. CASE ~(pos[p] < Len(calls[job[p]]))
    <3>1. /\ done' = done \cup {job[p]}
          /\ job' = [job EXCEPT ![p] = NoJob]
          /\ UNCHANGED <<pending, failed, lost>>
      BY <1>13, <2>3 DEF RunOk
    <3>2. InMemory' = InMemory \ {job[p]}
      BY <2>1, <3>1
    <3>3. job[p] \in InMemory
      BY <2>1
    <3> QED
      BY <2>1, <3>1, <3>2, <3>3
  <2> QED
    BY <2>2, <2>3
<1>14. ASSUME NEW p \in Proc, Retry(p) PROVE OnePlace'
  BY <1>14 DEF Retry
<1>15. ASSUME NEW p \in Proc, GiveUp(p) PROVE OnePlace'
  BY <1>15 DEF GiveUp
<1>16. ASSUME NEW p \in Proc, Escape(p) PROVE OnePlace'
  BY <1>16 DEF Exit, Escape
<1>17. ASSUME NEW p \in Proc, StoreTmp(p) PROVE OnePlace'
  BY <1>17 DEF StoreTmp
<1>18. ASSUME NEW p \in Proc, StoreFailed(p) PROVE OnePlace'
  BY <1>18 DEF StoreFailed
<1>19. ASSUME NEW p \in Proc, Crash(p) PROVE OnePlace'
  BY <1>19 DEF Exit, Crash
<1>20. CASE UNCHANGED vars
  BY <1>20 DEF vars
<1>21. QED
  BY <1>1, <1>2, <1>3, <1>4, <1>5, <1>6, <1>7, <1>8, <1>9, <1>10, <1>11,
     <1>12, <1>13, <1>14, <1>15, <1>16, <1>17, <1>18, <1>19, <1>20 DEF Next,
     Listener, Daemon, Work, Run

LEMMA NextFresh == IInv /\ [Next]_vars => Fresh'
<1> SUFFICES ASSUME IInv, [Next]_vars PROVE Fresh'
  OBVIOUS
<1> USE DEF IInv, TypeOK, JobHeld, OnePlace, Fresh, InMemory, files, procs, history
<1>1. ASSUME NEW j \in Job, WriteTmp(j) PROVE Fresh'
  BY <1>1 DEF WriteTmp
<1>2. ASSUME Publish PROVE Fresh'
  BY <1>2, JobAssumption DEF Stamps, Publish
<1>3. ASSUME ListenerCrash PROVE Fresh'
  BY <1>3, JobAssumption DEF Stamps, ListenerCrash
<1>4. ASSUME ToggleInitialized PROVE Fresh'
  BY <1>4 DEF ToggleInitialized
<1>5. ASSUME NEW p \in Proc, Start(p) PROVE Fresh'
  BY <1>5 DEF Start
<1>6. ASSUME NEW p \in Proc, GetLock(p) PROVE Fresh'
  BY <1>6 DEF GetLock
<1>7. ASSUME NEW p \in Proc, WaitForLock(p) PROVE Fresh'
  BY <1>7 DEF WaitForLock
<1>8. ASSUME NEW p \in Proc, GiveUpLock(p) PROVE Fresh'
  BY <1>8 DEF Exit, GiveUpLock
<1>9. ASSUME NEW p \in Proc, Take(p) PROVE Fresh'
  BY <1>9 DEF Take
<1>10. ASSUME NEW p \in Proc, ExitOnce(p) PROVE Fresh'
  BY <1>10 DEF Exit, ExitOnce
<1>11. ASSUME NEW p \in Proc, Verified(p) PROVE Fresh'
  BY <1>11 DEF GoOn, Verified
<1>12. ASSUME NEW p \in Proc, NotVerified(p) PROVE Fresh'
  BY <1>12 DEF NotVerified
<1>13. ASSUME NEW p \in Proc, RunOk(p) PROVE Fresh'
  BY <1>13 DEF GoOn, RunOk
<1>14. ASSUME NEW p \in Proc, Retry(p) PROVE Fresh'
  BY <1>14 DEF Retry
<1>15. ASSUME NEW p \in Proc, GiveUp(p) PROVE Fresh'
  BY <1>15 DEF GiveUp
<1>16. ASSUME NEW p \in Proc, Escape(p) PROVE Fresh'
  BY <1>16 DEF Exit, Escape
<1>17. ASSUME NEW p \in Proc, StoreTmp(p) PROVE Fresh'
  BY <1>17 DEF StoreTmp
<1>18. ASSUME NEW p \in Proc, StoreFailed(p) PROVE Fresh'
  BY <1>18 DEF StoreFailed
<1>19. ASSUME NEW p \in Proc, Crash(p) PROVE Fresh'
  BY <1>19 DEF Exit, Crash
<1>20. CASE UNCHANGED vars
  BY <1>20 DEF vars
<1>21. QED
  BY <1>1, <1>2, <1>3, <1>4, <1>5, <1>6, <1>7, <1>8, <1>9, <1>10, <1>11,
     <1>12, <1>13, <1>14, <1>15, <1>16, <1>17, <1>18, <1>19, <1>20 DEF Next,
     Listener, Daemon, Work, Run

LEMMA NextProgress == IInv /\ [Next]_vars => Progress'
<1> SUFFICES ASSUME IInv, [Next]_vars PROVE Progress'
  OBVIOUS
<1> USE DEF IInv, TypeOK, JobHeld, Progress, files, procs, history
<1>1. ASSUME NEW j \in Job, WriteTmp(j) PROVE Progress'
  BY <1>1 DEF WriteTmp
<1>2. ASSUME Publish PROVE Progress'
  BY <1>2 DEF Publish
<1>3. ASSUME ListenerCrash PROVE Progress'
  BY <1>3 DEF ListenerCrash
<1>4. ASSUME ToggleInitialized PROVE Progress'
  BY <1>4 DEF ToggleInitialized
<1>5. ASSUME NEW p \in Proc, Start(p) PROVE Progress'
  BY <1>5 DEF Start
<1>6. ASSUME NEW p \in Proc, GetLock(p) PROVE Progress'
  BY <1>6 DEF GetLock
<1>7. ASSUME NEW p \in Proc, WaitForLock(p) PROVE Progress'
  BY <1>7 DEF WaitForLock
<1>8. ASSUME NEW p \in Proc, GiveUpLock(p) PROVE Progress'
  BY <1>8 DEF Exit, GiveUpLock
<1>9. ASSUME NEW p \in Proc, Take(p) PROVE Progress'
  BY <1>9, CallsLen DEF Take
<1>10. ASSUME NEW p \in Proc, ExitOnce(p) PROVE Progress'
  BY <1>10 DEF Exit, ExitOnce
<1>11. ASSUME NEW p \in Proc, Verified(p) PROVE Progress'
  BY <1>11, CallsLen DEF GoOn, Verified
<1>12. ASSUME NEW p \in Proc, NotVerified(p) PROVE Progress'
  BY <1>12 DEF NotVerified
<1>13. ASSUME NEW p \in Proc, RunOk(p) PROVE Progress'
  <2>1. applied' = applied \cup {calls[job[p]][pos[p]]}
    BY <1>13 DEF RunOk, CurrentCall
  <2>2. CASE pos[p] < Len(calls[job[p]])
    <3>1. /\ job' = job
          /\ pos' = [pos EXCEPT ![p] = @ + 1]
          /\ pc' = [pc EXCEPT ![p] = IF pos[p] + 1 < Len(calls[job[p]]) THEN "verify" ELSE "run"]
      BY <1>13, <2>2 DEF RunOk, GoOn
    <3>2. job[p] \in Job /\ Len(calls[job[p]]) \in Nat /\ pos[p] \in Nat \ {0}
      BY <1>13, CallsLen DEF RunOk
    <3>3. \A i \in 1 .. pos[p] : calls[job[p]][i] \in applied'
      BY <1>13, <2>1, <3>2 DEF RunOk
    <3> SUFFICES ASSUME NEW q \in Proc PROVE Progress!(q)'
      BY DEF Progress
    <3> QED
      BY <2>1, <2>2, <3>1, <3>2, <3>3
  <2>3. CASE ~(pos[p] < Len(calls[job[p]]))
    BY <1>13, <2>1, <2>3 DEF RunOk
  <2> QED
    BY <2>2, <2>3
<1>14. ASSUME NEW p \in Proc, Retry(p) PROVE Progress'
  <2>1. applied \subseteq applied'
    BY <1>14, AttemptGrows DEF Retry
  <2> QED
    BY <1>14, <2>1 DEF Retry
<1>15. ASSUME NEW p \in Proc, GiveUp(p) PROVE Progress'
  BY <1>15 DEF GiveUp
<1>16. ASSUME NEW p \in Proc, Escape(p) PROVE Progress'
  <2>1. applied \subseteq applied'
    BY <1>16, AttemptGrows DEF Escape
  <2> QED
    BY <1>16, <2>1 DEF Escape, Exit
<1>17. ASSUME NEW p \in Proc, StoreTmp(p) PROVE Progress'
  BY <1>17 DEF StoreTmp
<1>18. ASSUME NEW p \in Proc, StoreFailed(p) PROVE Progress'
  BY <1>18 DEF StoreFailed
<1>19. ASSUME NEW p \in Proc, Crash(p) PROVE Progress'
  BY <1>19 DEF Exit, Crash
<1>20. CASE UNCHANGED vars
  BY <1>20 DEF vars
<1>21. QED
  BY <1>1, <1>2, <1>3, <1>4, <1>5, <1>6, <1>7, <1>8, <1>9, <1>10, <1>11,
     <1>12, <1>13, <1>14, <1>15, <1>16, <1>17, <1>18, <1>19, <1>20 DEF Next,
     Listener, Daemon, Work, Run

LEMMA NextDoneIsDone == IInv /\ [Next]_vars => DoneIsDone'
<1> SUFFICES ASSUME IInv, [Next]_vars PROVE DoneIsDone'
  OBVIOUS
<1> USE DEF IInv, TypeOK, JobHeld, Progress, DoneIsDone, files, procs, history
<1>1. ASSUME NEW j \in Job, WriteTmp(j) PROVE DoneIsDone'
  BY <1>1 DEF WriteTmp
<1>2. ASSUME Publish PROVE DoneIsDone'
  BY <1>2 DEF Publish
<1>3. ASSUME ListenerCrash PROVE DoneIsDone'
  BY <1>3 DEF ListenerCrash
<1>4. ASSUME ToggleInitialized PROVE DoneIsDone'
  BY <1>4 DEF ToggleInitialized
<1>5. ASSUME NEW p \in Proc, Start(p) PROVE DoneIsDone'
  BY <1>5 DEF Start
<1>6. ASSUME NEW p \in Proc, GetLock(p) PROVE DoneIsDone'
  BY <1>6 DEF GetLock
<1>7. ASSUME NEW p \in Proc, WaitForLock(p) PROVE DoneIsDone'
  BY <1>7 DEF WaitForLock
<1>8. ASSUME NEW p \in Proc, GiveUpLock(p) PROVE DoneIsDone'
  BY <1>8 DEF Exit, GiveUpLock
<1>9. ASSUME NEW p \in Proc, Take(p) PROVE DoneIsDone'
  BY <1>9 DEF Take
<1>10. ASSUME NEW p \in Proc, ExitOnce(p) PROVE DoneIsDone'
  BY <1>10 DEF Exit, ExitOnce
<1>11. ASSUME NEW p \in Proc, Verified(p) PROVE DoneIsDone'
  BY <1>11 DEF GoOn, Verified
<1>12. ASSUME NEW p \in Proc, NotVerified(p) PROVE DoneIsDone'
  BY <1>12 DEF NotVerified
<1>13. ASSUME NEW p \in Proc, RunOk(p) PROVE DoneIsDone'
  <2>1. applied' = applied \cup {calls[job[p]][pos[p]]} /\ pc[p] = "run"
    BY <1>13 DEF RunOk, CurrentCall
  <2>2. CASE pos[p] < Len(calls[job[p]])
    BY <1>13, <2>1, <2>2 DEF RunOk
  <2>3. CASE ~(pos[p] < Len(calls[job[p]]))
    <3>1. done' = done \cup {job[p]}
      BY <1>13, <2>3 DEF RunOk
    <3>2. /\ job[p] \in Job
          /\ Len(calls[job[p]]) \in Nat
          /\ DOMAIN calls[job[p]] = 1 .. Len(calls[job[p]])
      BY <2>1, CallsLen
    <3>3. pos[p] = Len(calls[job[p]])
      BY <2>1, <2>3, <3>2
    <3>4. \A i \in DOMAIN calls[job[p]] : calls[job[p]][i] \in applied'
      BY <2>1, <3>2, <3>3
    <3> QED
      BY <2>1, <3>1, <3>4
  <2> QED
    BY <2>2, <2>3
<1>14. ASSUME NEW p \in Proc, Retry(p) PROVE DoneIsDone'
  <2>1. applied \subseteq applied'
    BY <1>14, AttemptGrows DEF Retry
  <2> QED
    BY <1>14, <2>1 DEF Retry
<1>15. ASSUME NEW p \in Proc, GiveUp(p) PROVE DoneIsDone'
  BY <1>15 DEF GiveUp
<1>16. ASSUME NEW p \in Proc, Escape(p) PROVE DoneIsDone'
  <2>1. applied \subseteq applied'
    BY <1>16, AttemptGrows DEF Escape
  <2> QED
    BY <1>16, <2>1 DEF Escape, Exit
<1>17. ASSUME NEW p \in Proc, StoreTmp(p) PROVE DoneIsDone'
  BY <1>17 DEF StoreTmp
<1>18. ASSUME NEW p \in Proc, StoreFailed(p) PROVE DoneIsDone'
  BY <1>18 DEF StoreFailed
<1>19. ASSUME NEW p \in Proc, Crash(p) PROVE DoneIsDone'
  BY <1>19 DEF Exit, Crash
<1>20. CASE UNCHANGED vars
  BY <1>20 DEF vars
<1>21. QED
  BY <1>1, <1>2, <1>3, <1>4, <1>5, <1>6, <1>7, <1>8, <1>9, <1>10, <1>11,
     <1>12, <1>13, <1>14, <1>15, <1>16, <1>17, <1>18, <1>19, <1>20 DEF Next,
     Listener, Daemon, Work, Run

LEMMA NextStamps == IInv /\ [Next]_vars => Stamps'
<1> SUFFICES ASSUME IInv, [Next]_vars PROVE Stamps'
  OBVIOUS
<1> USE DEF IInv, TypeOK, Stamps, files, procs, history
<1>1. ASSUME NEW j \in Job, WriteTmp(j) PROVE Stamps'
  BY <1>1, JobAssumption DEF WriteTmp
<1>2. ASSUME Publish PROVE Stamps'
  BY <1>2 DEF Publish
<1>3. ASSUME ListenerCrash PROVE Stamps'
  BY <1>3 DEF ListenerCrash
<1>4. ASSUME ToggleInitialized PROVE Stamps'
  BY <1>4 DEF ToggleInitialized
<1>5. ASSUME NEW p \in Proc, Start(p) PROVE Stamps'
  BY <1>5 DEF Start
<1>6. ASSUME NEW p \in Proc, GetLock(p) PROVE Stamps'
  BY <1>6 DEF GetLock
<1>7. ASSUME NEW p \in Proc, WaitForLock(p) PROVE Stamps'
  BY <1>7 DEF WaitForLock
<1>8. ASSUME NEW p \in Proc, GiveUpLock(p) PROVE Stamps'
  BY <1>8 DEF Exit, GiveUpLock
<1>9. ASSUME NEW p \in Proc, Take(p) PROVE Stamps'
  BY <1>9 DEF Take
<1>10. ASSUME NEW p \in Proc, ExitOnce(p) PROVE Stamps'
  BY <1>10 DEF Exit, ExitOnce
<1>11. ASSUME NEW p \in Proc, Verified(p) PROVE Stamps'
  BY <1>11 DEF GoOn, Verified
<1>12. ASSUME NEW p \in Proc, NotVerified(p) PROVE Stamps'
  BY <1>12 DEF NotVerified
<1>13. ASSUME NEW p \in Proc, RunOk(p) PROVE Stamps'
  BY <1>13 DEF GoOn, RunOk
<1>14. ASSUME NEW p \in Proc, Retry(p) PROVE Stamps'
  BY <1>14 DEF Retry
<1>15. ASSUME NEW p \in Proc, GiveUp(p) PROVE Stamps'
  BY <1>15 DEF GiveUp
<1>16. ASSUME NEW p \in Proc, Escape(p) PROVE Stamps'
  BY <1>16 DEF Exit, Escape
<1>17. ASSUME NEW p \in Proc, StoreTmp(p) PROVE Stamps'
  BY <1>17 DEF StoreTmp
<1>18. ASSUME NEW p \in Proc, StoreFailed(p) PROVE Stamps'
  BY <1>18 DEF StoreFailed
<1>19. ASSUME NEW p \in Proc, Crash(p) PROVE Stamps'
  BY <1>19 DEF Exit, Crash
<1>20. CASE UNCHANGED vars
  BY <1>20 DEF vars
<1>21. QED
  BY <1>1, <1>2, <1>3, <1>4, <1>5, <1>6, <1>7, <1>8, <1>9, <1>10, <1>11,
     <1>12, <1>13, <1>14, <1>15, <1>16, <1>17, <1>18, <1>19, <1>20 DEF Next,
     Listener, Daemon, Work, Run

LEMMA NextOldestFirst == IInv /\ [Next]_vars => OldestFirst'
<1> SUFFICES ASSUME IInv, [Next]_vars PROVE OldestFirst'
  OBVIOUS
<1> USE DEF IInv, TypeOK, JobHeld, OnePlace, Fresh, Stamps, OldestFirst, InMemory, files, procs, history
<1>1. ASSUME NEW j \in Job, WriteTmp(j) PROVE OldestFirst'
  BY <1>1 DEF WriteTmp
<1>2. ASSUME Publish PROVE OldestFirst'
  BY <1>2 DEF Publish
<1>3. ASSUME ListenerCrash PROVE OldestFirst'
  BY <1>3 DEF ListenerCrash
<1>4. ASSUME ToggleInitialized PROVE OldestFirst'
  BY <1>4 DEF ToggleInitialized
<1>5. ASSUME NEW p \in Proc, Start(p) PROVE OldestFirst'
  BY <1>5 DEF Start
<1>6. ASSUME NEW p \in Proc, GetLock(p) PROVE OldestFirst'
  BY <1>6 DEF GetLock
<1>7. ASSUME NEW p \in Proc, WaitForLock(p) PROVE OldestFirst'
  BY <1>7 DEF WaitForLock
<1>8. ASSUME NEW p \in Proc, GiveUpLock(p) PROVE OldestFirst'
  BY <1>8 DEF Exit, GiveUpLock
<1>9. ASSUME NEW p \in Proc, Take(p) PROVE OldestFirst'
  <2>1. PICK j \in pending : /\ \A k \in pending : stamp[j] <= stamp[k]
                           /\ pending' = pending \ {j}
                           /\ job' = [job EXCEPT ![p] = j]
    BY <1>9 DEF Take, NextJob
  <2>2. \A k \in pending' : stamp[j] < stamp[k]
    BY <2>1
  <2>3. InMemory' \subseteq InMemory \cup {j}
    BY <2>1
  <2> QED
    BY <1>9, <2>1, <2>2, <2>3 DEF Take
<1>10. ASSUME NEW p \in Proc, ExitOnce(p) PROVE OldestFirst'
  BY <1>10 DEF Exit, ExitOnce
<1>11. ASSUME NEW p \in Proc, Verified(p) PROVE OldestFirst'
  BY <1>11 DEF GoOn, Verified
<1>12. ASSUME NEW p \in Proc, NotVerified(p) PROVE OldestFirst'
  BY <1>12 DEF NotVerified
<1>13. ASSUME NEW p \in Proc, RunOk(p) PROVE OldestFirst'
  BY <1>13 DEF GoOn, RunOk
<1>14. ASSUME NEW p \in Proc, Retry(p) PROVE OldestFirst'
  BY <1>14 DEF Retry
<1>15. ASSUME NEW p \in Proc, GiveUp(p) PROVE OldestFirst'
  BY <1>15 DEF GiveUp
<1>16. ASSUME NEW p \in Proc, Escape(p) PROVE OldestFirst'
  BY <1>16 DEF Exit, Escape
<1>17. ASSUME NEW p \in Proc, StoreTmp(p) PROVE OldestFirst'
  BY <1>17 DEF StoreTmp
<1>18. ASSUME NEW p \in Proc, StoreFailed(p) PROVE OldestFirst'
  BY <1>18 DEF StoreFailed
<1>19. ASSUME NEW p \in Proc, Crash(p) PROVE OldestFirst'
  BY <1>19 DEF Exit, Crash
<1>20. CASE UNCHANGED vars
  BY <1>20 DEF vars
<1>21. QED
  BY <1>1, <1>2, <1>3, <1>4, <1>5, <1>6, <1>7, <1>8, <1>9, <1>10, <1>11,
     <1>12, <1>13, <1>14, <1>15, <1>16, <1>17, <1>18, <1>19, <1>20 DEF Next,
     Listener, Daemon, Work, Run

THEOREM Invariance == Spec => []IInv
<1>1. IInv /\ [Next]_vars => IInv'
  BY NextTypeOK, NextJobHeld, NextOneWorker, NextOnePlace, NextFresh,
     NextProgress, NextDoneIsDone, NextStamps, NextOldestFirst DEF IInv
<1>2. QED
  BY InitIInv, <1>1, PTL DEF Spec

LEMMA NextNothingVanishes == IInv /\ NothingVanishes /\ [Next]_vars => NothingVanishes'
<1> SUFFICES ASSUME IInv /\ NothingVanishes, [Next]_vars PROVE NothingVanishes'
  OBVIOUS
<1> USE DEF IInv, TypeOK, JobHeld, OnePlace, Fresh, Stamps, NothingVanishes, InMemory, files, procs, history
<1>1. ASSUME NEW j \in Job, WriteTmp(j) PROVE NothingVanishes'
  BY <1>1, JobAssumption DEF WriteTmp
<1>2. ASSUME Publish PROVE NothingVanishes'
  BY <1>2 DEF Publish
<1>3. ASSUME ListenerCrash PROVE NothingVanishes'
  BY <1>3 DEF ListenerCrash
<1>4. ASSUME ToggleInitialized PROVE NothingVanishes'
  BY <1>4 DEF ToggleInitialized
<1>5. ASSUME NEW p \in Proc, Start(p) PROVE NothingVanishes'
  BY <1>5 DEF Start
<1>6. ASSUME NEW p \in Proc, GetLock(p) PROVE NothingVanishes'
  BY <1>6 DEF GetLock
<1>7. ASSUME NEW p \in Proc, WaitForLock(p) PROVE NothingVanishes'
  BY <1>7 DEF WaitForLock
<1>8. ASSUME NEW p \in Proc, GiveUpLock(p) PROVE NothingVanishes'
  BY <1>8 DEF Exit, GiveUpLock
<1>9. ASSUME NEW p \in Proc, Take(p) PROVE NothingVanishes'
  <2>1. PICK j \in pending : /\ pending' = pending \ {j}
                           /\ job' = [job EXCEPT ![p] = j]
    BY <1>9 DEF Take
  <2>2. job[p] = NoJob
    BY <1>9 DEF Take
  <2>3. InMemory' = InMemory \cup {j}
    BY <2>1, <2>2, JobAssumption
  <2>4. UNCHANGED <<stamp, failed, done, lost, writing>>
    BY <1>9 DEF Take
  <2> HIDE DEF InMemory
  <2>5. pending \cup InMemory = pending' \cup InMemory'
    BY <2>1, <2>3
  <2> QED
    BY <2>4, <2>5 DEF NothingVanishes
<1>10. ASSUME NEW p \in Proc, ExitOnce(p) PROVE NothingVanishes'
  BY <1>10 DEF Exit, ExitOnce
<1>11. ASSUME NEW p \in Proc, Verified(p) PROVE NothingVanishes'
  BY <1>11 DEF GoOn, Verified
<1>12. ASSUME NEW p \in Proc, NotVerified(p) PROVE NothingVanishes'
  BY <1>12 DEF NotVerified
<1>13. ASSUME NEW p \in Proc, RunOk(p) PROVE NothingVanishes'
  BY <1>13 DEF GoOn, RunOk
<1>14. ASSUME NEW p \in Proc, Retry(p) PROVE NothingVanishes'
  BY <1>14 DEF Retry
<1>15. ASSUME NEW p \in Proc, GiveUp(p) PROVE NothingVanishes'
  BY <1>15 DEF GiveUp
<1>16. ASSUME NEW p \in Proc, Escape(p) PROVE NothingVanishes'
  BY <1>16 DEF Exit, Escape
<1>17. ASSUME NEW p \in Proc, StoreTmp(p) PROVE NothingVanishes'
  BY <1>17 DEF StoreTmp
<1>18. ASSUME NEW p \in Proc, StoreFailed(p) PROVE NothingVanishes'
  BY <1>18 DEF StoreFailed
<1>19. ASSUME NEW p \in Proc, Crash(p) PROVE NothingVanishes'
  BY <1>19 DEF Exit, Crash
<1>20. CASE UNCHANGED vars
  BY <1>20 DEF vars
<1>21. QED
  BY <1>1, <1>2, <1>3, <1>4, <1>5, <1>6, <1>7, <1>8, <1>9, <1>10, <1>11,
     <1>12, <1>13, <1>14, <1>15, <1>16, <1>17, <1>18, <1>19, <1>20 DEF Next,
     Listener, Daemon, Work, Run

-----------------------------------------------------------------------------
(* The theorems.                                                           *)

\* Every variable keeps its type: in particular no call is tried more than
\* MaxAttempts times and no instance waits for the lock longer than LockTries.
THEOREM TypeCorrect == Spec => []TypeOK
BY Invariance, PTL DEF IInv

\* However many instances of univention-ms-office-async are started, killed
\* and restarted, only the holder of the lock works on the directory.
THEOREM MutualExclusion == Spec => []OneWorker
BY Invariance, PTL DEF IInv

\* dequeue removes the file before the job runs, so a job is never run twice.
THEOREM AtMostOnce == Spec => []OnePlace
BY Invariance, PTL DEF IInv

\* Task.process reaches the job's own call only after every sub-task of it
\* has been carried out, for any task, number of retries and crashes.
THEOREM SubTasksBeforeTask == Spec => []SubTasksFirst
<1>1. IInv => SubTasksFirst
  BY DEF IInv, Progress, SubTasksFirst
<1>2. QED
  BY Invariance, <1>1, PTL

\* A job the worker logs as successful has had all its calls carried out.
THEOREM SuccessIsReal == Spec => []DoneIsDone
BY Invariance, PTL DEF IInv

\* The sorted file names make the directory a first-in-first-out queue.
THEOREM FirstInFirstOut == Spec => []OldestFirst
BY Invariance, PTL DEF IInv

\* The worker forgets no job: each one that was handed over waits, runs, is
\* finished, is kept under failed/ or went down with a process.
THEOREM Accounted == Spec => []NothingVanishes
<1>1. Init => NothingVanishes
  BY JobAssumption DEF Init, NothingVanishes, InMemory
<1>2. QED
  BY Invariance, <1>1, NextNothingVanishes, PTL DEF Spec

-----------------------------------------------------------------------------
(* The queue implements AsyncJobs.                                         *)

LEMMA JobStatusIs ==
  ASSUME IInv, NEW j \in Job
  PROVE  /\ j \in done => JobStatus[j] = "done"
         /\ j \in failed => JobStatus[j] = "failed"
         /\ j \in lost => JobStatus[j] = "lost"
         /\ j \in InMemory => JobStatus[j] = "running"
         /\ j \in pending => JobStatus[j] = "queued"
         /\ j \notin done \cup failed \cup lost \cup InMemory \cup pending => JobStatus[j] = "new"
BY DEF IInv, OnePlace, JobStatus

LEMMA JobStatusRunning ==
  ASSUME IInv, NEW j \in Job, JobStatus[j] = "running"
  PROVE  j \in InMemory
BY JobStatusIs

\* The status of a job that stays where it is does not change.
Stays(j) ==
  /\ j \in done' <=> j \in done
  /\ j \in failed' <=> j \in failed
  /\ j \in lost' <=> j \in lost
  /\ j \in InMemory' <=> j \in InMemory
  /\ j \in pending' <=> j \in pending

LEMMA JobStatusStays ==
  ASSUME NEW j \in Job, Stays(j)
  PROVE  JobStatus'[j] = JobStatus[j]
BY DEF Stays, JobStatus

LEMMA JobStatusBecomes ==
  ASSUME IInv', NEW j \in Job
  PROVE  /\ j \in done' => JobStatus'[j] = "done"
         /\ j \in lost' => JobStatus'[j] = "lost"
BY DEF IInv, OnePlace, JobStatus

LEMMA NoMoveNoChange ==
  ASSUME UNCHANGED <<done, failed, lost, InMemory, pending>>
  PROVE  JobStatus' = JobStatus
BY DEF JobStatus

LEMMA OneMoves ==
  ASSUME NEW j \in Job, NEW s, JobStatus'[j] = s,
         \A k \in Job \ {j} : Stays(k)
  PROVE  JobStatus' = [JobStatus EXCEPT ![j] = s]
<1>1. \A k \in Job \ {j} : JobStatus'[k] = JobStatus[k]
  BY JobStatusStays
<1>2. JobStatus' = [k \in Job |-> JobStatus'[k]] /\ JobStatus = [k \in Job |-> JobStatus[k]]
  BY DEF JobStatus
<1>3. QED
  BY <1>1, <1>2

\* Processes that hold no job, or keep the one they hold, move nothing.
LEMMA InMemoryStays ==
  ASSUME job' = job
  PROVE  InMemory' = InMemory
BY DEF InMemory

\* A process that settles its job takes it, and nothing else, out of memory.
LEMMA InMemoryLoses ==
  ASSUME IInv, NEW p \in Proc, job[p] # NoJob, job' = [job EXCEPT ![p] = NoJob]
  PROVE  /\ job[p] \in Job /\ job[p] \in InMemory
         /\ InMemory' = InMemory \ {job[p]}
BY DEF IInv, TypeOK, OnePlace, InMemory

LEMMA InMemoryIdle ==
  ASSUME TypeOK, NEW p \in Proc, job[p] = NoJob, job' = [job EXCEPT ![p] = NoJob]
  PROVE  InMemory' = InMemory
<1>1. job' = job
  BY DEF TypeOK
<1>2. QED
  BY <1>1, InMemoryStays

\* The call a running process is at: all the calls before it are applied.
LEMMA RunPosition ==
  ASSUME IInv, NEW p \in Proc, pc[p] = "run"
  PROVE  /\ job[p] \in Job /\ job[p] \in InMemory /\ job[p] # NoJob
         /\ pos[p] \in DOMAIN calls[job[p]]
         /\ Len(calls[job[p]]) \in Nat
         /\ DOMAIN calls[job[p]] = 1 .. Len(calls[job[p]])
         /\ Abstract!AppliedBefore(job[p], pos[p], applied)
         /\ CurrentCall(p) = calls[job[p]][pos[p]]
<1>1. job[p] \in Job /\ job[p] # NoJob
  BY DEF IInv, TypeOK, JobHeld
<1>2. pos[p] \in 1 .. Len(calls[job[p]])
  BY DEF IInv, Progress
<1>3. Abstract!AppliedBefore(job[p], pos[p], applied)
  BY DEF IInv, Progress, Abstract!AppliedBefore
<1>4. job[p] \in InMemory
  BY <1>1 DEF InMemory
<1>5. QED
  BY <1>1, <1>2, <1>3, <1>4, CallsLen DEF CurrentCall

LEMMA InitRefines == Init => Abstract!Init
<1> SUFFICES ASSUME Init PROVE Abstract!Init
  OBVIOUS
<1>1. InMemory = {}
  BY DEF Init, InMemory
<1>2. JobStatus = [j \in Job |-> "new"]
  BY <1>1 DEF Init, JobStatus
<1>3. QED
  BY <1>2 DEF Init, Abstract!Init

\* A process that ends loses the job it holds; the call it was waiting for
\* may have been carried out.
LEMMA ExitRefines ==
  ASSUME IInv, IInv', NEW p \in Proc, Exit(p), job[p] # NoJob,
         \/ UNCHANGED applied
         \/ pc[p] = "run" /\ applied' = applied \cup {CurrentCall(p)}
  PROVE  Abstract!Lose(job[p])
<1>1. /\ job[p] \in Job /\ job[p] \in InMemory
      /\ InMemory' = InMemory \ {job[p]}
  BY InMemoryLoses DEF Exit
<1>2. UNCHANGED <<done, failed, pending>> /\ lost' = lost \cup {job[p]}
  BY DEF Exit, files
<1>3. JobStatus[job[p]] = "running"
  BY <1>1, JobStatusIs
<1>4. JobStatus'[job[p]] = "lost"
  <2>1. job[p] \notin done' /\ job[p] \notin failed' /\ job[p] \in lost'
    BY <1>1, <1>2 DEF IInv, OnePlace
  <2>2. QED
    BY <1>1, <2>1, JobStatusBecomes
<1>5. JobStatus' = [JobStatus EXCEPT ![job[p]] = "lost"]
  BY <1>1, <1>2, <1>4, OneMoves DEF Stays
<1>6. CASE UNCHANGED applied
  BY <1>3, <1>5, <1>6 DEF Abstract!Lose
<1>7. CASE pc[p] = "run" /\ applied' = applied \cup {CurrentCall(p)}
  BY <1>3, <1>5, <1>7, RunPosition DEF Abstract!Lose
<1>8. QED
  BY <1>6, <1>7

LEMMA NextRefines == IInv /\ IInv' /\ [Next]_vars => [Abstract!Next]_(Abstract!vars)
<1> SUFFICES ASSUME IInv, IInv', [Next]_vars
             PROVE  [Abstract!Next]_(Abstract!vars)
  OBVIOUS
<1> USE DEF files, procs, history
<1>1. ASSUME UNCHANGED <<done, failed, lost, job, pending, applied>>
      PROVE  UNCHANGED Abstract!vars
  BY <1>1, InMemoryStays, NoMoveNoChange DEF Abstract!vars
<1>2. ASSUME NEW p \in Proc, Exit(p), job[p] = NoJob, UNCHANGED applied
      PROVE  UNCHANGED Abstract!vars
  <2>1. UNCHANGED <<done, failed, lost, pending>>
    BY <1>2 DEF Exit
  <2>2. InMemory' = InMemory
    BY <1>2, InMemoryIdle DEF Exit, IInv
  <2>3. QED
    BY <1>2, <2>1, <2>2, NoMoveNoChange DEF Abstract!vars
<1>3. ASSUME NEW j \in Job, WriteTmp(j) PROVE UNCHANGED Abstract!vars
  BY <1>1, <1>3 DEF WriteTmp
<1>4. ASSUME Publish PROVE Abstract!Submit(writing) /\ writing \in Job
  <2>1. /\ writing \in Job
        /\ pending' = pending \cup {writing}
        /\ UNCHANGED <<done, failed, lost, job, applied>>
    BY <1>4 DEF Publish, IInv, TypeOK
  <2>2. writing \notin pending \cup failed \cup done \cup lost \cup InMemory
    BY <2>1 DEF IInv, Fresh
  <2>3. InMemory' = InMemory
    BY <2>1, InMemoryStays
  <2>4. JobStatus[writing] = "new"
    BY <2>1, <2>2, JobStatusIs
  <2>5. JobStatus'[writing] = "queued"
    BY <2>1, <2>2, <2>3 DEF JobStatus
  <2>6. JobStatus' = [JobStatus EXCEPT ![writing] = "queued"]
    BY <2>1, <2>3, <2>5, OneMoves DEF Stays
  <2>7. QED
    BY <2>1, <2>4, <2>6 DEF Abstract!Submit
<1>5. ASSUME ListenerCrash PROVE Abstract!Lose(writing) /\ writing \in Job
  <2>1. /\ writing \in Job
        /\ lost' = lost \cup {writing}
        /\ UNCHANGED <<done, failed, pending, job, applied>>
    BY <1>5 DEF ListenerCrash, IInv, TypeOK
  <2>2. writing \notin pending \cup failed \cup done \cup lost \cup InMemory
    BY <2>1 DEF IInv, Fresh
  <2>3. InMemory' = InMemory
    BY <2>1, InMemoryStays
  <2>4. JobStatus[writing] = "new"
    BY <2>1, <2>2, JobStatusIs
  <2>5. JobStatus'[writing] = "lost"
    BY <2>1, <2>2, <2>3 DEF JobStatus
  <2>6. JobStatus' = [JobStatus EXCEPT ![writing] = "lost"]
    BY <2>1, <2>3, <2>5, OneMoves DEF Stays
  <2>7. QED
    BY <2>1, <2>4, <2>6 DEF Abstract!Lose
<1>6. ASSUME ToggleInitialized PROVE UNCHANGED Abstract!vars
  BY <1>1, <1>6 DEF ToggleInitialized
<1>7. ASSUME NEW p \in Proc,
             Start(p) \/ GetLock(p) \/ WaitForLock(p) \/ NotVerified(p) \/ GiveUp(p) \/ StoreTmp(p)
      PROVE  UNCHANGED Abstract!vars
  BY <1>1, <1>7 DEF Start, GetLock, WaitForLock, NotVerified, GiveUp, StoreTmp
<1>8. ASSUME NEW p \in Proc, GiveUpLock(p) \/ ExitOnce(p) PROVE UNCHANGED Abstract!vars
  <2>1. job[p] = NoJob
    BY <1>8 DEF GiveUpLock, ExitOnce, IInv, JobHeld
  <2>2. QED
    BY <1>2, <1>8, <2>1 DEF GiveUpLock, ExitOnce
<1>9. ASSUME NEW p \in Proc, Take(p) PROVE \E j \in Job : Abstract!Begin(j)
  <2>1. PICK j \in pending : /\ pending' = pending \ {j}
                             /\ job' = [job EXCEPT ![p] = j]
    BY <1>9 DEF Take
  <2>2. j \in Job /\ UNCHANGED <<done, failed, lost, applied>>
    BY <1>9 DEF Take, IInv, TypeOK
  <2>3. job[p] = NoJob
    BY <1>9 DEF Take, IInv, JobHeld
  <2>4. InMemory = {}
    <3> SUFFICES ASSUME NEW q \in Proc, job[q] # NoJob PROVE FALSE
      BY DEF InMemory
    <3>1. Working(q) /\ Working(p)
      BY <1>9 DEF IInv, JobHeld, Working, Take
    <3>2. p = q
      BY <3>1 DEF IInv, OneWorker
    <3> QED
      BY <2>3, <3>2
  <2>5. InMemory' = {j}
    <3>1. \A q \in Proc : job[q] = NoJob
      BY <2>4 DEF InMemory
    <3>2. QED
      BY <2>1, <2>2, <3>1, JobAssumption DEF InMemory, IInv, TypeOK
  <2>6. JobStatus[j] = "queued" /\ \A k \in Job : JobStatus[k] # "running"
    BY <2>2, <2>4, JobStatusIs, JobStatusRunning
  <2>7. JobStatus'[j] = "running"
    BY <2>2, <2>5 DEF JobStatus, IInv, OnePlace
  <2>8. JobStatus' = [JobStatus EXCEPT ![j] = "running"]
    BY <2>1, <2>2, <2>4, <2>5, <2>7, OneMoves DEF Stays
  <2>9. QED
    BY <2>2, <2>6, <2>8 DEF Abstract!Begin
<1>10. ASSUME NEW p \in Proc, Verified(p) PROVE UNCHANGED Abstract!vars
  BY <1>1, <1>10 DEF Verified, GoOn
<1>11. ASSUME NEW p \in Proc, RunOk(p)
       PROVE  job[p] \in Job /\ (Abstract!Perform(job[p]) \/ Abstract!Complete(job[p]))
  <2>1. /\ job[p] \in Job /\ job[p] \in InMemory /\ job[p] # NoJob
        /\ pos[p] \in DOMAIN calls[job[p]]
        /\ Len(calls[job[p]]) \in Nat
        /\ DOMAIN calls[job[p]] = 1 .. Len(calls[job[p]])
        /\ Abstract!AppliedBefore(job[p], pos[p], applied)
        /\ applied' = applied \cup {calls[job[p]][pos[p]]}
    BY <1>11, RunPosition DEF RunOk
  <2>2. JobStatus[job[p]] = "running"
    BY <2>1, JobStatusIs
  <2>3. CASE pos[p] < Len(calls[job[p]])
    <3>1. UNCHANGED <<done, failed, lost, job, pending>>
      BY <1>11, <2>3 DEF RunOk, GoOn
    <3>2. JobStatus' = JobStatus
      BY <3>1, InMemoryStays, NoMoveNoChange
    <3>3. QED
      BY <2>1, <2>2, <3>2 DEF Abstract!Perform
  <2>4. CASE ~(pos[p] < Len(calls[job[p]]))
    <3>1. /\ done' = done \cup {job[p]}
          /\ job' = [job EXCEPT ![p] = NoJob]
          /\ UNCHANGED <<failed, lost, pending>>
      BY <1>11, <2>4 DEF RunOk
    <3>2. InMemory' = InMemory \ {job[p]}
      BY <2>1, <3>1, InMemoryLoses
    <3>3. JobStatus'[job[p]] = "done"
      BY <2>1, <3>1, JobStatusBecomes
    <3>4. JobStatus' = [JobStatus EXCEPT ![job[p]] = "done"]
      BY <2>1, <3>1, <3>2, <3>3, OneMoves DEF Stays
    <3>5. pos[p] = Len(calls[job[p]])
      BY <2>1, <2>4
    <3>6. QED
      BY <2>1, <2>2, <3>4, <3>5 DEF Abstract!Complete
  <2>5. QED
    BY <2>1, <2>3, <2>4
<1>12. ASSUME NEW p \in Proc, Retry(p)
       PROVE  UNCHANGED Abstract!vars \/ (job[p] \in Job /\ Abstract!Perform(job[p]))
  <2>1. UNCHANGED <<done, failed, lost, job, pending>> /\ pc[p] = "run"
    BY <1>12 DEF Retry
  <2>2. applied' = applied \/ applied' = applied \cup {CurrentCall(p)}
    BY <1>12 DEF Retry, AfterFailure
  <2>3. JobStatus' = JobStatus
    BY <2>1, InMemoryStays, NoMoveNoChange
  <2>4. job[p] \in Job /\ JobStatus[job[p]] = "running"
    BY <2>1, RunPosition, JobStatusIs
  <2>5. CASE applied' = applied \cup {CurrentCall(p)}
    BY <2>1, <2>3, <2>4, <2>5, RunPosition DEF Abstract!Perform
  <2>6. QED
    BY <1>1, <2>1, <2>2, <2>5
<1>13. ASSUME NEW p \in Proc, Escape(p) PROVE job[p] \in Job /\ Abstract!Lose(job[p])
  <2>1. pc[p] = "run" /\ Exit(p)
    BY <1>13 DEF Escape
  <2>2. applied' = applied \/ applied' = applied \cup {CurrentCall(p)}
    BY <1>13 DEF Escape, AfterFailure
  <2>3. QED
    BY <2>1, <2>2, RunPosition, ExitRefines
<1>14. ASSUME NEW p \in Proc, StoreFailed(p) PROVE job[p] \in Job /\ Abstract!Fail(job[p])
  <2>1. /\ job[p] # NoJob
        /\ failed' = failed \cup {job[p]}
        /\ job' = [job EXCEPT ![p] = NoJob]
        /\ UNCHANGED <<done, lost, pending, applied>>
    BY <1>14 DEF StoreFailed, IInv, JobHeld
  <2>2. job[p] \in Job /\ job[p] \in InMemory /\ InMemory' = InMemory \ {job[p]}
    BY <2>1, InMemoryLoses
  <2>3. JobStatus[job[p]] = "running"
    BY <2>2, JobStatusIs
  <2>4. JobStatus'[job[p]] = "failed"
    BY <2>1, <2>2 DEF JobStatus, IInv, OnePlace
  <2>5. JobStatus' = [JobStatus EXCEPT ![job[p]] = "failed"]
    BY <2>1, <2>2, <2>4, OneMoves DEF Stays
  <2>6. QED
    BY <2>1, <2>2, <2>3, <2>5 DEF Abstract!Fail
<1>15. ASSUME NEW p \in Proc, Crash(p)
       PROVE  UNCHANGED Abstract!vars \/ (job[p] \in Job /\ Abstract!Lose(job[p]))
  <2>1. Exit(p) /\ UNCHANGED applied
    BY <1>15 DEF Crash
  <2>2. CASE job[p] = NoJob
    BY <1>2, <2>1, <2>2
  <2>3. CASE job[p] # NoJob
    BY <2>1, <2>3, ExitRefines DEF IInv, TypeOK
  <2>4. QED
    BY <2>2, <2>3
<1>16. CASE UNCHANGED vars
  BY <1>1, <1>16 DEF vars
<1>17. QED
  BY <1>3, <1>4, <1>5, <1>6, <1>7, <1>8, <1>9, <1>10, <1>11, <1>12, <1>13,
     <1>14, <1>15, <1>16
  DEF Next, Listener, Daemon, Work, Run, Abstract!Next

\* The directory, the lock, the retries and the crashes implement AsyncJobs:
\* every job runs at most once, one at a time, its calls in order.
THEOREM Refinement == Spec => ImplementsAsyncJobs
BY InitRefines, NextRefines, Invariance, PTL
   DEF Spec, ImplementsAsyncJobs, Abstract!Spec

=============================================================================
