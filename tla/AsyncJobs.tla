----------------------------- MODULE AsyncJobs -----------------------------
(***************************************************************************)
(* What the asynchronous queue promises, without directories, processes    *)
(* or retries: a job handed over by the listener runs at most once, no two *)
(* jobs run at the same time, and the Graph calls of a job reach the       *)
(* directory in the order of its task tree, sub-tasks first.               *)
(***************************************************************************)
EXTENDS Integers, Sequences

CONSTANTS
  Job,    \* the jobs the listener hands over
  Call,   \* the Graph calls a job can consist of
  calls   \* calls[j]: the sub-tasks of j in order, its own call last

VARIABLES
  status,  \* status[j]: where job j is in its life
  applied  \* the calls Microsoft 365 has carried out so far

vars == <<status, applied>>

Status == {"new", "queued", "running", "done", "failed", "lost"}

\* All the calls of job j before position i have been carried out.
AppliedBefore(j, i, a) == \A k \in 1 .. (i - 1) : calls[j][k] \in a

AllApplied(j, a) == \A k \in DOMAIN calls[j] : calls[j][k] \in a

Init ==
  /\ status = [j \in Job |-> "new"]
  /\ applied = {}

\* The listener's file reaches the job directory.
Submit(j) ==
  /\ status[j] = "new"
  /\ status' = [status EXCEPT ![j] = "queued"]
  /\ UNCHANGED applied

Begin(j) ==
  /\ status[j] = "queued"
  /\ \A k \in Job : status[k] # "running"
  /\ status' = [status EXCEPT ![j] = "running"]
  /\ UNCHANGED applied

\* One call of the running job is carried out, every earlier one being done.
Perform(j) ==
  /\ status[j] = "running"
  /\ \E i \in DOMAIN calls[j] :
       /\ AppliedBefore(j, i, applied)
       /\ applied' = applied \cup {calls[j][i]}
  /\ UNCHANGED status

\* The last call is answered: performing it and being done is one step.
Complete(j) ==
  /\ status[j] = "running"
  /\ AppliedBefore(j, Len(calls[j]), applied)
  /\ applied' = applied \cup {calls[j][Len(calls[j])]}
  /\ status' = [status EXCEPT ![j] = "done"]

Fail(j) ==
  /\ status[j] = "running"
  /\ status' = [status EXCEPT ![j] = "failed"]
  /\ UNCHANGED applied

\* A process dies: the listener before the job is queued, or the worker
\* while it runs, perhaps after the call it was waiting for took effect.
Lose(j) ==
  /\ status[j] \in {"new", "running"}
  /\ status' = [status EXCEPT ![j] = "lost"]
  /\ \/ UNCHANGED applied
     \/ /\ status[j] = "running"
        /\ \E i \in DOMAIN calls[j] :
             /\ AppliedBefore(j, i, applied)
             /\ applied' = applied \cup {calls[j][i]}

Next ==
  \E j \in Job :
    \/ Submit(j) \/ Begin(j) \/ Perform(j)
    \/ Complete(j) \/ Fail(j) \/ Lose(j)

Spec == Init /\ [][Next]_vars

=============================================================================
