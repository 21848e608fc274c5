---------------------------- MODULE MCAsyncQueue ----------------------------
(***************************************************************************)
(* Small instances of AsyncQueue: a group g with two owners is made a team *)
(* (j1), then again after its owners changed (j2).                         *)
(***************************************************************************)
EXTENDS AsyncQueue

CONSTANTS daemon, manual, j1, j2, ownerA, ownerB, ownerC, teamG

MCcalls == [j \in Job |->
  IF j = j1 THEN <<ownerA, ownerB, teamG>> ELSE <<ownerC, teamG>>]

\* add_group_owner expects 400 for an owner the group already has;
\* create_team_from_group does not expect the 409 of an existing team.
MCRepeatable == {ownerA, ownerB, ownerC}

\* "failed: go to next job (move failed jobs after retry-count times to
\* failed)" in README-code.md: as long as nobody kills a process, no job is
\* lost, whatever Microsoft 365 answers.
FailedJobsAreKept == crashes = 0 => lost = {}

=============================================================================
