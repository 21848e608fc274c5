SPECIFICATION Spec
CONSTANTS
  j1 = j1
  j2 = j2
  ownerA = ownerA
  ownerB = ownerB
  ownerC = ownerC
  teamG = teamG
  Call = {ownerA, ownerB, ownerC, teamG}
  calls <- MCcalls
  Repeatable <- MCRepeatable
  NoJob = NoJob
  NoProc = NoProc
  daemon = daemon
  manual = manual
  Job = {j1}
  Proc = {daemon}
  Service = {daemon}
  MaxAttempts = 2
  LockTries = 2
  MaxCrashes = 0
INVARIANT
  FailedJobsAreKept
