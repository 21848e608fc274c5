SPECIFICATION FairSpec
CONSTANTS
  j1 = j1
  j2 = j2
  ownerA = ownerA
  ownerB = ownerB
  ownerC = ownerC
  teamG = teamG
  Call = {ownerA, ownerB, ownerC, teamG}
  calls <- MCcalls
  Repeatable <- MCRepeatable
  NoJob = NoJob
  NoProc = NoProc
  daemon = daemon
  manual = manual
  Job = {j1, j2}
  Proc = {daemon, manual}
  Service = {daemon}
  MaxAttempts = 3
  LockTries = 3
  MaxCrashes = 2
INVARIANTS
  TypeOK
  OneWorker
  OnePlace
  NothingVanishes
  SubTasksFirst
  DoneIsDone
  OldestFirst
PROPERTIES
  ImplementsAsyncJobs
  EveryJobSettled
  WorkerReturns
