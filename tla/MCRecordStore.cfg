SPECIFICATION FairSpec
CONSTANTS
  admin = admin
  bob = bob
  q1 = q1
  q2 = q2
  q3 = q3
  handler = handler
  flusher = flusher
  Users <- MCUsers
  Requests <- MCRequests
  Handlers <- MCHandlers
  Actors <- MCActors
  Flusher = flusher
  Files <- MCFiles
  Workloads <- MCWorkloads
  InitialRoles <- MCInitialRoles
  InitialOwners <- MCInitialOwners
  NewRoles <- MCNewRoles
  PoolLimit = 2
  MaxImportRecords = 2
  MaxId = 3
INVARIANTS TypeOK TrailMatches SuccessIsDurable
PROPERTIES RightsFresh ImplementsPromise RequestsEnd
