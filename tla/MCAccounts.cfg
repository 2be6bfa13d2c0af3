SPECIFICATION Spec
CONSTANTS
  q1 = q1
  q2 = q2
  q3 = q3
  q4 = q4
  Requests <- MCRequests
  Actors <- MCRequests
  Names <- MCNames
  Emails <- MCEmails
  Configurations <- MCConfigurations
  Workloads <- MCWorkloads
  PoolLimit = 3
  MaxUsers = 4
  MaxStarts = 2
INVARIANTS TypeOK TrailExplains AnswersTrue
PROPERTIES LastAdminGoes
CHECK_DEADLOCK FALSE
