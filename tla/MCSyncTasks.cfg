SPECIFICATION FairSyncSpec
CONSTANTS
  r1 = r1  r2 = r2
  t1 = t1  t2 = t2
  u1 = u1
  Run = {r1, r2}
  Task = {t1, t2}
  User = {u1}
  JobKey <- MCKeys
  TaskOf <- MCTaskOf
  UserOf <- MCUserOf
  NoRow = NoRow
  LlmJobs <- MCLlmJobs
  PassJobs <- MCPassJobs
  RefusableRows <- MCRefusable
  MaxMishaps = 1
  MaySync = {r1}
INVARIANTS OkWasQueued FailedStaysHome ReportedFirst BriefDoneHasJob SettledWhenDone 
PROPERTY BatchFinishes
CHECK_DEADLOCK FALSE
