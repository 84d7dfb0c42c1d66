SPECIFICATION FairSpec
CONSTANTS
  r1 = r1  r2 = r2  r3 = r3
  t1 = t1  t2 = t2
  u1 = u1
  Run = {r1, r2, r3}
  Task = {t1, t2}
  User = {u1}
  JobKey = {"job"}
  TaskOf <- MCTaskOf
  UserOf <- MCUserOf
  NoRow = NoRow
  NullContext = {t1}
  NoAccount = {t1}
  MaxMishaps = 0
PROPERTY TaskNeverHangs
CHECK_DEADLOCK FALSE
