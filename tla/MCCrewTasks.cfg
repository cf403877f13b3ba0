SPECIFICATION Spec
CONSTANTS
  t1 = t1
  t2 = t2
  f1 = f1
  Crew = {c1, c2}
  Tasks = {t1, t2}
  Files = {f1}
  TaskOf <- TaskOfFile
  Requests = {r1, r2}
  NoTask = NoTask
  MaxImages = 2
  MaxCalls = 4
SYMMETRY Symmetry
INVARIANTS
  TypeOK
  TotalsNeverExceedIncidents
  MissingImagesHaveTasks
  OverTasksAreNotLocated
CHECK_DEADLOCK FALSE
