\* Three tasks: one attached, one replaced and one refused at the same time.
SPECIFICATION Spec
CONSTANTS
  CallIDs = {c1, c2}
  Tasks = {k1, k2, k3}
  Threads = {t1, t2}
  NoTask = NoTask
INVARIANTS
  TypeOK
  NoTaskOutlivesItsCall
PROPERTIES
  ActiveNeverRegresses
  TasksLiveAsPromised
