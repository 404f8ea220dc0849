SPECIFICATION Spec
CONSTANTS
  Threads = {api1, api2, worker}
  MultiThreads = {api1, api2}
  Keys = {1, 2}
  LockIds = {l1, l2, l3}
  NoThread = NoThread
  NoLock = NoLock
INVARIANTS
  NoWaitCycle
PROPERTIES
  MutexSpec
