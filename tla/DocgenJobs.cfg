SPECIFICATION FairSpec
CONSTANTS
  Entities = {e1, e2}
  JobIds = {j1, j2}
  Workers = {w1, w2}
  Callers = {api, tick}
  Nobody = Nobody
INVARIANTS
  EntitySerial
  EarlyCancelHonoured
PROPERTIES
  RegistrySpec
  JobsFinish
