SPECIFICATION SchedulerSpec
CONSTANTS
  Entities = {e1}
  JobIds = {j1, j2}
  Nobody = Nobody
  Schedules = {s1, s2}
  MaxPoints = 2
  MaxFailures = 1
PROPERTY FinishedIsRecorded
