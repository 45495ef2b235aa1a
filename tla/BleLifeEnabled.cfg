CONSTANTS Intervals = {1,3}
 MinTimeBtwScan = 1
 TimeBtwRead = 2
 TimeBtwActive = 2
 AdaptiveBLEScan = TRUE
 HassPresence = FALSE
 EnableBT = TRUE
 MaxTasks = 1
 MaxKeys = 2
SPECIFICATION Spec
INVARIANTS EnabledRuns
CHECK_DEADLOCK FALSE
