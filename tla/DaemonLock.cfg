SPECIFICATION Spec
CONSTANTS
  NormalDisplayOffTimeout = 1
  NormalSuspendTimeout = 1000
  DimDuration = 0
  ReducedTimeout = 1
  PostNotificationTimeout = 0
  NotificationExpiration = 0
  LongPressTimeout = 0
  TreatPowerButtonAsUserActivity = FALSE
  TurnOnDisplayAtStartup = TRUE
  Infinite = 1000
  DelayRange = 500
  BrightnessValues = {1}
  s1 = s1
  s2 = s2
  r1 = r1
  SessionIds = {s1, s2}
  NoSession = NoSession
  ActiveEvents = {"system_resume"}
  Readings <- FarOnBattery
  ClientEvents <- SuspendRequests
INVARIANTS
  ActiveDisplayHoldsLock
CHECK_DEADLOCK FALSE
