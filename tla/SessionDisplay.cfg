SPECIFICATION Spec
CONSTANTS
  NormalDisplayOffTimeout = 3
  NormalSuspendTimeout = 1000
  DimDuration = 1
  ReducedTimeout = 2
  PostNotificationTimeout = 1
  NotificationExpiration = 2
  LongPressTimeout = 1
  TreatPowerButtonAsUserActivity = FALSE
  TurnOnDisplayAtStartup = TRUE
  Infinite = 1000
  DelayRange = 500
  BrightnessValues = {1, 2}
  Sources <- DisplaySources
  StartSupplies = {"battery"}
  Timeouts = {1, 1000}
  RequestIds = {r1, r2}
  NotificationIds = {n1}
INVARIANTS
  AdapterAgrees
  DisplayOffTimerArmed
PROPERTIES
  PausedSessionIsDark
CHECK_DEADLOCK FALSE
