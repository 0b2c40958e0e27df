SPECIFICATION FairSpec
CONSTANTS
  NormalDisplayOffTimeout = 2
  NormalSuspendTimeout = 2
  DimDuration = 1
  ReducedTimeout = 1
  PostNotificationTimeout = 1
  NotificationExpiration = 1
  LongPressTimeout = 1
  TreatPowerButtonAsUserActivity = FALSE
  TurnOnDisplayAtStartup = TRUE
  Infinite = 1000
  DelayRange = 500
  BrightnessValues = {1}
  Sources <- IdleSources
  StartSupplies = {"battery"}
  Timeouts = {}
  RequestIds = {r1}
  NotificationIds = {n1}
PROPERTIES
  DisplayGoesOff
  IdleSensorGoesOff
  IdleSystemSuspends
CHECK_DEADLOCK FALSE
