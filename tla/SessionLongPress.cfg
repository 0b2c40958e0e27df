SPECIFICATION Spec
CONSTANTS
  NormalDisplayOffTimeout = 3
  NormalSuspendTimeout = 1000
  DimDuration = 1
  ReducedTimeout = 2
  PostNotificationTimeout = 1
  NotificationExpiration = 2
  LongPressTimeout = 1
  TreatPowerButtonAsUserActivity = FALSE
  TurnOnDisplayAtStartup = TRUE
  Infinite = 1000
  DelayRange = 500
  BrightnessValues = {1}
  Sources <- ButtonSources
  StartSupplies = {"battery"}
  Timeouts = {}
  RequestIds = {r1}
  NotificationIds = {n1}
PROPERTIES
  ShortPressTurnsOff
CHECK_DEADLOCK FALSE
