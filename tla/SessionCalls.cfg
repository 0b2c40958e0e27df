SPECIFICATION Spec
CONSTANTS
  NormalDisplayOffTimeout = 3
  NormalSuspendTimeout = 1000
  DimDuration = 1
  ReducedTimeout = 2
  PostNotificationTimeout = 1
  NotificationExpiration = 2
  LongPressTimeout = 1
  TreatPowerButtonAsUserActivity = FALSE
  TurnOnDisplayAtStartup = TRUE
  Infinite = 1000
  DelayRange = 500
  BrightnessValues = {1}
  Sources <- CallSources
  StartSupplies = {"battery"}
  Timeouts = {1, 1000}
  RequestIds = {r1}
  NotificationIds = {n1}
INVARIANTS
  NotificationsExpire
  ProximityFollowsEnablements
PROPERTIES
  ClientKeepsDisplayOn
  EndsNeverShorten
CHECK_DEADLOCK FALSE
