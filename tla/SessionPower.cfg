SPECIFICATION Spec
CONSTANTS
  NormalDisplayOffTimeout = 1
  NormalSuspendTimeout = 2
  DimDuration = 0
  ReducedTimeout = 1
  PostNotificationTimeout = 1
  NotificationExpiration = 2
  LongPressTimeout = 1
  TreatPowerButtonAsUserActivity = FALSE
  TurnOnDisplayAtStartup = TRUE
  Infinite = 1000
  DelayRange = 500
  BrightnessValues = {1}
  Sources <- PowerSources
  StartSupplies = {"battery", "line_power"}
  Timeouts = {1}
  RequestIds = {r1}
  NotificationIds = {n1}
INVARIANTS
  TypeOK
  PanelsFollowMode
  AutomaticSuspendHeld
PROPERTIES
  SuspendRespectsClients
CHECK_DEADLOCK FALSE
