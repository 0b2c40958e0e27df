SPECIFICATION Spec
CONSTANTS
  NormalDisplayOffTimeout <- user_inactivity_normal_display_off_timeout
  NormalSuspendTimeout <- user_inactivity_normal_suspend_timeout
  DimDuration <- user_inactivity_normal_display_dim_duration
  ReducedTimeout <- user_inactivity_reduced_display_off_timeout
  PostNotificationTimeout <- user_inactivity_post_notification_display_off_timeout
  NotificationExpiration <- notification_expiration_timeout
  LongPressTimeout <- power_button_long_press_timeout
  TreatPowerButtonAsUserActivity <- treat_power_button_as_user_activity
  TurnOnDisplayAtStartup <- turn_on_display_at_startup
  Infinite <- infinite_timeout
  DelayRange <- guint_range
  BrightnessValues = {1}
  Sources <- NotificationSources
  StartSupplies = {"battery"}
  Timeouts = {}
  RequestIds = {r1}
  NotificationIds = {n1}
INVARIANTS
  NotificationExpiresInTime
CHECK_DEADLOCK FALSE
