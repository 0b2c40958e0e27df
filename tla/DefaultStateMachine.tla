------------------------ MODULE DefaultStateMachine ------------------------
(***************************************************************************)
(* The handlers of repowerd's DefaultStateMachine, the per-session machine *)
(* that decides when the display, the modem, the proximity sensor and the  *)
(* automatic suspend are on.                                               *)
(*                                                                         *)
(* The code runs every handler to its end on the daemon's thread, so a     *)
(* handler is an operator from a world to the world it leaves behind.  A   *)
(* world is one record: the fields of the machine object (named after the  *)
(* code's members) together with the state of the ports it drives.  The    *)
(* modules that own variables (Session, Daemon) decide when a handler      *)
(* runs and on which world.                                                *)
(*                                                                         *)
(* Time is relative.  An alarm field holds the ticks left before the alarm *)
(* fires, NoAlarm when the code's alarm id is AlarmId::invalid; offTime    *)
(* holds user_inactivity_display_off_time_point as a distance from now,    *)
(* Past once it is over.                                                   *)
(***************************************************************************)
EXTENDS Integers, FiniteSets

CONSTANTS
  NormalDisplayOffTimeout,   \* user_inactivity_normal_display_off_timeout
  NormalSuspendTimeout,      \* user_inactivity_normal_suspend_timeout
  DimDuration,               \* user_inactivity_normal_display_dim_duration
  ReducedTimeout,            \* user_inactivity_reduced_display_off_timeout
  PostNotificationTimeout,   \* user_inactivity_post_notification_display_off_timeout
  NotificationExpiration,    \* notification_expiration_timeout
  LongPressTimeout,          \* power_button_long_press_timeout
  TreatPowerButtonAsUserActivity,
  TurnOnDisplayAtStartup,
  Infinite,                  \* infinite_timeout, milliseconds::max()
  DelayRange,                \* GLib timeouts are guint milliseconds: 2^32 of them
  BrightnessValues           \* the normal brightness values that clients set

(***************************************************************************)
(* What the options and the arithmetic on them need: a finite timeout is   *)
(* an integer below Infinite; the dim, reduced, post-notification,         *)
(* expiration and long-press durations are not negative and fit in a GLib  *)
(* delay.  The normal timeouts may be any integer or Infinite (the shipped *)
(* display-off default is negative).                                       *)
(***************************************************************************)
ASSUME OptionsAssumption ==
  /\ DelayRange \in Nat \ {0}
  /\ Infinite \in Nat
  /\ Infinite >= DelayRange
  /\ NormalDisplayOffTimeout \in Int
  /\ NormalDisplayOffTimeout <= Infinite
  /\ NormalSuspendTimeout \in Int
  /\ NormalSuspendTimeout <= Infinite
  /\ DimDuration \in Nat
  /\ ReducedTimeout \in 0 .. DelayRange - 1
  /\ PostNotificationTimeout \in 0 .. DelayRange - 1
  /\ NotificationExpiration \in 0 .. DelayRange - 1
  /\ LongPressTimeout \in 0 .. DelayRange - 1
  /\ TreatPowerButtonAsUserActivity \in BOOLEAN
  /\ TurnOnDisplayAtStartup \in BOOLEAN
  /\ BrightnessValues # {}

-----------------------------------------------------------------------------
NoAlarm == -1
Past    == -1

Supplies     == {"battery", "line_power"}
DisplayModes == {"on", "off"}
Reasons      == {"unknown", "activity", "proximity", "power_button",
                 "notification", "call", "call_done"}
TimeoutTypes == {"none", "normal", "post_notification", "reduced"}
Allowances   == {"client", "notification"}
Enablements  == {"until_far_event_or_notification_expiration",
                 "until_disabled", "until_far_event_or_timeout"}
LidActions      == {"none", "suspend"}
CriticalActions == {"suspend", "power_off"}
PortCalls == {"suspend", "power_off", "notify_long_press",
              "notify_display_on", "notify_display_off"}

Ticks == NoAlarm .. DelayRange - 1

\* A configured timeout: finite of either sign, or Infinite.
TimeoutRange == {t \in Int : t <= Infinite}

(* The members of the machine object, and the ports' state it drives.  The *)
(* code keeps is_on_battery in three ConfigurableValues that it always     *)
(* assigns together: they are the one field supply.  Of the ports' calls   *)
(* that leave no state behind a machine keeps those of its last handler.   *)
MachineFields ==
  {"disallowedTimeouts", "proximityEnablements", "mode", "modeAtPress",
   "reason", "longPressDetected", "longPressAlarm", "dimAlarm", "offAlarm",
   "suspendAlarm", "proximityAlarm", "notificationAlarm", "offTime",
   "offTimeout", "suspendTimeout", "supply", "timeoutType", "lidAction",
   "criticalAction", "paused", "autobrightness", "brightnessValue",
   "lidClosed", "suspendAllowed", "suspendPending", "calls",
   "inactivityRequests", "notifications", "suspendRequests"}

PortFields ==
  {"internalPanel", "externalPanel", "backlight", "abActive", "backlightValue",
   "modem", "interactive", "wakeLock", "proximityEvents", "defaultHandlers",
   "near", "powerSupply", "externalDisplays"}

WorldFields == MachineFields \cup PortFields

\* schedule_alarm_in hands milliseconds to g_timeout_source_new(guint).
Delay(timeout) == timeout % DelayRange

\* timer->now() + timeout, as a distance from now.
TimePoint(timeout) == IF timeout < 0 THEN Past ELSE timeout

-----------------------------------------------------------------------------
(* The worlds the handlers work on, field by field.                        *)

MachineOK(w) ==
  /\ w.disallowedTimeouts \in SUBSET Allowances
  /\ w.proximityEnablements \in SUBSET Enablements
  /\ w.mode \in DisplayModes
  /\ w.modeAtPress \in DisplayModes \cup {"unknown"}
  /\ w.reason \in Reasons
  /\ w.longPressDetected \in BOOLEAN
  /\ w.longPressAlarm \in Ticks
  /\ w.dimAlarm \in Ticks
  /\ w.offAlarm \in Ticks
  /\ w.suspendAlarm \in Ticks
  /\ w.proximityAlarm \in Ticks
  /\ w.notificationAlarm \in Ticks
  /\ w.offTime \in Past .. Infinite
  /\ w.offTimeout \in [Supplies -> TimeoutRange]
  /\ w.suspendTimeout \in [Supplies -> TimeoutRange]
  /\ w.supply \in Supplies
  /\ w.timeoutType \in TimeoutTypes
  /\ w.lidAction \in [Supplies -> LidActions]
  /\ w.criticalAction \in CriticalActions
  /\ w.paused \in BOOLEAN
  /\ w.autobrightness \in BOOLEAN
  /\ w.brightnessValue \in BrightnessValues
  /\ w.lidClosed \in BOOLEAN
  /\ w.suspendAllowed \in BOOLEAN
  /\ w.suspendPending \in BOOLEAN
  /\ w.calls \in SUBSET PortCalls

PortsOK(w) ==
  /\ w.internalPanel \in DisplayModes
  /\ w.externalPanel \in DisplayModes
  /\ w.backlight \in {"off", "dim", "normal"}
  /\ w.abActive \in BOOLEAN
  /\ w.backlightValue \in BrightnessValues
  /\ w.modem \in {"low_power", "normal"}
  /\ w.interactive \in BOOLEAN
  /\ w.wakeLock \in BOOLEAN
  /\ w.proximityEvents \in BOOLEAN
  /\ w.defaultHandlers \in BOOLEAN
  /\ w.near \in BOOLEAN
  /\ w.powerSupply \in Supplies
  /\ w.externalDisplays \in BOOLEAN

WorldOK(w) == DOMAIN w = WorldFields /\ MachineOK(w) /\ PortsOK(w)

-----------------------------------------------------------------------------
(* Construction.                                                           *)

ConstructedMachine(brightness) ==
  [disallowedTimeouts |-> {}, proximityEnablements |-> {},
   mode |-> "off", modeAtPress |-> "unknown", reason |-> "unknown",
   longPressDetected |-> FALSE, longPressAlarm |-> NoAlarm,
   dimAlarm |-> NoAlarm, offAlarm |-> NoAlarm, suspendAlarm |-> NoAlarm,
   proximityAlarm |-> NoAlarm, notificationAlarm |-> NoAlarm,
   offTime |-> Past,
   offTimeout |-> [s \in Supplies |-> NormalDisplayOffTimeout],
   suspendTimeout |-> [s \in Supplies |-> NormalSuspendTimeout],
   supply |-> "battery", timeoutType |-> "none",
   lidAction |-> [s \in Supplies |-> "suspend"],
   criticalAction |-> "power_off", paused |-> FALSE,
   autobrightness |-> FALSE, brightnessValue |-> brightness,
   lidClosed |-> FALSE, suspendAllowed |-> TRUE, suspendPending |-> FALSE,
   calls |-> {}, inactivityRequests |-> {}, notifications |-> {}, suspendRequests |-> {}]

-----------------------------------------------------------------------------
(* Inactivity alarms.                                                      *)

\* Mutant: cancels the suspend alarm with the display's.
CancelInactivityAlarms(w) ==
  [w EXCEPT !.dimAlarm = NoAlarm, !.offAlarm = NoAlarm, !.suspendAlarm = NoAlarm,
            !.offTime = Past, !.timeoutType = "none"]

CancelDisplayOffAlarm(w) ==
  [w EXCEPT !.dimAlarm = NoAlarm, !.offAlarm = NoAlarm,
            !.offTime = Past, !.timeoutType = "none"]

ScheduleNormalDisplayOffAlarm(w) ==
  LET timeout == w.offTimeout[w.supply]
      c == CancelDisplayOffAlarm(w)
  IN IF timeout = Infinite
     THEN [c EXCEPT !.timeoutType = "normal", !.offTime = Infinite]
     ELSE [c EXCEPT !.timeoutType = "normal", !.offTime = TimePoint(timeout),
                    !.dimAlarm = IF timeout > DimDuration
                                 THEN Delay(timeout - DimDuration) ELSE NoAlarm,
                    !.offAlarm = Delay(timeout)]

\* Also drops a suspend that waits for clients to allow it.
ScheduleNormalSuspendAlarm(w) ==
  LET timeout == w.suspendTimeout[w.supply]
  IN [w EXCEPT !.suspendPending = FALSE,
               !.suspendAlarm = IF timeout = Infinite THEN NoAlarm ELSE Delay(timeout)]

ScheduleNormalAlarm(w) == ScheduleNormalSuspendAlarm(ScheduleNormalDisplayOffAlarm(w))

\* Mutant: the comparison with the present time point is dropped.
ReplaceDisplayOffAlarm(w, timeout, type) ==
  [CancelDisplayOffAlarm(w) EXCEPT
     !.offAlarm = Delay(timeout), !.offTime = timeout, !.timeoutType = type]

\* The three schedule_*_alarm functions that only ever extend the time to
\* display off: post-notification, reduced, immediate.
ExtendDisplayOffAlarm(w, timeout, type) ==
  IF timeout > w.offTime
  THEN [CancelDisplayOffAlarm(w) EXCEPT
          !.offAlarm = Delay(timeout), !.offTime = timeout, !.timeoutType = type]
  ELSE w

SchedulePostNotificationAlarm(w) ==
  ExtendDisplayOffAlarm(w, PostNotificationTimeout, "post_notification")

ScheduleReducedAlarm(w) == ExtendDisplayOffAlarm(w, ReducedTimeout, "reduced")

ScheduleImmediateAlarm(w) == ExtendDisplayOffAlarm(w, 0, "post_notification")

ScheduleProximityDisableAlarm(w) == [w EXCEPT !.proximityAlarm = Delay(ReducedTimeout)]

\* std::min of the normal timeout, infinite or not, and the expiration.
ScheduleNotificationExpirationAlarm(w) ==
  LET timeout == w.offTimeout[w.supply]
  IN [w EXCEPT !.notificationAlarm =
        Delay(IF timeout < NotificationExpiration THEN timeout ELSE NotificationExpiration)]

CancelNotificationExpirationAlarm(w) == [w EXCEPT !.notificationAlarm = NoAlarm]

-----------------------------------------------------------------------------
(* Display.                                                                *)

TurnOffDisplay(w, reason) ==
  IF w.paused THEN w
  ELSE CancelDisplayOffAlarm(
         [w EXCEPT !.backlight = "off",
                   !.internalPanel = "off", !.externalPanel = "off",
                   !.modem = IF reason = "proximity" THEN w.modem ELSE "low_power",
                   !.mode = "off", !.reason = reason,
                   !.calls = w.calls \cup {"notify_display_off"},
                   !.interactive = FALSE,
                   !.wakeLock = /\ w.wakeLock
                                /\ reason = "proximity" \/ ~w.suspendAllowed])

BrightenDisplay(w) == IF w.paused THEN w ELSE [w EXCEPT !.backlight = "normal"]

\* Mutant: a paused session dims.
DimDisplayAlways(w) == [w EXCEPT !.backlight = "dim"]

DimDisplay(w) == IF w.paused THEN w ELSE [w EXCEPT !.backlight = "dim"]

\* With the lid closed only external panels are turned on and the backlight,
\* that of the internal panel, is left as it is.
TurnOnDisplayWithoutTimeout(w, reason) ==
  IF w.paused THEN w
  ELSE [w EXCEPT !.wakeLock = TRUE, !.interactive = TRUE,
                 !.externalPanel = "on",
                 !.internalPanel = IF w.lidClosed THEN w.internalPanel ELSE "on",
                 !.backlight = IF w.lidClosed THEN w.backlight ELSE "normal",
                 !.mode = "on", !.reason = reason, !.modem = "normal",
                 !.calls = w.calls \cup {"notify_display_on"}]

TurnOnDisplayWithNormalTimeout(w, reason) ==
  ScheduleNormalAlarm(TurnOnDisplayWithoutTimeout(w, reason))

TurnOnDisplayWithReducedTimeout(w, reason) ==
  ScheduleReducedAlarm(TurnOnDisplayWithoutTimeout(w, reason))

-----------------------------------------------------------------------------
(* Inactivity timeout allowances.                                          *)

TimeoutAllowed(w) == w.disallowedTimeouts = {}

\* A display turned on by a notification or a call goes off again, even when
\* clients keep the display on.
TimeoutApplicationAllowed(w) ==
  TimeoutAllowed(w) \/ w.reason \in {"notification", "call"}

\* Mutant: no timer for the last client that allows the timeout.
AllowTimeoutWithoutTimer(w, allowance) ==
  LET v == [w EXCEPT !.disallowedTimeouts = w.disallowedTimeouts \ {allowance}]
  IN IF /\ ~TimeoutAllowed(w) /\ TimeoutAllowed(v) /\ w.mode = "on"
        /\ allowance = "notification" /\ w.timeoutType = "none"
     THEN TurnOffDisplay(v, "activity") ELSE v

\* Mutant: the end of a notification relies on the timer it scheduled.
AllowTimeoutWithoutTurnOff(w, allowance) ==
  LET v == [w EXCEPT !.disallowedTimeouts = w.disallowedTimeouts \ {allowance}]
  IN IF /\ ~TimeoutAllowed(w) /\ TimeoutAllowed(v) /\ w.mode = "on"
        /\ allowance = "client"
     THEN ScheduleNormalAlarm(v) ELSE v

AllowTimeout(w, allowance) ==
  LET v == [w EXCEPT !.disallowedTimeouts = w.disallowedTimeouts \ {allowance}]
  IN IF TimeoutAllowed(w) \/ ~TimeoutAllowed(v) \/ w.mode # "on" THEN v
     ELSE IF allowance = "client" THEN ScheduleNormalAlarm(v)
     ELSE IF w.timeoutType = "none" THEN TurnOffDisplay(v, "activity")
     ELSE v

DisallowTimeout(w, allowance) ==
  [w EXCEPT !.disallowedTimeouts = w.disallowedTimeouts \cup {allowance}]

-----------------------------------------------------------------------------
(* Proximity enablements: the sensor's events are switched on with the     *)
(* first and off with the last.                                            *)

EnableProximity(w, enablement) ==
  [w EXCEPT !.proximityEnablements = w.proximityEnablements \cup {enablement},
            !.proximityEvents = w.proximityEvents \/ w.proximityEnablements = {}]

\* Mutant: the sensor goes off with any enablement.
DisableProximityEvents(w, enablement) ==
  [w EXCEPT !.proximityEnablements = w.proximityEnablements \ {enablement},
            !.proximityEvents = FALSE]

DisableProximity(w, enablement) ==
  [w EXCEPT !.proximityEnablements = w.proximityEnablements \ {enablement},
            !.proximityEvents = w.proximityEvents /\ w.proximityEnablements # {enablement}]

OnlyUntilFarOrNotification(w) ==
  w.proximityEnablements = {"until_far_event_or_notification_expiration"}

-----------------------------------------------------------------------------
(* System suspend.                                                         *)

\* Mutant: a paused session suspends.
SuspendWhenAllowedAlways(w) ==
  IF w.suspendAllowed
  THEN [w EXCEPT !.suspendPending = FALSE, !.calls = w.calls \cup {"suspend"}]
  ELSE [w EXCEPT !.suspendPending = TRUE]

SuspendWhenAllowed(w) ==
  IF w.suspendAllowed
  THEN [w EXCEPT !.suspendPending = FALSE,
                 !.calls = IF w.paused THEN w.calls ELSE w.calls \cup {"suspend"}]
  ELSE [w EXCEPT !.suspendPending = TRUE]

-----------------------------------------------------------------------------
(* Time.                                                                   *)

TimeMatters(w) ==
  \/ w.longPressAlarm > 0 \/ w.dimAlarm > 0 \/ w.offAlarm > 0
  \/ w.suspendAlarm > 0 \/ w.proximityAlarm > 0 \/ w.notificationAlarm > 0
  \/ w.offTime \in 0 .. Infinite - 1

Elapsed(t) == IF t > 0 THEN t - 1 ELSE t

PassTime(w) ==
  [w EXCEPT !.longPressAlarm = Elapsed(w.longPressAlarm),
            !.dimAlarm = Elapsed(w.dimAlarm),
            !.offAlarm = Elapsed(w.offAlarm),
            !.suspendAlarm = Elapsed(w.suspendAlarm),
            !.proximityAlarm = Elapsed(w.proximityAlarm),
            !.notificationAlarm = Elapsed(w.notificationAlarm),
            !.offTime = IF w.offTime \in 0 .. Infinite - 1 THEN w.offTime - 1 ELSE w.offTime]

-----------------------------------------------------------------------------
(* Alarms.  handle_alarm compares the id that fired with the machine's six *)
(* ids: one operator for each branch.                                      *)

HandleLongPressAlarm(w) ==
  [w EXCEPT !.longPressAlarm = NoAlarm, !.longPressDetected = TRUE,
            !.calls = w.calls \cup {"notify_long_press"}]

\* Mutant: the display dims although a client keeps it on.
HandleDimAlarmAlways(w) == DimDisplay([w EXCEPT !.dimAlarm = NoAlarm])

HandleDimAlarm(w) ==
  LET v == [w EXCEPT !.dimAlarm = NoAlarm]
  IN IF TimeoutApplicationAllowed(v) THEN DimDisplay(v) ELSE v

HandleOffAlarm(w) ==
  LET v == [w EXCEPT !.offAlarm = NoAlarm]
  IN [IF TimeoutApplicationAllowed(v) THEN TurnOffDisplay(v, "activity") ELSE v
        EXCEPT !.timeoutType = "none"]

\* Mutant: suspends at once.
HandleSuspendAlarmAtOnce(w) ==
  [w EXCEPT !.suspendAlarm = NoAlarm,
            !.calls = IF TimeoutApplicationAllowed(w) THEN w.calls \cup {"suspend"} ELSE w.calls]

HandleSuspendAlarm(w) ==
  LET v == [w EXCEPT !.suspendAlarm = NoAlarm]
  IN IF TimeoutApplicationAllowed(v) THEN SuspendWhenAllowed(v) ELSE v

HandleProximityDisableAlarm(w) ==
  DisableProximity([w EXCEPT !.proximityAlarm = NoAlarm], "until_far_event_or_timeout")

HandleNotificationExpirationAlarm(w) ==
  LET v == [w EXCEPT !.notificationAlarm = NoAlarm]
      s == IF v.mode = "on" THEN ScheduleImmediateAlarm(v) ELSE v
  IN DisableProximity(AllowTimeout(s, "notification"),
                      "until_far_event_or_notification_expiration")

-----------------------------------------------------------------------------
(* Voice calls.                                                            *)

HandleActiveCall(w) ==
  EnableProximity(
    IF w.mode = "on" THEN ScheduleNormalAlarm(BrightenDisplay(w))
    ELSE IF w.near THEN w
    ELSE TurnOnDisplayWithNormalTimeout(w, "call"),
    "until_disabled")

\* Mutant: the sensor is left on for a far event that may never come.
HandleNoActiveCallWithoutAlarm(w) ==
  DisableProximity(
    IF w.mode = "on" THEN ScheduleReducedAlarm(BrightenDisplay(w))
    ELSE IF ~w.near THEN TurnOnDisplayWithReducedTimeout(w, "call_done")
    ELSE EnableProximity(w, "until_far_event_or_timeout"),
    "until_disabled")

HandleNoActiveCall(w) ==
  DisableProximity(
    IF w.mode = "on" THEN ScheduleReducedAlarm(BrightenDisplay(w))
    ELSE IF ~w.near THEN TurnOnDisplayWithReducedTimeout(w, "call_done")
    ELSE ScheduleProximityDisableAlarm(EnableProximity(w, "until_far_event_or_timeout")),
    "until_disabled")

-----------------------------------------------------------------------------
(* Client requests and settings.                                           *)

HandleEnableInactivityTimeout(w) == AllowTimeout(w, "client")

HandleDisableInactivityTimeout(w) ==
  LET v == DisallowTimeout(w, "client")
  IN IF v.mode = "on" THEN BrightenDisplay(v)
     ELSE TurnOnDisplayWithoutTimeout(v, "unknown")

\* Reschedules only when the supply whose timeout changes is the active one.
HandleSetInactivityBehavior(w, action, supply, timeout) ==
  IF timeout <= 0 \/ action \notin {"display_off", "suspend"} THEN w
  ELSE LET v == IF action = "display_off"
                THEN [w EXCEPT !.offTimeout = [w.offTimeout EXCEPT ![supply] = timeout]]
                ELSE [w EXCEPT !.suspendTimeout = [w.suspendTimeout EXCEPT ![supply] = timeout]]
       IN IF v.timeoutType = "normal" /\ v.supply = supply
          THEN ScheduleNormalAlarm(v) ELSE v

\* Mutant: any action is taken.
HandleSetAnyLidBehavior(w, action, supply) ==
  [w EXCEPT !.lidAction = [w.lidAction EXCEPT ![supply] = action]]

HandleSetLidBehavior(w, action, supply) ==
  IF action \in LidActions
  THEN [w EXCEPT !.lidAction = [w.lidAction EXCEPT ![supply] = action]] ELSE w

HandleSetCriticalPowerBehavior(w, action) ==
  IF action \in CriticalActions THEN [w EXCEPT !.criticalAction = action] ELSE w

\* Leaves the member autobrightness_enabled alone.
HandleSetNormalBrightnessValue(w, value) ==
  LET v == [w EXCEPT !.brightnessValue = value]
  IN IF v.paused THEN v ELSE [v EXCEPT !.abActive = FALSE, !.backlightValue = value]

HandleEnableAutobrightness(w) ==
  [w EXCEPT !.autobrightness = TRUE, !.abActive = w.abActive \/ ~w.paused]

HandleDisableAutobrightness(w) ==
  [w EXCEPT !.autobrightness = FALSE, !.abActive = w.abActive /\ w.paused]

\* Mutant: the last client to allow it allows it over a display that is on.
HandleAllowSuspendAlways(w) ==
  LET v == [w EXCEPT !.suspendAllowed = TRUE, !.wakeLock = FALSE]
  IN IF v.suspendPending THEN SuspendWhenAllowed(v) ELSE v

\* The automatic suspend is allowed again even when the session is paused.
HandleAllowSuspend(w) ==
  LET v == [w EXCEPT !.suspendAllowed = TRUE,
                     !.wakeLock = /\ w.wakeLock
                                  /\ w.mode = "on" \/ w.reason = "proximity"]
  IN IF v.suspendPending THEN SuspendWhenAllowed(v) ELSE v

HandleDisallowSuspend(w) == [w EXCEPT !.suspendAllowed = FALSE, !.wakeLock = TRUE]

HandleTurnOnDisplay(w) == TurnOnDisplayWithNormalTimeout(w, "power_button")

\* Mutant: a paused session turns the display off.
HandleTurnOffDisplayAlways(w) ==
  [TurnOffDisplay([w EXCEPT !.paused = FALSE], "power_button") EXCEPT !.paused = w.paused]

HandleTurnOffDisplay(w) == TurnOffDisplay(w, "power_button")

-----------------------------------------------------------------------------
(* Notifications.                                                          *)

HandleNotification(w) ==
  LET v == DisallowTimeout(w, "notification")
  IN ScheduleNotificationExpirationAlarm(
       IF v.mode = "on" THEN BrightenDisplay(v)
       ELSE IF ~v.near THEN TurnOnDisplayWithoutTimeout(v, "notification")
       ELSE EnableProximity(v, "until_far_event_or_notification_expiration"))

\* Mutant: the expiration alarm is cancelled while the sensor stays on for it.
HandleNoNotificationForgetsSensor(w) ==
  LET v == IF w.mode = "on" THEN SchedulePostNotificationAlarm(w) ELSE w
  IN CancelNotificationExpirationAlarm(AllowTimeout(v, "notification"))

HandleNoNotification(w) ==
  LET v == IF w.mode = "on" THEN SchedulePostNotificationAlarm(w) ELSE w
  IN CancelNotificationExpirationAlarm(
       DisableProximity(AllowTimeout(v, "notification"),
                        "until_far_event_or_notification_expiration"))

-----------------------------------------------------------------------------
(* Power button and user activity.                                         *)

\* What every user activity does to a display that is on already.
ActivityWhileOn(w, reason) ==
  [ScheduleNormalAlarm(BrightenDisplay(w)) EXCEPT !.reason = reason]

HandlePowerButtonPress(w) ==
  LET v == [w EXCEPT !.modeAtPress = w.mode]
      d == IF v.mode = "off" THEN TurnOnDisplayWithNormalTimeout(v, "power_button")
           ELSE IF TreatPowerButtonAsUserActivity THEN ActivityWhileOn(v, "power_button")
           ELSE v
  IN [d EXCEPT !.longPressAlarm = Delay(LongPressTimeout)]

\* The long-press alarm is forgotten, not cancelled: when it fires its id
\* matches none of the machine's.
HandlePowerButtonRelease(w) ==
  LET short == /\ ~w.longPressDetected
               /\ w.modeAtPress = "on"
               /\ ~TreatPowerButtonAsUserActivity
      v == IF short THEN TurnOffDisplay(w, "power_button") ELSE w
  IN [v EXCEPT !.longPressDetected = FALSE, !.modeAtPress = "unknown",
               !.longPressAlarm = NoAlarm]

HandleUserActivityChanging(w) ==
  IF w.mode = "on" THEN ActivityWhileOn(w, "activity")
  ELSE IF w.near THEN w
  ELSE TurnOnDisplayWithNormalTimeout(w, "activity")

HandleUserActivityExtending(w) ==
  IF w.mode = "on" THEN ActivityWhileOn(w, "activity") ELSE w

-----------------------------------------------------------------------------
(* Lid, power source, proximity, system resume.                            *)

\* Mutant: with external displays the internal panel is forgotten.
HandleLidClosedForgetsPanel(w) ==
  LET v == [w EXCEPT !.lidClosed = TRUE]
      off == IF v.mode = "on" THEN TurnOffDisplay(v, "unknown") ELSE v
  IN IF v.externalDisplays THEN v
     ELSE IF v.lidAction[v.supply] = "suspend"
          THEN [off EXCEPT !.calls = off.calls \cup {"suspend"}]
     ELSE off

HandleLidClosed(w) ==
  LET v == [w EXCEPT !.lidClosed = TRUE]
      off == IF v.mode = "on" THEN TurnOffDisplay(v, "unknown") ELSE v
  IN IF v.externalDisplays THEN [v EXCEPT !.internalPanel = "off"]
     ELSE IF v.lidAction[v.supply] = "suspend"
          THEN [off EXCEPT !.calls = off.calls \cup {"suspend"}]
     ELSE off

HandleLidOpen(w) ==
  LET v == [w EXCEPT !.lidClosed = FALSE]
  IN IF v.mode = "on"
     THEN ActivityWhileOn([v EXCEPT !.internalPanel = "on"], "activity")
     ELSE TurnOnDisplayWithNormalTimeout(v, "activity")

\* A display that is off is turned on with the reason of a notification.
HandlePowerSourceChange(w) ==
  LET v == [w EXCEPT !.supply = w.powerSupply]
  IN ScheduleNormalSuspendAlarm(
       IF v.mode = "on" THEN ActivityWhileOn(v, "activity")
       ELSE IF v.near THEN v
       ELSE TurnOnDisplayWithReducedTimeout(v, "notification"))

HandlePowerSourceCritical(w) == [w EXCEPT !.calls = w.calls \cup {w.criticalAction}]

HandleProximityFar(w) ==
  LET v == DisableProximity(
             DisableProximity(w, "until_far_event_or_notification_expiration"),
             "until_far_event_or_timeout")
  IN IF w.mode = "on" THEN v
     ELSE IF OnlyUntilFarOrNotification(w)
          THEN TurnOnDisplayWithReducedTimeout(v, "proximity")
     ELSE TurnOnDisplayWithNormalTimeout(v, "proximity")

HandleProximityNear(w) == IF w.mode = "on" THEN TurnOffDisplay(w, "proximity") ELSE w

HandleSystemResume(w) == TurnOnDisplayWithNormalTimeout(w, "activity")

-----------------------------------------------------------------------------
(* Start, pause and resume of the session.                                 *)

StartMachine(w) ==
  LET v == [w EXCEPT !.supply = w.powerSupply, !.defaultHandlers = FALSE]
  IN IF TurnOnDisplayAtStartup THEN TurnOnDisplayWithNormalTimeout(v, "unknown") ELSE v

\* Only the long-press alarm is cancelled; longPressDetected, modeAtPress
\* and the inactivity alarms stay.
PauseMachine(w) ==
  [w EXCEPT !.longPressAlarm = NoAlarm, !.proximityEvents = FALSE,
            !.abActive = FALSE, !.defaultHandlers = TRUE, !.paused = TRUE]

ResumeMachine(w) ==
  LET v == TurnOnDisplayWithNormalTimeout(
             [w EXCEPT !.paused = FALSE, !.defaultHandlers = FALSE,
                       !.abActive = w.autobrightness,
                       !.backlightValue = w.brightnessValue],
             "unknown")
  IN [v EXCEPT !.proximityEvents = v.proximityEvents \/ v.proximityEnablements # {}]

=============================================================================
