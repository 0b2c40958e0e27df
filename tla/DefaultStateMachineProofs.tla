--------------------- MODULE DefaultStateMachineProofs ---------------------
(***************************************************************************)
(* What every handler of DefaultStateMachine preserves, for every value of *)
(* the constants: one lemma for each helper and each handler.  A handler   *)
(* leaves a sound world behind (every field of its type), keeps what is    *)
(* true of the sensor's events, whichever session has switched them on,    *)
(* keeps the automatic suspend disallowed when it must be, never touches   *)
(* the adapter's sets, and changes the inactivity and suspend allowances   *)
(* only as its name says.  SessionProofs composes them for one session,    *)
(* DaemonProofs for several that share the ports.                          *)
(*                                                                         *)
(* A second lemma for each of them says what it does to the display and    *)
(* the alarms: timer and panels stay in order (Orders), a paused session   *)
(* leaves the shared display alone and a suspend is allowed (Discreet),    *)
(* and what a notification or a call leaves behind has its alarm           *)
(* (Serves).                                                               *)
(***************************************************************************)
EXTENDS StateEventAdapter, TLAPS

\* The sensor's events are not on for nothing, paused or not.
SensorNeeded(v) == v.proximityEvents => v.proximityEnablements # {}

\* In a running session every enablement has the events it asks for.
SensorServed(v) == ~v.paused /\ v.proximityEnablements # {} => v.proximityEvents

\* The automatic suspend is disallowed exactly while the display is on, a client
\* disallows it or the display is off because of proximity; a suspend that waits
\* waits for a client, and no alarm is on its way.
LockHeld(v) ==
  /\ v.wakeLock <=> \/ v.mode = "on" \/ ~v.suspendAllowed
                    \/ v.reason = "proximity"
  /\ v.suspendPending => ~v.suspendAllowed /\ v.suspendAlarm = NoAlarm

\* The world a handler may be given.
Sound(v) == WorldOK(v)

\* What was true of the sensor's events stays true.
SensorKept(u, v) ==
  /\ SensorNeeded(v) => SensorNeeded(u)
  /\ SensorServed(v) => SensorServed(u)

\* The sets of StateEventAdapter are not the machine's to change.
SameIds(u, v) ==
  /\ u.inactivityRequests = v.inactivityRequests
  /\ u.suspendRequests = v.suspendRequests
  /\ u.notifications = v.notifications

SameAllowances(u, v) ==
  /\ u.disallowedTimeouts = v.disallowedTimeouts
  /\ u.suspendAllowed = v.suspendAllowed

\* A handler that leaves the allowances alone.
Keeps(u, v) ==
  /\ Sound(u)
  /\ SensorKept(u, v)
  /\ LockHeld(v) => LockHeld(u)
  /\ SameIds(u, v)
  /\ SameAllowances(u, v)

\* A handler that takes the allowance a back.
Lifts(u, v, a) ==
  /\ Sound(u) /\ SameIds(u, v)
  /\ SensorKept(u, v)
  /\ LockHeld(v) => LockHeld(u)
  /\ u.suspendAllowed = v.suspendAllowed
  /\ u.disallowedTimeouts = v.disallowedTimeouts \ {a}

\* A handler that adds the allowance a.
Holds(u, v, a) ==
  /\ Sound(u) /\ SameIds(u, v)
  /\ SensorKept(u, v)
  /\ LockHeld(v) => LockHeld(u)
  /\ u.suspendAllowed = v.suspendAllowed
  /\ u.disallowedTimeouts = v.disallowedTimeouts \cup {a}

USE DEF NoAlarm, Past

\* schedule_alarm_in takes milliseconds modulo the range of guint: whatever the
\* timeout, the alarm that is scheduled is a valid one.
LEMMA DelayRangeLemma ==
  ASSUME NEW t \in Int PROVE Delay(t) \in Ticks /\ Delay(t) # NoAlarm
BY OptionsAssumption DEF Delay, Ticks

\* cancel_user_inactivity_display_off_alarm touches the display alarms alone.
LEMMA CancelDisplayOffAlarmKeeps ==
  ASSUME NEW v, Sound(v)
  PROVE  Keeps(CancelDisplayOffAlarm(v), v)
BY OptionsAssumption
   DEF Keeps, Sound, SensorKept, SensorNeeded, SensorServed, LockHeld,
       WorldOK, MachineOK, PortsOK, SameIds,
       SameAllowances, WorldFields, MachineFields, PortFields, CancelDisplayOffAlarm, Ticks,
       TimeoutTypes

\* schedule_normal_user_inactivity_suspend_alarm leaves a sound world, whatever
\* the configured timeout.
LEMMA ScheduleNormalSuspendAlarmKeeps ==
  ASSUME NEW v, Sound(v)
  PROVE  Keeps(ScheduleNormalSuspendAlarm(v), v)
BY OptionsAssumption
   DEF Keeps, Sound, SensorKept, SensorNeeded, SensorServed, LockHeld,
       WorldOK, MachineOK, PortsOK, SameIds,
       SameAllowances, WorldFields, MachineFields, PortFields, ScheduleNormalSuspendAlarm,
       Ticks, TimeoutRange, Delay

\* The post-notification, reduced and immediate alarms, whether they extend the
\* time to display off or leave it.
LEMMA ExtendDisplayOffAlarmKeeps ==
  ASSUME NEW v, Sound(v), NEW t \in 0 .. DelayRange - 1, NEW type \in TimeoutTypes
  PROVE  Keeps(ExtendDisplayOffAlarm(v, t, type), v)
<1> DEFINE c == CancelDisplayOffAlarm(v)
<1>1. Keeps(c, v)
  BY CancelDisplayOffAlarmKeeps
<1>2. /\ t \in Int /\ t \in Past .. Infinite
      /\ Delay(t) \in Ticks
  BY OptionsAssumption, DelayRangeLemma
<1> HIDE DEF c
<1>3. CASE t > v.offTime
  BY <1>1, <1>2, <1>3
   DEF Keeps, Sound, SensorKept, SensorNeeded, SensorServed, LockHeld,
       WorldOK, MachineOK, PortsOK, SameIds,
       SameAllowances, WorldFields, MachineFields, PortFields, ExtendDisplayOffAlarm, c
<1>4. CASE ~(t > v.offTime)
  BY <1>4 DEF Keeps, SensorKept, SameIds, SameAllowances, ExtendDisplayOffAlarm
<1> QED BY <1>3, <1>4

\* schedule_normal_user_inactivity_display_off_alarm, for finite timeouts of
\* either sign and the infinite one.
LEMMA ScheduleNormalDisplayOffAlarmKeeps ==
  ASSUME NEW v, Sound(v)
  PROVE  Keeps(ScheduleNormalDisplayOffAlarm(v), v)
<1> DEFINE t == v.offTimeout[v.supply]
           c == CancelDisplayOffAlarm(v)
<1>1. t \in TimeoutRange
  BY DEF Sound, WorldOK, MachineOK
<1>2. Keeps(c, v)
  BY CancelDisplayOffAlarmKeeps
<1>3. t \in Int /\ t <= Infinite /\ DimDuration \in Nat /\ Infinite \in Nat
  BY <1>1, OptionsAssumption DEF TimeoutRange
<1>4. /\ Delay(t) \in Ticks /\ Delay(t - DimDuration) \in Ticks
      /\ TimePoint(t) \in Past .. Infinite /\ Infinite \in Past .. Infinite
      /\ NoAlarm \in Ticks
  BY <1>3, DelayRangeLemma, OptionsAssumption DEF TimePoint, Ticks
<1> HIDE DEF c
<1>5. CASE t = Infinite
  BY <1>2, <1>4, <1>5
     DEF Keeps, Sound, SensorKept, SensorNeeded, SensorServed, LockHeld,
         WorldOK, MachineOK, PortsOK, SameIds,
         SameAllowances, WorldFields, MachineFields, PortFields,
         ScheduleNormalDisplayOffAlarm, TimeoutTypes, c
<1>6. CASE t # Infinite
  BY <1>2, <1>4, <1>6
     DEF Keeps, Sound, SensorKept, SensorNeeded, SensorServed, LockHeld,
         WorldOK, MachineOK, PortsOK, SameIds,
         SameAllowances, WorldFields, MachineFields, PortFields,
         ScheduleNormalDisplayOffAlarm, TimeoutTypes, c
<1> QED BY <1>5, <1>6

\* schedule_normal_user_inactivity_alarm: the display-off and the suspend alarm
\* in turn.
LEMMA ScheduleNormalAlarmKeeps ==
  ASSUME NEW v, Sound(v)
  PROVE  Keeps(ScheduleNormalAlarm(v), v)
<1> DEFINE d == ScheduleNormalDisplayOffAlarm(v)
<1>1. Keeps(d, v)
  BY ScheduleNormalDisplayOffAlarmKeeps
<1> HIDE DEF d
<1>2. Keeps(ScheduleNormalSuspendAlarm(d), d)
  BY <1>1, ScheduleNormalSuspendAlarmKeeps DEF Keeps
<1> QED BY <1>1, <1>2 DEF ScheduleNormalAlarm, Keeps, SensorKept, SameIds, SameAllowances, d

\* brighten_display touches the backlight alone.
LEMMA BrightenDisplayKeeps ==
  ASSUME NEW v, Sound(v)
  PROVE  Keeps(BrightenDisplay(v), v)
BY DEF Keeps, Sound, SensorKept, SensorNeeded, SensorServed, LockHeld,
       WorldOK, MachineOK, PortsOK, SameIds,
       SameAllowances, WorldFields, MachineFields, PortFields, BrightenDisplay

\* dim_display touches the backlight alone.
LEMMA DimDisplayKeeps ==
  ASSUME NEW v, Sound(v)
  PROVE  Keeps(DimDisplay(v), v)
BY DEF Keeps, Sound, SensorKept, SensorNeeded, SensorServed, LockHeld,
       WorldOK, MachineOK, PortsOK, SameIds,
       SameAllowances, WorldFields, MachineFields, PortFields, DimDisplay

\* enable_proximity: an enablement added is served, by the events it switches
\* on or by those already on.
LEMMA EnableProximityKeeps ==
  ASSUME NEW v, Sound(v), NEW e \in Enablements
  PROVE  Keeps(EnableProximity(v, e), v)
BY DEF Keeps, Sound, SensorKept, SensorNeeded, SensorServed, LockHeld,
       WorldOK, MachineOK, PortsOK, SameIds,
       SameAllowances, WorldFields, MachineFields, PortFields, EnableProximity

\* disable_proximity: the events go off with the last enablement and not
\* before.
LEMMA DisableProximityKeeps ==
  ASSUME NEW v, Sound(v), NEW e \in Enablements
  PROVE  Keeps(DisableProximity(v, e), v)
<1> DEFINE left == v.proximityEnablements \ {e}
           on == v.proximityEvents /\ v.proximityEnablements # {e}
           u == DisableProximity(v, e)
<1>1. left \in SUBSET Enablements /\ on \in BOOLEAN
  BY DEF Sound, WorldOK, MachineOK
<1>2. SensorNeeded(v) => (on => left # {})
  BY DEF SensorNeeded
<1>3. SensorServed(v) => (left # {} /\ ~v.paused => on)
  BY DEF SensorServed
<1>4. u = [v EXCEPT !.proximityEnablements = left, !.proximityEvents = on]
  BY DEF DisableProximity
<1> HIDE DEF left, on, u
<1> QED BY <1>1, <1>2, <1>3, <1>4
   DEF Keeps, Sound, SensorKept, SensorNeeded, SensorServed, LockHeld,
       WorldOK, MachineOK, PortsOK, SameIds,
       SameAllowances, WorldFields, MachineFields, PortFields, u

\* turn_off_display, for any reason; proximity turns off only a display that is
\* on, whose lock it leaves held.
LEMMA TurnOffDisplayKeeps ==
  ASSUME NEW v, Sound(v), NEW reason \in Reasons,
         reason = "proximity" => v.mode = "on"
  PROVE  Keeps(TurnOffDisplay(v, reason), v)
<1> DEFINE modem == IF reason = "proximity" THEN v.modem ELSE "low_power"
           lock == /\ v.wakeLock
                   /\ reason = "proximity" \/ ~v.suspendAllowed
           calls == v.calls \cup {"notify_display_off"}
           u == [v EXCEPT !.backlight = "off",
                   !.internalPanel = "off", !.externalPanel = "off",
                   !.modem = modem,
                   !.mode = "off", !.reason = reason,
                   !.calls = calls,
                   !.interactive = FALSE,
                   !.wakeLock = lock]
<1>1. modem \in {"low_power", "normal"} /\ calls \in SUBSET PortCalls
  BY DEF Sound, WorldOK, MachineOK, PortsOK, PortCalls
<1>2. lock \in BOOLEAN
  OBVIOUS
<1>3. LockHeld(v) => (lock <=> reason = "proximity" \/ ~v.suspendAllowed)
  BY DEF LockHeld
<1> HIDE DEF modem, lock, calls
<1>4. Keeps(u, v)
  <2>0. WorldOK(v) /\ DOMAIN v = WorldFields
    BY DEF Sound, WorldOK
  <2>1. DOMAIN u = WorldFields
    BY <2>0 DEF WorldFields, MachineFields, PortFields
  <2>2. MachineOK(u)
    BY <1>1, <2>0 DEF WorldOK, MachineOK, WorldFields, MachineFields, PortFields, DisplayModes
  <2>3. PortsOK(u)
    BY <1>1, <1>2, <2>0
       DEF WorldOK, PortsOK, WorldFields, MachineFields, PortFields, DisplayModes
  <2>4. /\ SensorKept(u, v)
        /\ SameIds(u, v) /\ SameAllowances(u, v)
    BY <2>0
       DEF Sound, SensorKept, SensorNeeded, SensorServed, SameIds, SameAllowances, WorldFields,
           MachineFields, PortFields
  <2>5. LockHeld(v) => LockHeld(u)
    BY <1>3, <2>0 DEF LockHeld, WorldFields, MachineFields, PortFields
  <2> QED BY <2>1, <2>2, <2>3, <2>4, <2>5 DEF Keeps, Sound, WorldOK
<1> HIDE DEF u
<1>5. Keeps(CancelDisplayOffAlarm(u), u)
  BY <1>4, CancelDisplayOffAlarmKeeps DEF Keeps
<1>6. CASE v.paused
  BY <1>6 DEF TurnOffDisplay, Keeps, SensorKept, SameIds, SameAllowances
<1>7. CASE ~v.paused
  BY <1>4, <1>5, <1>7
     DEF TurnOffDisplay, Keeps, SensorKept, SameIds, SameAllowances, u, modem, lock, calls
<1> QED BY <1>6, <1>7

\* turn_on_display_without_timeout, for any reason, the lid open or closed.
LEMMA TurnOnDisplayWithoutTimeoutKeeps ==
  ASSUME NEW v, Sound(v), NEW reason \in Reasons
  PROVE  Keeps(TurnOnDisplayWithoutTimeout(v, reason), v)
<1> DEFINE internal == IF v.lidClosed THEN v.internalPanel ELSE "on"
           light == IF v.lidClosed THEN v.backlight ELSE "normal"
           calls == v.calls \cup {"notify_display_on"}
           u == [v EXCEPT !.wakeLock = TRUE, !.interactive = TRUE,
                 !.externalPanel = "on",
                 !.internalPanel = internal,
                 !.backlight = light,
                 !.mode = "on", !.reason = reason, !.modem = "normal",
                 !.calls = calls]
<1>1. /\ internal \in DisplayModes /\ light \in {"off", "dim", "normal"}
      /\ calls \in SUBSET PortCalls
  BY DEF Sound, WorldOK, MachineOK, PortsOK, PortCalls, DisplayModes
<1> HIDE DEF internal, light, calls
<1>2. Keeps(u, v)
  <2>0. WorldOK(v) /\ DOMAIN v = WorldFields
    BY DEF Sound, WorldOK
  <2>1. DOMAIN u = WorldFields
    BY <2>0 DEF WorldFields, MachineFields, PortFields
  <2>2. MachineOK(u)
    BY <1>1, <2>0 DEF WorldOK, MachineOK, WorldFields, MachineFields, PortFields, DisplayModes
  <2>3. PortsOK(u)
    BY <1>1, <2>0 DEF WorldOK, PortsOK, WorldFields, MachineFields, PortFields, DisplayModes
  <2>4. /\ SensorKept(u, v)
        /\ LockHeld(v) => LockHeld(u)
        /\ SameIds(u, v) /\ SameAllowances(u, v)
    BY <2>0
       DEF Sound, SensorKept, SensorNeeded, SensorServed, LockHeld, SameIds, SameAllowances, WorldFields,
           MachineFields, PortFields
  <2> QED BY <2>1, <2>2, <2>3, <2>4 DEF Keeps, Sound, WorldOK
<1> HIDE DEF u
<1>3. CASE v.paused
  BY <1>3 DEF TurnOnDisplayWithoutTimeout, Keeps, SensorKept, SameIds, SameAllowances
<1>4. CASE ~v.paused
  BY <1>2, <1>4 DEF TurnOnDisplayWithoutTimeout, u, internal, light, calls
<1> QED BY <1>3, <1>4

\* turn_on_display_with_normal_timeout, for any reason.
LEMMA TurnOnDisplayWithNormalTimeoutKeeps ==
  ASSUME NEW v, Sound(v), NEW reason \in Reasons
  PROVE  Keeps(TurnOnDisplayWithNormalTimeout(v, reason), v)
<1> DEFINE d == TurnOnDisplayWithoutTimeout(v, reason)
<1>1. Keeps(d, v)
  BY TurnOnDisplayWithoutTimeoutKeeps
<1> HIDE DEF d
<1>2. Keeps(ScheduleNormalAlarm(d), d)
  BY <1>1, ScheduleNormalAlarmKeeps DEF Keeps
<1> QED BY <1>1, <1>2 DEF TurnOnDisplayWithNormalTimeout, Keeps, SensorKept, SameIds, SameAllowances, d

\* schedule_reduced_user_inactivity_alarm.
LEMMA ScheduleReducedAlarmKeeps ==
  ASSUME NEW v, Sound(v)
  PROVE  Keeps(ScheduleReducedAlarm(v), v)
BY OptionsAssumption, ExtendDisplayOffAlarmKeeps DEF ScheduleReducedAlarm, TimeoutTypes

\* schedule_post_notification_user_inactivity_alarm.
LEMMA SchedulePostNotificationAlarmKeeps ==
  ASSUME NEW v, Sound(v)
  PROVE  Keeps(SchedulePostNotificationAlarm(v), v)
BY OptionsAssumption, ExtendDisplayOffAlarmKeeps
   DEF SchedulePostNotificationAlarm, TimeoutTypes

\* schedule_immediate_user_inactivity_alarm.
LEMMA ScheduleImmediateAlarmKeeps ==
  ASSUME NEW v, Sound(v)
  PROVE  Keeps(ScheduleImmediateAlarm(v), v)
<1>1. 0 \in 0 .. DelayRange - 1 /\ "post_notification" \in TimeoutTypes
  BY OptionsAssumption DEF TimeoutTypes
<1> QED BY <1>1, ExtendDisplayOffAlarmKeeps DEF ScheduleImmediateAlarm

\* turn_on_display_with_reduced_timeout, for any reason.
LEMMA TurnOnDisplayWithReducedTimeoutKeeps ==
  ASSUME NEW v, Sound(v), NEW reason \in Reasons
  PROVE  Keeps(TurnOnDisplayWithReducedTimeout(v, reason), v)
<1> DEFINE d == TurnOnDisplayWithoutTimeout(v, reason)
<1>1. Keeps(d, v)
  BY TurnOnDisplayWithoutTimeoutKeeps
<1> HIDE DEF d
<1>2. Keeps(ScheduleReducedAlarm(d), d)
  BY <1>1, ScheduleReducedAlarmKeeps DEF Keeps
<1> QED BY <1>1, <1>2 DEF TurnOnDisplayWithReducedTimeout, Keeps, SensorKept, SameIds, SameAllowances, d

\* schedule_proximity_disable_alarm.
LEMMA ScheduleProximityDisableAlarmKeeps ==
  ASSUME NEW v, Sound(v)
  PROVE  Keeps(ScheduleProximityDisableAlarm(v), v)
<1>1. Delay(ReducedTimeout) \in Ticks
  BY OptionsAssumption, DelayRangeLemma
<1> QED BY <1>1
   DEF Keeps, Sound, SensorKept, SensorNeeded, SensorServed, LockHeld,
       WorldOK, MachineOK, PortsOK, SameIds,
       SameAllowances, WorldFields, MachineFields, PortFields, ScheduleProximityDisableAlarm

\* schedule_notification_expiration_alarm: the smaller of two timeouts is still
\* a valid alarm.
LEMMA ScheduleNotificationExpirationAlarmKeeps ==
  ASSUME NEW v, Sound(v)
  PROVE  Keeps(ScheduleNotificationExpirationAlarm(v), v)
<1> DEFINE t == v.offTimeout[v.supply]
           delay == Delay(IF t < NotificationExpiration THEN t ELSE NotificationExpiration)
<1>1. t \in Int
  BY DEF Sound, WorldOK, MachineOK, TimeoutRange
<1>2. delay \in Ticks
  BY <1>1, OptionsAssumption, DelayRangeLemma
<1>3. ScheduleNotificationExpirationAlarm(v) = [v EXCEPT !.notificationAlarm = delay]
  BY DEF ScheduleNotificationExpirationAlarm
<1> HIDE DEF delay
<1> QED BY <1>2, <1>3
   DEF Keeps, Sound, SensorKept, SensorNeeded, SensorServed, LockHeld,
       WorldOK, MachineOK, PortsOK, SameIds,
       SameAllowances, WorldFields, MachineFields, PortFields

\* cancel_notification_expiration_alarm.
LEMMA CancelNotificationExpirationAlarmKeeps ==
  ASSUME NEW v, Sound(v)
  PROVE  Keeps(CancelNotificationExpirationAlarm(v), v)
BY OptionsAssumption
   DEF Keeps, Sound, SensorKept, SensorNeeded, SensorServed, LockHeld,
       WorldOK, MachineOK, PortsOK, SameIds,
       SameAllowances, WorldFields, MachineFields, PortFields,
       CancelNotificationExpirationAlarm, Ticks

\* suspend_when_allowed, allowed or not, paused or not: what it leaves pending
\* has no alarm.
LEMMA SuspendWhenAllowedKeeps ==
  ASSUME NEW v, Sound(v), v.suspendAlarm = NoAlarm
  PROVE  Keeps(SuspendWhenAllowed(v), v)
<1> DEFINE calls == IF v.paused THEN v.calls ELSE v.calls \cup {"suspend"}
<1>1. calls \in SUBSET PortCalls
  BY DEF Sound, WorldOK, MachineOK, PortCalls
<1>2. SuspendWhenAllowed(v) = IF v.suspendAllowed
                              THEN [v EXCEPT !.suspendPending = FALSE, !.calls = calls]
                              ELSE [v EXCEPT !.suspendPending = TRUE]
  BY DEF SuspendWhenAllowed
<1> HIDE DEF calls
<1> QED BY <1>1, <1>2
   DEF Keeps, Sound, SensorKept, SensorNeeded, SensorServed, LockHeld,
       WorldOK, MachineOK, PortsOK, SameIds,
       SameAllowances, WorldFields, MachineFields, PortFields

\* allow_inactivity_timeout takes exactly one allowance back, whichever of its
\* three outcomes it has.
LEMMA AllowTimeoutLifts ==
  ASSUME NEW v, Sound(v), NEW a \in Allowances
  PROVE  Lifts(AllowTimeout(v, a), v, a)
<1> DEFINE u == [v EXCEPT !.disallowedTimeouts = v.disallowedTimeouts \ {a}]
<1>1. Lifts(u, v, a)
  BY DEF Lifts, Keeps, Sound, SensorKept, SensorNeeded, SensorServed, LockHeld,
         WorldOK, MachineOK, PortsOK,
         SameIds, SameAllowances, WorldFields, MachineFields, PortFields
<1>2. Sound(u)
  BY <1>1 DEF Lifts
<1> HIDE DEF u
<1>3. Keeps(ScheduleNormalAlarm(u), u)
  BY <1>2, ScheduleNormalAlarmKeeps
<1>4. Keeps(TurnOffDisplay(u, "activity"), u)
  BY <1>2, TurnOffDisplayKeeps DEF Reasons
<1>5. AllowTimeout(v, a) \in {u, ScheduleNormalAlarm(u), TurnOffDisplay(u, "activity")}
  BY DEF AllowTimeout, u
<1> QED BY <1>1, <1>3, <1>4, <1>5 DEF Lifts, Keeps, SensorKept, SameIds, SameAllowances

\* disallow_inactivity_timeout adds exactly one allowance.
LEMMA DisallowTimeoutHolds ==
  ASSUME NEW v, Sound(v), NEW a \in Allowances
  PROVE  Holds(DisallowTimeout(v, a), v, a)
BY DEF Holds, DisallowTimeout, Keeps, Sound, SensorKept, SensorNeeded, SensorServed, LockHeld,
       WorldOK, MachineOK,
       PortsOK, SameIds, SameAllowances, WorldFields, MachineFields, PortFields

\* An alarm that runs down stays an alarm.
LEMMA ElapsedOK ==
  ASSUME NEW t \in Ticks
  PROVE  Elapsed(t) \in Ticks
BY OptionsAssumption DEF Elapsed, Ticks

\* The passing of time, of the steady clock and of every alarm.
LEMMA PassTimeKeeps ==
  ASSUME NEW v, Sound(v)
  PROVE  Keeps(PassTime(v), v)
<1> DEFINE time == IF v.offTime \in 0 .. Infinite - 1 THEN v.offTime - 1 ELSE v.offTime
           l == Elapsed(v.longPressAlarm)
           d == Elapsed(v.dimAlarm)
           o == Elapsed(v.offAlarm)
           s == Elapsed(v.suspendAlarm)
           p == Elapsed(v.proximityAlarm)
           n == Elapsed(v.notificationAlarm)
<1>1. /\ l \in Ticks /\ d \in Ticks /\ o \in Ticks
      /\ s \in Ticks /\ p \in Ticks /\ n \in Ticks
  BY ElapsedOK DEF Sound, WorldOK, MachineOK
<1>2. time \in Past .. Infinite
  BY OptionsAssumption DEF Sound, WorldOK, MachineOK
<1>3. PassTime(v) = [v EXCEPT !.longPressAlarm = l, !.dimAlarm = d, !.offAlarm = o,
                              !.suspendAlarm = s, !.proximityAlarm = p,
                              !.notificationAlarm = n, !.offTime = time]
  BY DEF PassTime
<1>4. v.suspendAlarm = NoAlarm => s = NoAlarm
  BY DEF Elapsed
<1> HIDE DEF time, l, d, o, s, p, n
<1> QED BY <1>1, <1>2, <1>3, <1>4
   DEF Keeps, Sound, SensorKept, SensorNeeded, SensorServed, LockHeld,
       WorldOK, MachineOK, PortsOK, SameIds,
       SameAllowances, WorldFields, MachineFields, PortFields

\* The branch of handle_alarm for a long press of the power button.
LEMMA HandleLongPressAlarmKeeps ==
  ASSUME NEW v, Sound(v)
  PROVE  Keeps(HandleLongPressAlarm(v), v)
<1> DEFINE calls == v.calls \cup {"notify_long_press"}
<1>1. calls \in SUBSET PortCalls /\ NoAlarm \in Ticks
  BY OptionsAssumption DEF Sound, WorldOK, MachineOK, PortCalls, Ticks
<1>2. HandleLongPressAlarm(v)
        = [v EXCEPT !.longPressAlarm = NoAlarm, !.longPressDetected = TRUE, !.calls = calls]
  BY DEF HandleLongPressAlarm
<1> HIDE DEF calls
<1> QED BY <1>1, <1>2
   DEF Keeps, Sound, SensorKept, SensorNeeded, SensorServed, LockHeld,
       WorldOK, MachineOK, PortsOK, SameIds,
       SameAllowances, WorldFields, MachineFields, PortFields

\* The branch of handle_alarm for the dim alarm.
LEMMA HandleDimAlarmKeeps ==
  ASSUME NEW v, Sound(v)
  PROVE  Keeps(HandleDimAlarm(v), v)
<1> DEFINE u == [v EXCEPT !.dimAlarm = NoAlarm]
<1>1. Keeps(u, v)
  BY OptionsAssumption
     DEF Ticks, Keeps, Sound, SensorKept, SensorNeeded, SensorServed, LockHeld,
         WorldOK, MachineOK, PortsOK,
         SameIds, SameAllowances, WorldFields, MachineFields, PortFields
<1> HIDE DEF u
<1>2. Keeps(DimDisplay(u), u)
  BY <1>1, DimDisplayKeeps DEF Keeps
<1> QED BY <1>1, <1>2 DEF HandleDimAlarm, Keeps, SensorKept, SameIds, SameAllowances, u

\* The branch of handle_alarm for the display-off alarm.
LEMMA HandleOffAlarmKeeps ==
  ASSUME NEW v, Sound(v)
  PROVE  Keeps(HandleOffAlarm(v), v)
<1> DEFINE u == [v EXCEPT !.offAlarm = NoAlarm]
           d == IF TimeoutApplicationAllowed(u) THEN TurnOffDisplay(u, "activity") ELSE u
<1>1. Keeps(u, v)
  BY OptionsAssumption
     DEF Ticks, Keeps, Sound, SensorKept, SensorNeeded, SensorServed, LockHeld,
         WorldOK, MachineOK, PortsOK,
         SameIds, SameAllowances, WorldFields, MachineFields, PortFields
<1> HIDE DEF u
<1>2. Keeps(TurnOffDisplay(u, "activity"), u)
  BY <1>1, TurnOffDisplayKeeps DEF Keeps, Reasons
<1>3. Keeps(d, v)
  BY <1>1, <1>2 DEF Keeps, SensorKept, SameIds, SameAllowances
<1> HIDE DEF d
<1>4. HandleOffAlarm(v) = [d EXCEPT !.timeoutType = "none"]
  BY DEF HandleOffAlarm, d, u
<1> QED BY <1>3, <1>4
   DEF TimeoutTypes, Keeps, Sound, SensorKept, SensorNeeded, SensorServed, LockHeld,
       WorldOK, MachineOK, PortsOK,
       SameIds, SameAllowances, WorldFields, MachineFields, PortFields

\* The branch of handle_alarm for the suspend alarm.
LEMMA HandleSuspendAlarmKeeps ==
  ASSUME NEW v, Sound(v)
  PROVE  Keeps(HandleSuspendAlarm(v), v)
<1> DEFINE u == [v EXCEPT !.suspendAlarm = NoAlarm]
<1>1. Keeps(u, v)
  BY OptionsAssumption
     DEF Ticks, Keeps, Sound, SensorKept, SensorNeeded, SensorServed, LockHeld,
         WorldOK, MachineOK, PortsOK,
         SameIds, SameAllowances, WorldFields, MachineFields, PortFields
<1>2. u.suspendAlarm = NoAlarm
  BY DEF u, Sound, WorldOK, WorldFields, MachineFields
<1> HIDE DEF u
<1>3. Keeps(SuspendWhenAllowed(u), u)
  BY <1>1, <1>2, SuspendWhenAllowedKeeps DEF Keeps
<1> QED BY <1>1, <1>3 DEF HandleSuspendAlarm, Keeps, SensorKept, SameIds, SameAllowances, u

\* The branch of handle_alarm that ends the sensor after a call.
LEMMA HandleProximityDisableAlarmKeeps ==
  ASSUME NEW v, Sound(v)
  PROVE  Keeps(HandleProximityDisableAlarm(v), v)
<1> DEFINE u == [v EXCEPT !.proximityAlarm = NoAlarm]
           e == "until_far_event_or_timeout"
<1>1. Keeps(u, v)
  BY OptionsAssumption
     DEF Ticks, Keeps, Sound, SensorKept, SensorNeeded, SensorServed, LockHeld,
         WorldOK, MachineOK, PortsOK,
         SameIds, SameAllowances, WorldFields, MachineFields, PortFields
<1> HIDE DEF u
<1>2. Keeps(DisableProximity(u, e), u)
  BY <1>1, DisableProximityKeeps DEF Keeps, Enablements
<1> QED BY <1>1, <1>2 DEF HandleProximityDisableAlarm, Keeps, SensorKept, SameIds, SameAllowances, u

\* The branch of handle_alarm for an expired notification: it takes the
\* notification's allowance back and its enablement.
LEMMA HandleNotificationExpirationAlarmLifts ==
  ASSUME NEW v, Sound(v)
  PROVE  Lifts(HandleNotificationExpirationAlarm(v), v, "notification")
<1> DEFINE u == [v EXCEPT !.notificationAlarm = NoAlarm]
           i == IF u.mode = "on" THEN ScheduleImmediateAlarm(u) ELSE u
           a == AllowTimeout(i, "notification")
           e == "until_far_event_or_notification_expiration"
<1>1. Keeps(u, v)
  BY OptionsAssumption
     DEF Ticks, Keeps, Sound, SensorKept, SensorNeeded, SensorServed, LockHeld,
         WorldOK, MachineOK, PortsOK,
         SameIds, SameAllowances, WorldFields, MachineFields, PortFields
<1> HIDE DEF u
<1>2. Keeps(ScheduleImmediateAlarm(u), u)
  BY <1>1, ScheduleImmediateAlarmKeeps DEF Keeps
<1>3. Keeps(i, v)
  BY <1>1, <1>2 DEF Keeps, SensorKept, SameIds, SameAllowances
<1> HIDE DEF i
<1>4. Lifts(a, i, "notification")
  BY <1>3, AllowTimeoutLifts DEF Keeps, Allowances
<1> HIDE DEF a
<1>5. Keeps(DisableProximity(a, e), a)
  BY <1>4, DisableProximityKeeps DEF Lifts, Enablements
<1> QED BY <1>3, <1>4, <1>5
   DEF HandleNotificationExpirationAlarm, Lifts, Keeps, SensorKept, SameIds, SameAllowances, u, i, a

\* handle_active_call.
LEMMA HandleActiveCallKeeps ==
  ASSUME NEW v, Sound(v)
  PROVE  Keeps(HandleActiveCall(v), v)
<1> DEFINE b == BrightenDisplay(v)
           d == IF v.mode = "on" THEN ScheduleNormalAlarm(b)
                ELSE IF v.near THEN v
                ELSE TurnOnDisplayWithNormalTimeout(v, "call")
<1>1. Keeps(b, v)
  BY BrightenDisplayKeeps
<1> HIDE DEF b
<1>2. Keeps(ScheduleNormalAlarm(b), b)
  BY <1>1, ScheduleNormalAlarmKeeps DEF Keeps
<1>3. Keeps(TurnOnDisplayWithNormalTimeout(v, "call"), v)
  BY TurnOnDisplayWithNormalTimeoutKeeps DEF Reasons
<1>4. Keeps(d, v)
  BY <1>1, <1>2, <1>3 DEF Keeps, SensorKept, SameIds, SameAllowances
<1> HIDE DEF d
<1>5. Keeps(EnableProximity(d, "until_disabled"), d)
  BY <1>4, EnableProximityKeeps DEF Keeps, Enablements
<1> QED BY <1>4, <1>5 DEF HandleActiveCall, Keeps, SensorKept, SameIds, SameAllowances, d, b

\* handle_no_active_call: the enablement until a far event comes before the
\* call's own goes, and the sensor stays served.
LEMMA HandleNoActiveCallKeeps ==
  ASSUME NEW v, Sound(v)
  PROVE  Keeps(HandleNoActiveCall(v), v)
<1> DEFINE b == BrightenDisplay(v)
           p == EnableProximity(v, "until_far_event_or_timeout")
           d == IF v.mode = "on" THEN ScheduleReducedAlarm(b)
                ELSE IF ~v.near THEN TurnOnDisplayWithReducedTimeout(v, "call_done")
                ELSE ScheduleProximityDisableAlarm(p)
<1>1. Keeps(b, v)
  BY BrightenDisplayKeeps
<1> HIDE DEF b
<1>2. Keeps(ScheduleReducedAlarm(b), b)
  BY <1>1, ScheduleReducedAlarmKeeps DEF Keeps
<1>3. Keeps(TurnOnDisplayWithReducedTimeout(v, "call_done"), v)
  BY TurnOnDisplayWithReducedTimeoutKeeps DEF Reasons
<1>4. Keeps(p, v)
  BY EnableProximityKeeps DEF Enablements
<1> HIDE DEF p
<1>5. Keeps(ScheduleProximityDisableAlarm(p), p)
  BY <1>4, ScheduleProximityDisableAlarmKeeps DEF Keeps
<1>6. Keeps(d, v)
  BY <1>1, <1>2, <1>3, <1>4, <1>5 DEF Keeps, SensorKept, SameIds, SameAllowances
<1> HIDE DEF d
<1>7. Keeps(DisableProximity(d, "until_disabled"), d)
  BY <1>6, DisableProximityKeeps DEF Keeps, Enablements
<1> QED BY <1>6, <1>7 DEF HandleNoActiveCall, Keeps, SensorKept, SameIds, SameAllowances, d, b, p

\* handle_disable_inactivity_timeout adds the client's allowance.
LEMMA HandleDisableInactivityTimeoutHolds ==
  ASSUME NEW v, Sound(v)
  PROVE  Holds(HandleDisableInactivityTimeout(v), v, "client")
<1> DEFINE u == DisallowTimeout(v, "client")
<1>1. Holds(u, v, "client")
  BY DisallowTimeoutHolds DEF Allowances
<1>2. Sound(u)
  BY <1>1 DEF Holds
<1> HIDE DEF u
<1>3. Keeps(BrightenDisplay(u), u)
  BY <1>2, BrightenDisplayKeeps
<1>4. Keeps(TurnOnDisplayWithoutTimeout(u, "unknown"), u)
  BY <1>2, TurnOnDisplayWithoutTimeoutKeeps DEF Reasons
<1> QED BY <1>1, <1>3, <1>4
        DEF HandleDisableInactivityTimeout, Holds, Keeps, SensorKept, SameIds, SameAllowances, u

\* handle_set_inactivity_behavior, for any action, supply and timeout.
LEMMA HandleSetInactivityBehaviorKeeps ==
  ASSUME NEW v, Sound(v), NEW action, NEW supply \in Supplies, NEW t \in TimeoutRange
  PROVE  Keeps(HandleSetInactivityBehavior(v, action, supply, t), v)
<1> DEFINE off == [v.offTimeout EXCEPT ![supply] = t]
           susp == [v.suspendTimeout EXCEPT ![supply] = t]
           d == [v EXCEPT !.offTimeout = off]
           s == [v EXCEPT !.suspendTimeout = susp]
           u == IF action = "display_off" THEN d ELSE s
<1>1. off \in [Supplies -> TimeoutRange] /\ susp \in [Supplies -> TimeoutRange]
  BY DEF Sound, WorldOK, MachineOK
<1> HIDE DEF off, susp
<1>2. Keeps(d, v)
  BY <1>1
     DEF Keeps, Sound, SensorKept, SensorNeeded, SensorServed, LockHeld,
         WorldOK, MachineOK, PortsOK, SameIds,
         SameAllowances, WorldFields, MachineFields, PortFields
<1>3. Keeps(s, v)
  BY <1>1
     DEF Keeps, Sound, SensorKept, SensorNeeded, SensorServed, LockHeld,
         WorldOK, MachineOK, PortsOK, SameIds,
         SameAllowances, WorldFields, MachineFields, PortFields
<1>4. Keeps(u, v)
  BY <1>2, <1>3
<1> HIDE DEF d, s, u
<1>5. Keeps(ScheduleNormalAlarm(u), u)
  BY <1>4, ScheduleNormalAlarmKeeps DEF Keeps
<1>6. HandleSetInactivityBehavior(v, action, supply, t) \in {v, u, ScheduleNormalAlarm(u)}
  BY DEF HandleSetInactivityBehavior, u, d, s, off, susp
<1>7. Keeps(v, v)
  BY DEF Keeps, SensorKept, SameIds, SameAllowances
<1> QED BY <1>4, <1>5, <1>6, <1>7 DEF Keeps, SensorKept, SameIds, SameAllowances

\* handle_set_lid_behavior takes only the actions it knows.
LEMMA HandleSetLidBehaviorKeeps ==
  ASSUME NEW v, Sound(v), NEW action, NEW supply \in Supplies
  PROVE  Keeps(HandleSetLidBehavior(v, action, supply), v)
<1> DEFINE a == [v.lidAction EXCEPT ![supply] = action]
<1>1. CASE action \in LidActions
  <2>1. a \in [Supplies -> LidActions]
    BY <1>1 DEF Sound, WorldOK, MachineOK
  <2>2. HandleSetLidBehavior(v, action, supply) = [v EXCEPT !.lidAction = a]
    BY <1>1 DEF HandleSetLidBehavior
  <2> HIDE DEF a
  <2> QED BY <2>1, <2>2
     DEF Keeps, Sound, SensorKept, SensorNeeded, SensorServed, LockHeld,
         WorldOK, MachineOK, PortsOK, SameIds,
         SameAllowances, WorldFields, MachineFields, PortFields
<1>2. CASE action \notin LidActions
  BY <1>2 DEF HandleSetLidBehavior, Keeps, SensorKept, SameIds, SameAllowances
<1> QED BY <1>1, <1>2

\* handle_set_critical_power_behavior takes only the actions it knows.
LEMMA HandleSetCriticalPowerBehaviorKeeps ==
  ASSUME NEW v, Sound(v), NEW action
  PROVE  Keeps(HandleSetCriticalPowerBehavior(v, action), v)
BY DEF HandleSetCriticalPowerBehavior, Keeps, Sound, SensorKept, SensorNeeded, SensorServed, LockHeld,
       WorldOK,
       MachineOK, PortsOK, SameIds, SameAllowances, WorldFields, MachineFields, PortFields

\* handle_set_normal_brightness_value.
LEMMA HandleSetNormalBrightnessValueKeeps ==
  ASSUME NEW v, Sound(v), NEW value \in BrightnessValues
  PROVE  Keeps(HandleSetNormalBrightnessValue(v, value), v)
BY DEF HandleSetNormalBrightnessValue, Keeps, Sound, SensorKept, SensorNeeded, SensorServed, LockHeld,
       WorldOK,
       MachineOK, PortsOK, SameIds, SameAllowances, WorldFields, MachineFields, PortFields

\* handle_enable_autobrightness.
LEMMA HandleEnableAutobrightnessKeeps ==
  ASSUME NEW v, Sound(v)
  PROVE  Keeps(HandleEnableAutobrightness(v), v)
<1> DEFINE active == v.abActive \/ ~v.paused
<1>1. active \in BOOLEAN
  OBVIOUS
<1>2. HandleEnableAutobrightness(v) = [v EXCEPT !.autobrightness = TRUE, !.abActive = active]
  BY DEF HandleEnableAutobrightness
<1> HIDE DEF active
<1> QED BY <1>1, <1>2
   DEF Keeps, Sound, SensorKept, SensorNeeded, SensorServed, LockHeld,
       WorldOK, MachineOK, PortsOK, SameIds,
       SameAllowances, WorldFields, MachineFields, PortFields

\* handle_disable_autobrightness.
LEMMA HandleDisableAutobrightnessKeeps ==
  ASSUME NEW v, Sound(v)
  PROVE  Keeps(HandleDisableAutobrightness(v), v)
<1> DEFINE active == v.abActive /\ v.paused
<1>1. active \in BOOLEAN
  OBVIOUS
<1>2. HandleDisableAutobrightness(v) = [v EXCEPT !.autobrightness = FALSE, !.abActive = active]
  BY DEF HandleDisableAutobrightness
<1> HIDE DEF active
<1> QED BY <1>1, <1>2
   DEF Keeps, Sound, SensorKept, SensorNeeded, SensorServed, LockHeld,
       WorldOK, MachineOK, PortsOK, SameIds,
       SameAllowances, WorldFields, MachineFields, PortFields

\* handle_allow_suspend: suspend is allowed after it, by whatever way it
\* leaves.
LEMMA HandleAllowSuspendAllows ==
  ASSUME NEW v, Sound(v)
  PROVE  LET u == HandleAllowSuspend(v)
         IN /\ Sound(u) /\ SameIds(u, v)
            /\ SensorKept(u, v)
            /\ LockHeld(v) => LockHeld(u)
            /\ u.disallowedTimeouts = v.disallowedTimeouts
            /\ u.suspendAllowed
<1> DEFINE lock == /\ v.wakeLock
                   /\ v.mode = "on" \/ v.reason = "proximity"
           calls == IF v.paused THEN v.calls ELSE v.calls \cup {"suspend"}
           u == [v EXCEPT !.suspendAllowed = TRUE, !.wakeLock = lock]
           s == [u EXCEPT !.suspendPending = FALSE, !.calls = calls]
<1>1. lock \in BOOLEAN /\ calls \in SUBSET PortCalls
  BY DEF Sound, WorldOK, MachineOK, PortCalls
<1>2. LockHeld(v) => (lock <=> v.mode = "on" \/ v.reason = "proximity")
  BY DEF LockHeld
<1>3. HandleAllowSuspend(v) = IF u.suspendPending THEN s ELSE u
  BY DEF HandleAllowSuspend, SuspendWhenAllowed, Sound, WorldOK, WorldFields, MachineFields,
         PortFields
<1> HIDE DEF lock, calls
<1>4. /\ Sound(u) /\ SameIds(u, v)
      /\ SensorKept(u, v)
      /\ u.disallowedTimeouts = v.disallowedTimeouts
      /\ u.suspendAllowed
  BY <1>1
     DEF Sound, SensorKept, SensorNeeded, SensorServed, WorldOK, MachineOK, PortsOK, SameIds,
         WorldFields, MachineFields, PortFields
<1>5. /\ Sound(s) /\ SameIds(s, v)
      /\ SensorKept(s, v)
      /\ s.disallowedTimeouts = v.disallowedTimeouts
      /\ s.suspendAllowed
  BY <1>1
     DEF Sound, SensorKept, SensorNeeded, SensorServed, WorldOK, MachineOK, PortsOK, SameIds,
         WorldFields, MachineFields, PortFields
<1>6. LockHeld(v) => (u.suspendPending \/ LockHeld(u)) /\ LockHeld(s)
  BY <1>2 DEF LockHeld, Sound, WorldOK, WorldFields, MachineFields, PortFields
<1> HIDE DEF u, s
<1> QED BY <1>3, <1>4, <1>5, <1>6

\* handle_disallow_suspend: suspend is disallowed after it.
LEMMA HandleDisallowSuspendDisallows ==
  ASSUME NEW v, Sound(v)
  PROVE  LET u == HandleDisallowSuspend(v)
         IN /\ Sound(u) /\ SameIds(u, v)
            /\ SensorKept(u, v)
            /\ LockHeld(v) => LockHeld(u)
            /\ u.disallowedTimeouts = v.disallowedTimeouts
            /\ ~u.suspendAllowed
BY DEF HandleDisallowSuspend, Keeps, Sound, SensorKept, SensorNeeded, SensorServed, LockHeld,
       WorldOK, MachineOK,
       PortsOK, SameIds, SameAllowances, WorldFields, MachineFields, PortFields

\* handle_notification adds the notification's allowance, wherever it finds the
\* display.
LEMMA HandleNotificationHolds ==
  ASSUME NEW v, Sound(v)
  PROVE  Holds(HandleNotification(v), v, "notification")
<1> DEFINE u == DisallowTimeout(v, "notification")
           e == "until_far_event_or_notification_expiration"
           d == IF u.mode = "on" THEN BrightenDisplay(u)
                ELSE IF ~u.near THEN TurnOnDisplayWithoutTimeout(u, "notification")
                ELSE EnableProximity(u, e)
<1>1. Holds(u, v, "notification")
  BY DisallowTimeoutHolds DEF Allowances
<1>2. Sound(u)
  BY <1>1 DEF Holds
<1> HIDE DEF u
<1>3. Keeps(BrightenDisplay(u), u)
  BY <1>2, BrightenDisplayKeeps
<1>4. Keeps(TurnOnDisplayWithoutTimeout(u, "notification"), u)
  BY <1>2, TurnOnDisplayWithoutTimeoutKeeps DEF Reasons
<1>5. Keeps(EnableProximity(u, e), u)
  BY <1>2, EnableProximityKeeps DEF Enablements
<1>6. Keeps(d, u)
  BY <1>3, <1>4, <1>5
<1> HIDE DEF d
<1>7. Keeps(ScheduleNotificationExpirationAlarm(d), d)
  BY <1>6, ScheduleNotificationExpirationAlarmKeeps DEF Keeps
<1> QED BY <1>1, <1>6, <1>7 DEF HandleNotification, Holds, Keeps, SensorKept, SameIds, SameAllowances, d, u

\* handle_no_notification takes the notification's allowance back.
LEMMA HandleNoNotificationLifts ==
  ASSUME NEW v, Sound(v)
  PROVE  Lifts(HandleNoNotification(v), v, "notification")
<1> DEFINE p == IF v.mode = "on" THEN SchedulePostNotificationAlarm(v) ELSE v
           a == AllowTimeout(p, "notification")
           d == DisableProximity(a, "until_far_event_or_notification_expiration")
<1>1. Keeps(p, v)
  BY SchedulePostNotificationAlarmKeeps DEF Keeps, SensorKept, SameIds, SameAllowances
<1> HIDE DEF p
<1>2. Lifts(a, p, "notification")
  BY <1>1, AllowTimeoutLifts DEF Keeps, Allowances
<1> HIDE DEF a
<1>3. Keeps(d, a)
  BY <1>2, DisableProximityKeeps DEF Lifts, Enablements
<1> HIDE DEF d
<1>4. Keeps(CancelNotificationExpirationAlarm(d), d)
  BY <1>3, CancelNotificationExpirationAlarmKeeps DEF Keeps
<1> QED BY <1>1, <1>2, <1>3, <1>4
        DEF HandleNoNotification, Lifts, Keeps, SensorKept, SameIds, SameAllowances, p, a, d

\* What a user activity does to a display that is on.
LEMMA ActivityWhileOnKeeps ==
  ASSUME NEW v, Sound(v), v.mode = "on", NEW reason \in Reasons
  PROVE  Keeps(ActivityWhileOn(v, reason), v)
<1> DEFINE b == BrightenDisplay(v)
           n == ScheduleNormalAlarm(b)
<1>1. Keeps(b, v)
  BY BrightenDisplayKeeps
<1>2. Keeps(n, b)
  BY <1>1, ScheduleNormalAlarmKeeps DEF Keeps
<1>3. Sound(n)
  BY <1>2 DEF Keeps
<1>4. n.mode = "on"
  <2>1. b.mode = "on"
    BY DEF BrightenDisplay, Sound, WorldOK, WorldFields, MachineFields
  <2> HIDE DEF b
  <2>2. ScheduleNormalDisplayOffAlarm(b).mode = "on"
    BY <1>1, <2>1
       DEF ScheduleNormalDisplayOffAlarm, CancelDisplayOffAlarm, Keeps, Sound, WorldOK,
           WorldFields, MachineFields
  <2> QED BY <2>2, <1>1, ScheduleNormalDisplayOffAlarmKeeps
          DEF ScheduleNormalAlarm, ScheduleNormalSuspendAlarm, Keeps, Sound, WorldOK,
              WorldFields, MachineFields
<1> HIDE DEF b, n
<1>5. Keeps([n EXCEPT !.reason = reason], n)
  BY <1>3, <1>4
     DEF Keeps, Sound, SensorKept, SensorNeeded, SensorServed, LockHeld,
         WorldOK, MachineOK, PortsOK, SameIds,
         SameAllowances, WorldFields, MachineFields, PortFields
<1> QED BY <1>1, <1>2, <1>5 DEF ActivityWhileOn, Keeps, SensorKept, SameIds, SameAllowances, n, b

\* handle_power_button_press.
LEMMA HandlePowerButtonPressKeeps ==
  ASSUME NEW v, Sound(v)
  PROVE  Keeps(HandlePowerButtonPress(v), v)
<1> DEFINE u == [v EXCEPT !.modeAtPress = v.mode]
           d == IF u.mode = "off" THEN TurnOnDisplayWithNormalTimeout(u, "power_button")
                ELSE IF TreatPowerButtonAsUserActivity THEN ActivityWhileOn(u, "power_button")
                ELSE u
<1>1. Keeps(u, v)
  BY DEF Keeps, Sound, SensorKept, SensorNeeded, SensorServed, LockHeld,
         WorldOK, MachineOK, PortsOK, SameIds,
         SameAllowances, WorldFields, MachineFields, PortFields
<1>2. Sound(u)
  BY <1>1 DEF Keeps
<1> HIDE DEF u
<1>3. Keeps(TurnOnDisplayWithNormalTimeout(u, "power_button"), u)
  BY <1>2, TurnOnDisplayWithNormalTimeoutKeeps DEF Reasons
<1>4. u.mode = "on" => Keeps(ActivityWhileOn(u, "power_button"), u)
  BY <1>2, ActivityWhileOnKeeps DEF Reasons
<1>5. u.mode \in DisplayModes
  BY <1>2 DEF Sound, WorldOK, MachineOK
<1>6. Keeps(d, v)
  BY <1>1, <1>3, <1>4, <1>5 DEF DisplayModes, Keeps, SensorKept, SameIds, SameAllowances
<1> HIDE DEF d
<1>7. Delay(LongPressTimeout) \in Ticks
  BY OptionsAssumption, DelayRangeLemma
<1>8. HandlePowerButtonPress(v) = [d EXCEPT !.longPressAlarm = Delay(LongPressTimeout)]
  BY DEF HandlePowerButtonPress, d, u
<1> QED BY <1>6, <1>7, <1>8
   DEF Keeps, Sound, SensorKept, SensorNeeded, SensorServed, LockHeld,
       WorldOK, MachineOK, PortsOK, SameIds,
       SameAllowances, WorldFields, MachineFields, PortFields

\* handle_power_button_release, after a short press or a long one.
LEMMA HandlePowerButtonReleaseKeeps ==
  ASSUME NEW v, Sound(v)
  PROVE  Keeps(HandlePowerButtonRelease(v), v)
<1> DEFINE short == /\ ~v.longPressDetected
                    /\ v.modeAtPress = "on"
                    /\ ~TreatPowerButtonAsUserActivity
           d == IF short THEN TurnOffDisplay(v, "power_button") ELSE v
<1>1. Keeps(TurnOffDisplay(v, "power_button"), v)
  BY TurnOffDisplayKeeps DEF Reasons
<1>2. Keeps(d, v)
  BY <1>1 DEF Keeps, SensorKept, SameIds, SameAllowances
<1> HIDE DEF d
<1>3. HandlePowerButtonRelease(v)
        = [d EXCEPT !.longPressDetected = FALSE, !.modeAtPress = "unknown",
                    !.longPressAlarm = NoAlarm]
  BY DEF HandlePowerButtonRelease, d
<1> QED BY <1>2, <1>3, OptionsAssumption
   DEF Ticks, Keeps, Sound, SensorKept, SensorNeeded, SensorServed, LockHeld, WorldOK, MachineOK, PortsOK,
       SameIds, SameAllowances, WorldFields, MachineFields, PortFields

\* handle_user_activity_changing_power_state.
LEMMA HandleUserActivityChangingKeeps ==
  ASSUME NEW v, Sound(v)
  PROVE  Keeps(HandleUserActivityChanging(v), v)
<1>1. v.mode = "on" => Keeps(ActivityWhileOn(v, "activity"), v)
  BY ActivityWhileOnKeeps DEF Reasons
<1>2. Keeps(TurnOnDisplayWithNormalTimeout(v, "activity"), v)
  BY TurnOnDisplayWithNormalTimeoutKeeps DEF Reasons
<1> QED BY <1>1, <1>2 DEF HandleUserActivityChanging, Keeps, SensorKept, SameIds, SameAllowances

\* handle_user_activity_extending_power_state.
LEMMA HandleUserActivityExtendingKeeps ==
  ASSUME NEW v, Sound(v)
  PROVE  Keeps(HandleUserActivityExtending(v), v)
<1>1. v.mode = "on" => Keeps(ActivityWhileOn(v, "activity"), v)
  BY ActivityWhileOnKeeps DEF Reasons
<1> QED BY <1>1 DEF HandleUserActivityExtending, Keeps, SensorKept, SameIds, SameAllowances

\* handle_lid_closed, with external displays and without.
LEMMA HandleLidClosedKeeps ==
  ASSUME NEW v, Sound(v)
  PROVE  Keeps(HandleLidClosed(v), v)
<1> DEFINE u == [v EXCEPT !.lidClosed = TRUE]
           off == IF u.mode = "on" THEN TurnOffDisplay(u, "unknown") ELSE u
           p == [u EXCEPT !.internalPanel = "off"]
           s == [off EXCEPT !.calls = off.calls \cup {"suspend"}]
<1>1. Keeps(u, v)
  BY DEF Keeps, Sound, SensorKept, SensorNeeded, SensorServed, LockHeld,
         WorldOK, MachineOK, PortsOK, SameIds,
         SameAllowances, WorldFields, MachineFields, PortFields
<1>2. Sound(u)
  BY <1>1 DEF Keeps
<1> HIDE DEF u
<1>3. Keeps(TurnOffDisplay(u, "unknown"), u)
  BY <1>2, TurnOffDisplayKeeps DEF Reasons
<1>4. Keeps(off, v)
  BY <1>1, <1>3 DEF Keeps, SensorKept, SameIds, SameAllowances
<1> HIDE DEF off
<1>5. Keeps(p, v)
  BY <1>1
     DEF DisplayModes, Keeps, Sound, SensorKept, SensorNeeded, SensorServed, LockHeld, WorldOK, MachineOK,
         PortsOK, SameIds, SameAllowances, WorldFields, MachineFields, PortFields
<1>6. Keeps(s, v)
  BY <1>4
     DEF PortCalls, Keeps, Sound, SensorKept, SensorNeeded, SensorServed, LockHeld,
         WorldOK, MachineOK, PortsOK,
         SameIds, SameAllowances, WorldFields, MachineFields, PortFields
<1>7. HandleLidClosed(v) \in {p, s, off}
  BY DEF HandleLidClosed, p, s, off, u
<1> HIDE DEF p, s
<1> QED BY <1>4, <1>5, <1>6, <1>7

\* handle_lid_open.
LEMMA HandleLidOpenKeeps ==
  ASSUME NEW v, Sound(v)
  PROVE  Keeps(HandleLidOpen(v), v)
<1> DEFINE u == [v EXCEPT !.lidClosed = FALSE]
           p == [u EXCEPT !.internalPanel = "on"]
<1>1. Keeps(u, v)
  BY DEF Keeps, Sound, SensorKept, SensorNeeded, SensorServed, LockHeld,
         WorldOK, MachineOK, PortsOK, SameIds,
         SameAllowances, WorldFields, MachineFields, PortFields
<1>2. Sound(u)
  BY <1>1 DEF Keeps
<1> HIDE DEF u
<1>3. Keeps(p, u)
  BY <1>2
     DEF DisplayModes, Keeps, Sound, SensorKept, SensorNeeded, SensorServed, LockHeld, WorldOK, MachineOK,
         PortsOK, SameIds, SameAllowances, WorldFields, MachineFields, PortFields
<1>4. Sound(p)
  BY <1>3 DEF Keeps
<1>5. p.mode = u.mode
  BY <1>2 DEF Sound, WorldOK, WorldFields, MachineFields, PortFields
<1> HIDE DEF p
<1>6. p.mode = "on" => Keeps(ActivityWhileOn(p, "activity"), p)
  BY <1>4, ActivityWhileOnKeeps DEF Reasons
<1>7. Keeps(TurnOnDisplayWithNormalTimeout(u, "activity"), u)
  BY <1>2, TurnOnDisplayWithNormalTimeoutKeeps DEF Reasons
<1> QED BY <1>1, <1>3, <1>6, <1>7, <1>5 DEF HandleLidOpen, Keeps, SensorKept, SameIds, SameAllowances, p, u

\* handle_power_source_change.
LEMMA HandlePowerSourceChangeKeeps ==
  ASSUME NEW v, Sound(v)
  PROVE  Keeps(HandlePowerSourceChange(v), v)
<1> DEFINE u == [v EXCEPT !.supply = v.powerSupply]
           d == IF u.mode = "on" THEN ActivityWhileOn(u, "activity")
                ELSE IF u.near THEN u
                ELSE TurnOnDisplayWithReducedTimeout(u, "notification")
<1>1. Keeps(u, v)
  BY DEF Keeps, Sound, SensorKept, SensorNeeded, SensorServed, LockHeld,
         WorldOK, MachineOK, PortsOK, SameIds,
         SameAllowances, WorldFields, MachineFields, PortFields
<1>2. Sound(u)
  BY <1>1 DEF Keeps
<1> HIDE DEF u
<1>3. u.mode = "on" => Keeps(ActivityWhileOn(u, "activity"), u)
  BY <1>2, ActivityWhileOnKeeps DEF Reasons
<1>4. Keeps(TurnOnDisplayWithReducedTimeout(u, "notification"), u)
  BY <1>2, TurnOnDisplayWithReducedTimeoutKeeps DEF Reasons
<1>5. Keeps(d, v)
  BY <1>1, <1>3, <1>4 DEF Keeps, SensorKept, SameIds, SameAllowances
<1> HIDE DEF d
<1>6. Keeps(ScheduleNormalSuspendAlarm(d), d)
  BY <1>5, ScheduleNormalSuspendAlarmKeeps DEF Keeps
<1> QED BY <1>5, <1>6 DEF HandlePowerSourceChange, Keeps, SensorKept, SameIds, SameAllowances, d, u

\* handle_power_source_critical.
LEMMA HandlePowerSourceCriticalKeeps ==
  ASSUME NEW v, Sound(v)
  PROVE  Keeps(HandlePowerSourceCritical(v), v)
<1> DEFINE calls == v.calls \cup {v.criticalAction}
<1>1. calls \in SUBSET PortCalls
  BY DEF Sound, WorldOK, MachineOK, PortCalls, CriticalActions
<1>2. HandlePowerSourceCritical(v) = [v EXCEPT !.calls = calls]
  BY DEF HandlePowerSourceCritical
<1> HIDE DEF calls
<1> QED BY <1>1, <1>2
   DEF Keeps, Sound, SensorKept, SensorNeeded, SensorServed, LockHeld,
       WorldOK, MachineOK, PortsOK, SameIds,
       SameAllowances, WorldFields, MachineFields, PortFields

\* handle_proximity_far drops both of its enablements, the sensor going off
\* with the last.
LEMMA HandleProximityFarKeeps ==
  ASSUME NEW v, Sound(v)
  PROVE  Keeps(HandleProximityFar(v), v)
<1> DEFINE n == DisableProximity(v, "until_far_event_or_notification_expiration")
           u == DisableProximity(n, "until_far_event_or_timeout")
<1>1. Keeps(n, v)
  BY DisableProximityKeeps DEF Enablements
<1> HIDE DEF n
<1>2. Keeps(u, n)
  BY <1>1, DisableProximityKeeps DEF Keeps, Enablements
<1>3. Sound(u)
  BY <1>2 DEF Keeps
<1> HIDE DEF u
<1>4. Keeps(TurnOnDisplayWithReducedTimeout(u, "proximity"), u)
  BY <1>3, TurnOnDisplayWithReducedTimeoutKeeps DEF Reasons
<1>5. Keeps(TurnOnDisplayWithNormalTimeout(u, "proximity"), u)
  BY <1>3, TurnOnDisplayWithNormalTimeoutKeeps DEF Reasons
<1> QED BY <1>1, <1>2, <1>4, <1>5 DEF HandleProximityFar, Keeps, SensorKept, SameIds, SameAllowances, n, u

\* handle_proximity_near.
LEMMA HandleProximityNearKeeps ==
  ASSUME NEW v, Sound(v)
  PROVE  Keeps(HandleProximityNear(v), v)
<1>1. v.mode = "on" => Keeps(TurnOffDisplay(v, "proximity"), v)
  BY TurnOffDisplayKeeps DEF Reasons
<1> QED BY <1>1 DEF HandleProximityNear, Keeps, SensorKept, SameIds, SameAllowances

\* start.
LEMMA StartMachineKeeps ==
  ASSUME NEW v, Sound(v)
  PROVE  Keeps(StartMachine(v), v)
<1> DEFINE u == [v EXCEPT !.supply = v.powerSupply, !.defaultHandlers = FALSE]
<1>1. Keeps(u, v)
  BY DEF Keeps, Sound, SensorKept, SensorNeeded, SensorServed, LockHeld,
         WorldOK, MachineOK, PortsOK, SameIds,
         SameAllowances, WorldFields, MachineFields, PortFields
<1>2. Sound(u)
  BY <1>1 DEF Keeps
<1> HIDE DEF u
<1>3. Keeps(TurnOnDisplayWithNormalTimeout(u, "unknown"), u)
  BY <1>2, TurnOnDisplayWithNormalTimeoutKeeps DEF Reasons
<1> QED BY <1>1, <1>3 DEF StartMachine, Keeps, SensorKept, SameIds, SameAllowances, u

\* pause switches the sensor's events off and keeps the enablements.
LEMMA PauseMachineKeeps ==
  ASSUME NEW v, Sound(v)
  PROVE  Keeps(PauseMachine(v), v)
BY OptionsAssumption
   DEF PauseMachine, Ticks, Keeps, Sound, SensorKept, SensorNeeded, SensorServed, LockHeld,
       WorldOK, MachineOK,
       PortsOK, SameIds, SameAllowances, WorldFields, MachineFields, PortFields

\* resume restores the sensor: whatever was enabled before or during the pause
\* is served when the session runs again.
LEMMA ResumeMachineKeeps ==
  ASSUME NEW v, Sound(v)
  PROVE  Keeps(ResumeMachine(v), v) /\ SensorServed(ResumeMachine(v))
<1> DEFINE u == [v EXCEPT !.paused = FALSE, !.defaultHandlers = FALSE,
                          !.abActive = v.autobrightness,
                          !.backlightValue = v.brightnessValue]
           t == TurnOnDisplayWithNormalTimeout(u, "unknown")
           on == t.proximityEvents \/ t.proximityEnablements # {}
<1>1. /\ Sound(u) /\ SameIds(u, v) /\ SameAllowances(u, v)
      /\ SensorNeeded(v) => SensorNeeded(u)
      /\ LockHeld(v) => LockHeld(u)
  BY DEF Keeps, Sound, SensorKept, SensorNeeded, SensorServed, LockHeld,
         WorldOK, MachineOK, PortsOK, SameIds,
         SameAllowances, WorldFields, MachineFields, PortFields
<1> HIDE DEF u
<1>2. Keeps(t, u)
  BY <1>1, TurnOnDisplayWithNormalTimeoutKeeps DEF Reasons
<1>3. Sound(t)
  BY <1>2 DEF Keeps
<1> HIDE DEF t
<1>4. on \in BOOLEAN /\ (t.proximityEnablements # {} => on)
  OBVIOUS
<1>5. SensorNeeded(t) => (on => t.proximityEnablements # {})
  BY DEF SensorNeeded
<1>6. ResumeMachine(v) = [t EXCEPT !.proximityEvents = on]
  BY DEF ResumeMachine, t, u
<1> HIDE DEF on
<1> QED BY <1>1, <1>2, <1>4, <1>5, <1>6
   DEF Keeps, Sound, SensorKept, SensorNeeded, SensorServed, LockHeld,
       WorldOK, MachineOK, PortsOK, SameIds,
       SameAllowances, WorldFields, MachineFields, PortFields

-----------------------------------------------------------------------------
(* The display, its timer and the notifications.  The lemmas above say what *)
(* a handler leaves sound; those below what it leaves in order: a timer     *)
(* that agrees with itself (Timing), panels and a backlight that follow the *)
(* mode (Lighting), expiration alarms for what a notification or a call     *)
(* leaves behind (Expires).  They also say what it may not do at all: touch *)
(* the display of a paused session, or suspend while a client objects       *)
(* (Discreet).                                                              *)

\* A timeout that an alarm can be scheduled for, or the infinite one.
Fits(t) == t < DelayRange \/ t = Infinite

\* The display-off alarm, the time point, the dim alarm and the type belong
\* together: the alarm never comes before the time point, the dim alarm never
\* after it.
Timing(v) ==
  /\ \A s \in Supplies : Fits(v.offTimeout[s])
  /\ v.timeoutType # "none" =>
       \/ v.offAlarm # NoAlarm
       \/ v.timeoutType = "normal" /\ v.offTime = Infinite
  /\ v.timeoutType = "none" => v.offTime <= 0
  /\ v.offAlarm # NoAlarm => v.timeoutType # "none" /\ v.offTime <= v.offAlarm
  /\ v.dimAlarm # NoAlarm => /\ v.offAlarm # NoAlarm /\ v.timeoutType = "normal"
                             /\ v.dimAlarm <= v.offAlarm

\* Behind a lid that the machine knows to be closed the panel is dark.
Covered(v) == v.lidClosed => v.internalPanel = "off"

\* The panels, the backlight and the modem are where the mode says; a dark
\* display has no timer, one that is dim or that nobody keeps on has one.
Lighting(v) ==
  ~v.paused =>
    /\ v.mode = "off" =>
         /\ v.internalPanel = "off" /\ v.externalPanel = "off" /\ v.backlight = "off"
         /\ v.dimAlarm = NoAlarm /\ v.offAlarm = NoAlarm
         /\ v.timeoutType = "none" /\ v.offTime = Past
    /\ v.mode = "on" => v.externalPanel = "on" /\ v.modem = "normal"
    /\ v.mode = "on" /\ ~v.lidClosed => v.internalPanel = "on" /\ v.backlight # "off"
    /\ v.backlight = "dim" /\ ~v.lidClosed =>
         v.timeoutType # "none" /\ TimeoutApplicationAllowed(v)
    /\ v.mode = "on" /\ TimeoutAllowed(v) => v.timeoutType # "none"

\* What a notification and the end of a call leave behind has an alarm.
Expires(v) ==
  /\ "notification" \in v.disallowedTimeouts <=> v.notificationAlarm # NoAlarm
  /\ "until_far_event_or_notification_expiration" \in v.proximityEnablements
       => v.notificationAlarm # NoAlarm
  /\ "until_far_event_or_timeout" \in v.proximityEnablements => v.proximityAlarm # NoAlarm

\* A call holds the sensor on.
CallHolds(v) == "until_disabled" \in v.proximityEnablements

\* The system was suspended only with the clients' leave.
Willing(v) == "suspend" \in v.calls => v.suspendAllowed

\* What only an active session may call.
ActiveCalls == {"suspend", "power_off", "notify_display_on", "notify_display_off"}

SameDisplay(u, v) ==
  /\ u.mode = v.mode /\ u.reason = v.reason
  /\ u.internalPanel = v.internalPanel /\ u.externalPanel = v.externalPanel
  /\ u.backlight = v.backlight /\ u.modem = v.modem

SameTimer(u, v) ==
  /\ u.dimAlarm = v.dimAlarm /\ u.offAlarm = v.offAlarm
  /\ u.offTime = v.offTime /\ u.timeoutType = v.timeoutType

SameSensor(u, v) ==
  /\ u.notificationAlarm = v.notificationAlarm /\ u.proximityAlarm = v.proximityAlarm
  /\ u.proximityEnablements = v.proximityEnablements

\* What neither the display nor its timer is made of.
SameCourse(u, v) ==
  /\ u.paused = v.paused /\ u.defaultHandlers = v.defaultHandlers
  /\ u.lidClosed = v.lidClosed
  /\ u.offTimeout = v.offTimeout /\ SameAllowances(u, v)

\* A step that leaves timer and display in order.
Orders(u, v) ==
  /\ Timing(v) => Timing(u)
  /\ Timing(v) /\ Lighting(v) => Lighting(u)
  /\ Timing(v) /\ Lighting(v) /\ Covered(v) => Covered(u)

\* A step that leaves the session active or paused as it is, the display of a
\* paused one dark, and asks clients before it suspends.
Discreet(u, v) ==
  /\ Willing(v) => Willing(u)
  /\ u.paused = v.paused /\ u.defaultHandlers = v.defaultHandlers
  /\ v.paused => SameDisplay(u, v) /\ u.calls \cap ActiveCalls \subseteq v.calls

\* A step of which both hold and that has nothing to do with the sensor.
Tidy(u, v) == Orders(u, v) /\ Discreet(u, v) /\ SameSensor(u, v)

\* A handler that leaves everything in order, and begins no call.
Serves(u, v) ==
  /\ Orders(u, v) /\ Discreet(u, v)
  /\ Expires(v) => Expires(u)
  /\ CallHolds(u) => CallHolds(v)

\* Steps in a row.
LEMMA OrdersChains ==
  ASSUME NEW t, NEW u, NEW v, Orders(t, u), Orders(u, v)
  PROVE  Orders(t, v)
BY DEF Orders

\* The same of what may not be done at all.
LEMMA DiscreetChains ==
  ASSUME NEW t, NEW u, NEW v, Discreet(t, u), Discreet(u, v)
  PROVE  Discreet(t, v)
BY DEF Discreet, SameDisplay

\* The same of both, when the sensor is left alone.
LEMMA TidyChains ==
  ASSUME NEW t, NEW u, NEW v, Tidy(t, u), Tidy(u, v)
  PROVE  Tidy(t, v)
BY OrdersChains, DiscreetChains DEF Tidy, SameSensor

\* The same of two handlers, or of a handler and the step before it.
LEMMA ServesChains ==
  ASSUME NEW t, NEW u, NEW v, Serves(t, u), Serves(u, v)
  PROVE  Serves(t, v)
BY OrdersChains, DiscreetChains DEF Serves

\* A step that changes nothing of all this.
LEMMA NothingIsTidy ==
  ASSUME NEW v
  PROVE  Tidy(v, v) /\ Serves(v, v)
BY DEF Tidy, Serves, Orders, Discreet, SameDisplay, SameSensor

\* A step that display, timer and allowances do not notice keeps them in order,
\* whatever it does to the sensor.
LEMMA ElsewhereIsOrderly ==
  ASSUME NEW u, NEW v, SameDisplay(u, v), SameTimer(u, v), SameCourse(u, v), u.calls = v.calls
  PROVE  Orders(u, v) /\ Discreet(u, v)
<1>1. Orders(u, v)
  BY DEF SameDisplay, SameTimer, SameCourse, SameAllowances, Orders, Timing, Lighting,
         TimeoutAllowed, TimeoutApplicationAllowed, Covered
<1>2. Discreet(u, v)
  BY DEF SameCourse, SameAllowances, Discreet, Willing
<1> QED BY <1>1, <1>2

\* A step that keeps the allowances and does not touch the sensor serves.
LEMMA TidyServes ==
  ASSUME NEW u, NEW v, Tidy(u, v), Keeps(u, v)
  PROVE  Serves(u, v)
BY DEF Tidy, Serves, Keeps, SameAllowances, SameSensor, Expires, CallHolds

\* A delay that fits is not wrapped; one for the past comes after it.
LEMMA DelayFits ==
  ASSUME NEW t \in Int, t < DelayRange
  PROVE  /\ t >= 0 => Delay(t) = t
         /\ Delay(t) \in 0 .. DelayRange - 1
BY OptionsAssumption DEF Delay

\* schedule_normal_user_inactivity_alarm: whatever was scheduled, the type is
\* normal and the timer in order.
LEMMA ScheduleNormalAlarmDoes ==
  ASSUME NEW v, Sound(v)
  PROVE  LET u == ScheduleNormalAlarm(v)
         IN /\ SameDisplay(u, v) /\ SameSensor(u, v) /\ SameCourse(u, v)
            /\ u.calls = v.calls
            /\ u.timeoutType = "normal"
            /\ Timing(v) => Timing(u)
<1> DEFINE t == v.offTimeout[v.supply]
           c == CancelDisplayOffAlarm(v)
           dim == IF t > DimDuration THEN Delay(t - DimDuration) ELSE NoAlarm
           d == ScheduleNormalDisplayOffAlarm(v)
           u == ScheduleNormalAlarm(v)
<1>1. t \in Int /\ t <= Infinite /\ v.supply \in Supplies
  BY DEF Sound, WorldOK, MachineOK, TimeoutRange
<1>2. /\ SameDisplay(c, v) /\ SameSensor(c, v) /\ SameCourse(c, v)
      /\ c.calls = v.calls /\ DOMAIN c = WorldFields
      /\ c.dimAlarm = NoAlarm /\ c.offAlarm = NoAlarm
  BY DEF CancelDisplayOffAlarm, Sound, WorldOK, WorldFields,
         MachineFields, PortFields, SameDisplay, SameSensor, SameCourse, SameAllowances
<1>3. d = IF t = Infinite
          THEN [c EXCEPT !.timeoutType = "normal", !.offTime = Infinite]
          ELSE [c EXCEPT !.timeoutType = "normal", !.offTime = TimePoint(t),
                         !.dimAlarm = dim, !.offAlarm = Delay(t)]
  BY DEF ScheduleNormalDisplayOffAlarm
<1>4. u = ScheduleNormalSuspendAlarm(d)
  BY DEF ScheduleNormalAlarm
<1> HIDE DEF u, d, c, dim
<1>5. /\ SameDisplay(d, v) /\ SameSensor(d, v) /\ SameCourse(d, v)
      /\ d.calls = v.calls /\ d.timeoutType = "normal"
      /\ DOMAIN d = WorldFields
  BY <1>2, <1>3 DEF WorldFields, MachineFields, PortFields, SameDisplay, SameSensor,
                    SameCourse, SameAllowances
<1>6. /\ t = Infinite => d.offTime = Infinite /\ d.offAlarm = NoAlarm /\ d.dimAlarm = NoAlarm
      /\ t # Infinite => /\ d.offTime = TimePoint(t) /\ d.offAlarm = Delay(t)
                         /\ d.dimAlarm = dim
  BY <1>2, <1>3 DEF WorldFields, MachineFields
<1>7. /\ SameDisplay(u, d) /\ SameSensor(u, d) /\ SameCourse(u, d) /\ SameTimer(u, d)
      /\ u.calls = d.calls
  BY <1>4, <1>5 DEF ScheduleNormalSuspendAlarm, WorldFields, MachineFields,
              PortFields, SameDisplay, SameSensor, SameCourse, SameTimer, SameAllowances
<1>8. ASSUME Timing(v) PROVE Timing(u)
  <2>1. Fits(t) /\ \A s \in Supplies : Fits(u.offTimeout[s])
    BY <1>1, <1>5, <1>7, <1>8 DEF Timing, SameCourse
  <2> HIDE DEF t
  <2>2. CASE t = Infinite
    BY <1>5, <1>6, <1>7, <2>1, <2>2 DEF Timing, SameTimer
  <2>3. CASE t # Infinite
    <3>1. /\ t < DelayRange /\ DelayRange \in Nat /\ DimDuration \in Nat
          /\ Delay(t) \in 0 .. DelayRange - 1 /\ (t >= 0 => Delay(t) = t)
      BY <2>1, <2>3, <1>1, DelayFits, OptionsAssumption DEF Fits
    <3>2. t > DimDuration => Delay(t - DimDuration) = t - DimDuration
      BY <1>1, <3>1, DelayFits
    <3> DEFINE k == Delay(t)
               p == TimePoint(t)
    <3>3. k \in Int /\ k >= 0 /\ (t >= 0 => k = t)
      <4>1. k \in 0 .. DelayRange - 1 /\ DelayRange \in Nat
        BY <3>1
      <4>2. t >= 0 => k = t
        BY <3>1
      <4> HIDE DEF k
      <4>3. k \in Int /\ k >= 0
        BY <4>1
      <4> QED BY <4>2, <4>3
    <3>4. (t < 0 => p = -1) /\ (t >= 0 => p = t)
      BY <1>1 DEF TimePoint
    <3> HIDE DEF k, p
    <3>5. p \in Int /\ p <= k
      BY <1>1, <3>3, <3>4
    <3>6. u.offTime = p /\ u.offAlarm = k /\ u.timeoutType = "normal" /\ u.dimAlarm = dim
      BY <1>5, <1>6, <1>7, <2>3 DEF SameTimer, k, p
    <3>7. dim # NoAlarm => dim <= k
      <4>1. t > DimDuration => dim = t - DimDuration
        BY <3>2 DEF dim
      <4>2. t > DimDuration => t - DimDuration <= k
        BY <1>1, <3>1, <3>3
      <4> QED BY <4>1, <4>2 DEF dim
    <3>8. /\ u.offTime <= u.offAlarm /\ u.offAlarm # NoAlarm
          /\ u.timeoutType = "normal"
          /\ u.dimAlarm # NoAlarm => u.dimAlarm <= u.offAlarm
      BY <3>3, <3>5, <3>6, <3>7
    <3> QED BY <2>1, <3>8 DEF Timing
  <2> QED BY <2>2, <2>3
<1>9. /\ SameDisplay(u, v) /\ SameSensor(u, v) /\ SameCourse(u, v)
      /\ u.calls = v.calls /\ u.timeoutType = "normal"
  BY <1>5, <1>7 DEF SameDisplay, SameSensor, SameCourse, SameAllowances, SameTimer
<1> QED BY <1>8, <1>9 DEF u

\* The post-notification, reduced and immediate alarms replace the timer only
\* to extend the time to display off.
LEMMA ExtendDisplayOffAlarmDoes ==
  ASSUME NEW v, Sound(v), NEW t \in 0 .. DelayRange - 1,
         NEW type \in {"post_notification", "reduced"}
  PROVE  LET u == ExtendDisplayOffAlarm(v, t, type)
         IN /\ SameDisplay(u, v) /\ SameSensor(u, v) /\ SameCourse(u, v)
            /\ u.calls = v.calls
            /\ t > v.offTime => /\ u.dimAlarm = NoAlarm /\ u.offAlarm = t
                                /\ u.offTime = t /\ u.timeoutType = type
            /\ ~(t > v.offTime) => u = v
            /\ Timing(v) => Timing(u)
<1> DEFINE c == CancelDisplayOffAlarm(v)
           u == ExtendDisplayOffAlarm(v, t, type)
<1>1. CASE t > v.offTime
  <2>1. /\ SameDisplay(c, v) /\ SameSensor(c, v) /\ SameCourse(c, v)
        /\ c.calls = v.calls /\ DOMAIN c = WorldFields /\ c.dimAlarm = NoAlarm
    BY DEF CancelDisplayOffAlarm, Sound, WorldOK, WorldFields,
           MachineFields, PortFields, SameDisplay, SameSensor, SameCourse, SameAllowances
  <2>2. u = [c EXCEPT !.offAlarm = t, !.offTime = t, !.timeoutType = type]
    <3>1. t \in Int /\ t < DelayRange /\ t >= 0
      BY OptionsAssumption
    <3>2. Delay(t) = t
      BY <3>1, DelayFits
    <3> QED BY <1>1, <3>2 DEF ExtendDisplayOffAlarm
  <2> HIDE DEF u, c
  <2>3. /\ SameDisplay(u, v) /\ SameSensor(u, v) /\ SameCourse(u, v)
        /\ u.calls = v.calls
        /\ u.dimAlarm = NoAlarm /\ u.offAlarm = t /\ u.offTime = t /\ u.timeoutType = type
    BY <2>1, <2>2 DEF WorldFields, MachineFields, PortFields, SameDisplay, SameSensor,
                      SameCourse, SameAllowances
  <2>4. t \in Int /\ t >= 0
    BY OptionsAssumption
  <2>5. Timing(v) => Timing(u)
    BY <2>3, <2>4 DEF Timing, SameCourse
  <2> QED BY <1>1, <2>3, <2>5 DEF u
<1>2. CASE ~(t > v.offTime)
  BY <1>2 DEF ExtendDisplayOffAlarm, SameDisplay, SameSensor, SameCourse, SameAllowances
<1> QED BY <1>1, <1>2

\* brighten_display lights the backlight of an active session.
LEMMA BrightenDisplayDoes ==
  ASSUME NEW v, Sound(v)
  PROVE  LET u == BrightenDisplay(v)
         IN /\ SameTimer(u, v) /\ SameSensor(u, v) /\ SameCourse(u, v)
            /\ u.calls = v.calls
            /\ v.paused => u = v
            /\ ~v.paused => u.backlight = "normal"
            /\ u.mode = v.mode /\ u.reason = v.reason /\ u.modem = v.modem
            /\ u.internalPanel = v.internalPanel /\ u.externalPanel = v.externalPanel
BY DEF BrightenDisplay, Sound, WorldOK, WorldFields, MachineFields, PortFields, SameTimer,
       SameSensor, SameCourse, SameAllowances

\* turn_off_display darkens everything and cancels the timer.
LEMMA TurnOffDisplayDoes ==
  ASSUME NEW v, Sound(v), NEW reason
  PROVE  LET u == TurnOffDisplay(v, reason)
         IN /\ SameSensor(u, v) /\ SameCourse(u, v)
            /\ v.paused => u = v
            /\ ~v.paused => /\ u.mode = "off" /\ u.backlight = "off"
                            /\ u.internalPanel = "off" /\ u.externalPanel = "off"
                            /\ u.dimAlarm = NoAlarm /\ u.offAlarm = NoAlarm
                            /\ u.offTime = Past /\ u.timeoutType = "none"
            /\ u.calls \subseteq v.calls \cup {"notify_display_off"}
<1> DEFINE modem == IF reason = "proximity" THEN v.modem ELSE "low_power"
           lock == /\ v.wakeLock
                   /\ reason = "proximity" \/ ~v.suspendAllowed
           calls == v.calls \cup {"notify_display_off"}
           d == [v EXCEPT !.backlight = "off",
                   !.internalPanel = "off", !.externalPanel = "off",
                   !.modem = modem, !.mode = "off", !.reason = reason,
                   !.calls = calls, !.interactive = FALSE, !.wakeLock = lock]
           u == TurnOffDisplay(v, reason)
<1>1. CASE v.paused
  BY <1>1 DEF TurnOffDisplay, SameSensor, SameCourse, SameAllowances
<1>2. CASE ~v.paused
  <2>1. u = CancelDisplayOffAlarm(d)
    BY <1>2 DEF TurnOffDisplay
  <2> HIDE DEF u, modem, lock, calls
  <2>2. /\ SameSensor(d, v) /\ SameCourse(d, v) /\ d.calls = calls /\ DOMAIN d = WorldFields
        /\ d.mode = "off" /\ d.backlight = "off"
        /\ d.internalPanel = "off" /\ d.externalPanel = "off"
    BY DEF Sound, WorldOK, WorldFields, MachineFields, PortFields,
           SameSensor, SameCourse, SameAllowances
  <2> HIDE DEF d
  <2>3. /\ SameSensor(u, d) /\ SameCourse(u, d) /\ u.calls = d.calls
        /\ u.mode = "off" /\ u.backlight = "off"
        /\ u.internalPanel = "off" /\ u.externalPanel = "off"
        /\ u.dimAlarm = NoAlarm /\ u.offAlarm = NoAlarm
        /\ u.offTime = Past /\ u.timeoutType = "none"
    BY <2>1, <2>2 DEF CancelDisplayOffAlarm, WorldFields, MachineFields, PortFields,
           SameSensor, SameCourse, SameAllowances
  <2> QED BY <1>2, <2>2, <2>3 DEF u, calls, SameSensor, SameCourse, SameAllowances
<1> QED BY <1>1, <1>2

\* turn_on_display_without_timeout leaves the timer as it was.
LEMMA TurnOnDisplayWithoutTimeoutDoes ==
  ASSUME NEW v, Sound(v), NEW reason
  PROVE  LET u == TurnOnDisplayWithoutTimeout(v, reason)
         IN /\ SameTimer(u, v) /\ SameSensor(u, v) /\ SameCourse(u, v)
            /\ v.paused => u = v
            /\ ~v.paused => /\ u.mode = "on" /\ u.externalPanel = "on" /\ u.modem = "normal"
                            /\ u.reason = reason
                            /\ ~v.lidClosed => u.internalPanel = "on" /\ u.backlight = "normal"
                            /\ v.lidClosed => /\ u.internalPanel = v.internalPanel
                                              /\ u.backlight = v.backlight
            /\ u.calls \subseteq v.calls \cup {"notify_display_on"}
<1> DEFINE internal == IF v.lidClosed THEN v.internalPanel ELSE "on"
           light == IF v.lidClosed THEN v.backlight ELSE "normal"
           calls == v.calls \cup {"notify_display_on"}
           u == TurnOnDisplayWithoutTimeout(v, reason)
<1>1. CASE v.paused
  BY <1>1 DEF TurnOnDisplayWithoutTimeout, SameTimer, SameSensor, SameCourse, SameAllowances
<1>2. CASE ~v.paused
  <2>1. u = [v EXCEPT !.wakeLock = TRUE, !.interactive = TRUE,
                 !.externalPanel = "on",
                 !.internalPanel = internal,
                 !.backlight = light,
                 !.mode = "on", !.reason = reason, !.modem = "normal",
                 !.calls = calls]
    BY <1>2 DEF TurnOnDisplayWithoutTimeout
  <2> HIDE DEF u, internal, light, calls
  <2>2. /\ SameTimer(u, v) /\ SameSensor(u, v) /\ SameCourse(u, v)
        /\ u.mode = "on" /\ u.externalPanel = "on" /\ u.modem = "normal" /\ u.reason = reason
        /\ u.internalPanel = internal /\ u.backlight = light /\ u.calls = calls
    BY <2>1 DEF Sound, WorldOK, WorldFields, MachineFields, PortFields, SameTimer,
           SameSensor, SameCourse, SameAllowances
  <2> QED BY <1>2, <2>2 DEF u, internal, light, calls
<1> QED BY <1>1, <1>2

\* What only tells the observers of the display asks no client.
LEMMA ReportsAreDiscreet ==
  ASSUME NEW u, NEW v, SameCourse(u, v), v.paused => u = v,
         u.calls \subseteq v.calls \cup {"notify_display_on", "notify_display_off"}
  PROVE  Discreet(u, v)
BY DEF SameCourse, SameAllowances, Discreet, Willing, SameDisplay

\* turn_off_display leaves everything in order, whatever it finds.
LEMMA TurnOffDisplayTidy ==
  ASSUME NEW v, Sound(v), NEW reason
  PROVE  Tidy(TurnOffDisplay(v, reason), v)
<1> DEFINE u == TurnOffDisplay(v, reason)
<1>1. /\ SameSensor(u, v) /\ SameCourse(u, v)
      /\ v.paused => u = v
      /\ ~v.paused => /\ u.mode = "off" /\ u.backlight = "off"
                      /\ u.internalPanel = "off" /\ u.externalPanel = "off"
                      /\ u.dimAlarm = NoAlarm /\ u.offAlarm = NoAlarm
                      /\ u.offTime = Past /\ u.timeoutType = "none"
      /\ u.calls \subseteq v.calls \cup {"notify_display_off"}
  BY TurnOffDisplayDoes
<1> HIDE DEF u
<1>2. Discreet(u, v)
  BY <1>1, ReportsAreDiscreet
<1>3. CASE v.paused
  <2>1. u = v
    BY <1>1, <1>3
  <2> QED BY <2>1, NothingIsTidy DEF u
<1>4. CASE ~v.paused
  <2>1. Timing(v) => Timing(u)
    BY <1>1, <1>4 DEF Timing, SameCourse
  <2>2. Lighting(u)
    BY <1>1, <1>4 DEF Lighting, SameCourse
  <2>3. Orders(u, v)
    BY <1>1, <1>4, <2>1, <2>2 DEF Orders, Covered
  <2> QED BY <1>1, <1>2, <2>3 DEF Tidy, u
<1> QED BY <1>3, <1>4 DEF u

\* A display that is on is brightened for good.
LEMMA BrightenDisplayTidy ==
  ASSUME NEW v, Sound(v), v.mode = "on"
  PROVE  Tidy(BrightenDisplay(v), v) /\ BrightenDisplay(v).mode = "on"
<1> DEFINE u == BrightenDisplay(v)
<1>1. /\ SameTimer(u, v) /\ SameSensor(u, v) /\ SameCourse(u, v)
      /\ u.calls = v.calls
      /\ v.paused => u = v
      /\ ~v.paused => u.backlight = "normal"
      /\ u.mode = v.mode /\ u.reason = v.reason /\ u.modem = v.modem
      /\ u.internalPanel = v.internalPanel /\ u.externalPanel = v.externalPanel
  BY BrightenDisplayDoes
<1> HIDE DEF u
<1>2. Discreet(u, v)
  BY <1>1, ReportsAreDiscreet
<1>3. Timing(v) => Timing(u)
  BY <1>1 DEF Timing, SameTimer, SameCourse
<1>4. Lighting(v) => Lighting(u)
  BY <1>1 DEF Lighting, SameTimer, SameCourse, SameAllowances, TimeoutAllowed
<1> QED BY <1>1, <1>2, <1>3, <1>4 DEF Tidy, Orders, u, Covered, SameCourse

\* A timer may be scheduled anew wherever there is one or the display is on.
LEMMA ScheduleNormalAlarmTidy ==
  ASSUME NEW v, Sound(v), v.mode = "on" \/ v.timeoutType # "none"
  PROVE  Tidy(ScheduleNormalAlarm(v), v) /\ ScheduleNormalAlarm(v).mode = v.mode
<1> DEFINE u == ScheduleNormalAlarm(v)
<1>1. /\ SameDisplay(u, v) /\ SameSensor(u, v) /\ SameCourse(u, v)
      /\ u.calls = v.calls
      /\ u.timeoutType = "normal"
      /\ Timing(v) => Timing(u)
  BY ScheduleNormalAlarmDoes
<1> HIDE DEF u
<1>2. Discreet(u, v)
  BY <1>1 DEF SameCourse, SameAllowances, Discreet, Willing
<1>3. Lighting(v) => Lighting(u)
  BY <1>1 DEF Lighting, SameDisplay, SameCourse, SameAllowances, TimeoutAllowed,
              TimeoutApplicationAllowed
<1> QED BY <1>1, <1>2, <1>3 DEF Tidy, Orders, SameDisplay, u, Covered, SameCourse

\* The same of the three alarms that extend the time to display off.
LEMMA ExtendDisplayOffAlarmTidy ==
  ASSUME NEW v, Sound(v), v.mode = "on", NEW t \in 0 .. DelayRange - 1,
         NEW type \in {"post_notification", "reduced"}
  PROVE  LET u == ExtendDisplayOffAlarm(v, t, type)
         IN Tidy(u, v) /\ u.mode = "on" /\ u.offTime >= v.offTime
<1> DEFINE u == ExtendDisplayOffAlarm(v, t, type)
<1>1. /\ SameDisplay(u, v) /\ SameSensor(u, v) /\ SameCourse(u, v)
      /\ u.calls = v.calls
      /\ t > v.offTime => /\ u.dimAlarm = NoAlarm /\ u.offAlarm = t
                          /\ u.offTime = t /\ u.timeoutType = type
      /\ ~(t > v.offTime) => u = v
      /\ Timing(v) => Timing(u)
  BY ExtendDisplayOffAlarmDoes
<1> HIDE DEF u
<1>2. Discreet(u, v)
  BY <1>1 DEF SameCourse, SameAllowances, Discreet, Willing
<1>3. Lighting(v) => Lighting(u)
  BY <1>1 DEF Lighting, SameDisplay, SameCourse, SameAllowances, TimeoutAllowed,
              TimeoutApplicationAllowed
<1>4. u.offTime >= v.offTime
  BY <1>1, OptionsAssumption DEF Sound, WorldOK, MachineOK
<1> QED BY <1>1, <1>2, <1>3, <1>4 DEF Tidy, Orders, SameDisplay, u, Covered, SameCourse

\* turn_on_display_with_normal_timeout leaves everything in order.
LEMMA TurnOnDisplayWithNormalTimeoutTidy ==
  ASSUME NEW v, Sound(v), NEW reason \in Reasons
  PROVE  LET u == TurnOnDisplayWithNormalTimeout(v, reason)
         IN /\ Tidy(u, v) /\ (~v.paused => u.mode = "on" /\ Lighting(u))
            /\ u.lidClosed = v.lidClosed /\ (Covered(v) => Covered(u))
            /\ u.calls \subseteq v.calls \cup {"notify_display_on"}
<1> DEFINE d == TurnOnDisplayWithoutTimeout(v, reason)
           u == ScheduleNormalAlarm(d)
<1>1. /\ SameTimer(d, v) /\ SameSensor(d, v) /\ SameCourse(d, v)
      /\ v.paused => d = v
      /\ ~v.paused => /\ d.mode = "on" /\ d.externalPanel = "on" /\ d.modem = "normal"
                      /\ d.reason = reason
                      /\ ~v.lidClosed => d.internalPanel = "on" /\ d.backlight = "normal"
                      /\ v.lidClosed => /\ d.internalPanel = v.internalPanel
                                        /\ d.backlight = v.backlight
      /\ d.calls \subseteq v.calls \cup {"notify_display_on"}
  BY TurnOnDisplayWithoutTimeoutDoes
<1>2. Sound(d)
  BY TurnOnDisplayWithoutTimeoutKeeps DEF Keeps
<1> HIDE DEF d
<1>3. /\ SameDisplay(u, d) /\ SameSensor(u, d) /\ SameCourse(u, d)
      /\ u.calls = d.calls
      /\ u.timeoutType = "normal"
      /\ Timing(d) => Timing(u)
  BY <1>2, ScheduleNormalAlarmDoes
<1> HIDE DEF u
<1>4. /\ SameSensor(u, v) /\ SameCourse(u, v)
      /\ v.paused => SameDisplay(u, v) /\ u.calls = v.calls
      /\ u.calls \subseteq v.calls \cup {"notify_display_on"}
  BY <1>1, <1>3 DEF SameSensor, SameCourse, SameAllowances
<1>5. Discreet(u, v)
  BY <1>4 DEF SameCourse, SameAllowances, Discreet, Willing
<1>6. Timing(v) => Timing(u)
  BY <1>1, <1>3 DEF Timing, SameTimer, SameCourse
<1>7. /\ Lighting(v) => Lighting(u)
      /\ ~v.paused => Lighting(u)
  BY <1>1, <1>3, <1>4 DEF Lighting, SameDisplay, SameCourse
<1>8. TurnOnDisplayWithNormalTimeout(v, reason) = u
  BY DEF TurnOnDisplayWithNormalTimeout, d, u
<1> QED BY <1>1, <1>3, <1>4, <1>5, <1>6, <1>7, <1>8
        DEF Tidy, Orders, SameDisplay, Covered, SameCourse

\* turn_on_display_with_reduced_timeout leaves everything in order: a display
\* that was off has no time point that could be later.
LEMMA TurnOnDisplayWithReducedTimeoutTidy ==
  ASSUME NEW v, Sound(v), NEW reason \in Reasons
  PROVE  Tidy(TurnOnDisplayWithReducedTimeout(v, reason), v)
<1> DEFINE d == TurnOnDisplayWithoutTimeout(v, reason)
           u == ScheduleReducedAlarm(d)
           t == ReducedTimeout
<1>1. /\ SameTimer(d, v) /\ SameSensor(d, v) /\ SameCourse(d, v)
      /\ v.paused => d = v
      /\ ~v.paused => /\ d.mode = "on" /\ d.externalPanel = "on" /\ d.modem = "normal"
                      /\ d.reason = reason
                      /\ ~v.lidClosed => d.internalPanel = "on" /\ d.backlight = "normal"
                      /\ v.lidClosed => /\ d.internalPanel = v.internalPanel
                                        /\ d.backlight = v.backlight
      /\ d.calls \subseteq v.calls \cup {"notify_display_on"}
  BY TurnOnDisplayWithoutTimeoutDoes
<1>2. Sound(d)
  BY TurnOnDisplayWithoutTimeoutKeeps DEF Keeps
<1> HIDE DEF d
<1>3. /\ SameDisplay(u, d) /\ SameSensor(u, d) /\ SameCourse(u, d)
      /\ u.calls = d.calls
      /\ t > d.offTime => /\ u.dimAlarm = NoAlarm /\ u.offAlarm = t
                          /\ u.offTime = t /\ u.timeoutType = "reduced"
      /\ ~(t > d.offTime) => u = d
      /\ Timing(d) => Timing(u)
  BY <1>2, ExtendDisplayOffAlarmDoes, OptionsAssumption DEF ScheduleReducedAlarm
<1> HIDE DEF u
<1>4. /\ SameSensor(u, v) /\ SameCourse(u, v)
      /\ v.paused => SameDisplay(u, v) /\ u.calls = v.calls
      /\ u.calls \subseteq v.calls \cup {"notify_display_on"}
  BY <1>1, <1>3 DEF SameSensor, SameCourse, SameAllowances
<1>5. Discreet(u, v)
  BY <1>4 DEF SameCourse, SameAllowances, Discreet, Willing
<1>6. Timing(v) => Timing(u)
  BY <1>1, <1>3 DEF Timing, SameTimer, SameCourse
<1>7. ASSUME Lighting(v) PROVE Lighting(u)
  <2>1. CASE v.paused
    BY <1>1, <1>4, <1>7, <2>1 DEF Lighting, SameDisplay, SameCourse
  <2>2. CASE ~v.paused
    <3>1. v.mode \in {"on", "off"}
      BY DEF Sound, WorldOK, MachineOK, DisplayModes
    <3>2. TimeoutAllowed(v) \/ v.mode = "off" => u.timeoutType # "none"
      <4>1. CASE v.mode = "off"
        <5>1. d.offTime = Past
          BY <1>1, <1>7, <2>2, <4>1 DEF Lighting, SameTimer
        <5> QED BY <1>3, <5>1, OptionsAssumption
      <4>2. CASE v.mode = "on" /\ TimeoutAllowed(v)
        BY <1>1, <1>3, <1>7, <2>2, <4>2 DEF Lighting, SameTimer
      <4> QED BY <3>1, <4>1, <4>2
    <3> QED BY <1>1, <1>3, <1>4, <1>7, <2>2, <3>2
            DEF Lighting, SameDisplay, SameCourse, SameAllowances, TimeoutAllowed
  <2> QED BY <2>1, <2>2
<1>8. TurnOnDisplayWithReducedTimeout(v, reason) = u
  BY DEF TurnOnDisplayWithReducedTimeout, d, u
<1> QED BY <1>1, <1>3, <1>4, <1>5, <1>6, <1>7, <1>8
        DEF Tidy, Orders, Covered, SameDisplay, SameCourse

\* A display that a client or a notification keeps on needs no timer.
LEMMA TurnOnDisplayWithoutTimeoutTidy ==
  ASSUME NEW v, Sound(v), ~TimeoutAllowed(v), NEW reason \in Reasons
  PROVE  Tidy(TurnOnDisplayWithoutTimeout(v, reason), v)
<1> DEFINE u == TurnOnDisplayWithoutTimeout(v, reason)
<1>1. /\ SameTimer(u, v) /\ SameSensor(u, v) /\ SameCourse(u, v)
      /\ v.paused => u = v
      /\ ~v.paused => /\ u.mode = "on" /\ u.externalPanel = "on" /\ u.modem = "normal"
                      /\ u.reason = reason
                      /\ ~v.lidClosed => u.internalPanel = "on" /\ u.backlight = "normal"
                      /\ v.lidClosed => /\ u.internalPanel = v.internalPanel
                                        /\ u.backlight = v.backlight
      /\ u.calls \subseteq v.calls \cup {"notify_display_on"}
  BY TurnOnDisplayWithoutTimeoutDoes
<1> HIDE DEF u
<1>2. Discreet(u, v)
  BY <1>1, ReportsAreDiscreet
<1>3. Timing(v) => Timing(u)
  BY <1>1 DEF Timing, SameTimer, SameCourse
<1>4. CASE v.paused
  BY <1>1, <1>4, NothingIsTidy DEF u
<1>5. CASE ~v.paused
  <2>1. Lighting(v) => Lighting(u)
    BY <1>1, <1>5 DEF Lighting, SameTimer, SameCourse, SameAllowances, TimeoutAllowed
  <2> QED BY <1>1, <1>5, <1>2, <1>3, <2>1 DEF Tidy, Orders, u, Covered, SameCourse
<1> QED BY <1>4, <1>5

\* enable_proximity has nothing to do with the display.
LEMMA EnableProximityDoes ==
  ASSUME NEW v, Sound(v), NEW e \in Enablements
  PROVE  LET u == EnableProximity(v, e)
         IN /\ Orders(u, v) /\ Discreet(u, v)
            /\ SameDisplay(u, v) /\ SameTimer(u, v) /\ SameCourse(u, v)
            /\ u.notificationAlarm = v.notificationAlarm
            /\ u.proximityAlarm = v.proximityAlarm
            /\ u.proximityEnablements = v.proximityEnablements \cup {e}
<1> DEFINE u == EnableProximity(v, e)
<1>1. /\ SameDisplay(u, v) /\ SameTimer(u, v) /\ SameCourse(u, v) /\ u.calls = v.calls
      /\ u.notificationAlarm = v.notificationAlarm
      /\ u.proximityAlarm = v.proximityAlarm
      /\ u.proximityEnablements = v.proximityEnablements \cup {e}
  BY DEF EnableProximity, Sound, WorldOK, WorldFields, MachineFields, PortFields, SameDisplay,
         SameTimer, SameCourse, SameAllowances
<1> QED BY <1>1, ElsewhereIsOrderly

\* disable_proximity has nothing to do with the display either.
LEMMA DisableProximityDoes ==
  ASSUME NEW v, Sound(v), NEW e \in Enablements
  PROVE  LET u == DisableProximity(v, e)
         IN /\ Serves(u, v)
            /\ SameDisplay(u, v) /\ SameTimer(u, v) /\ SameCourse(u, v)
            /\ u.notificationAlarm = v.notificationAlarm
            /\ u.proximityAlarm = v.proximityAlarm
            /\ u.proximityEnablements = v.proximityEnablements \ {e}
<1> DEFINE left == v.proximityEnablements \ {e}
           on == v.proximityEvents /\ v.proximityEnablements # {e}
           u == DisableProximity(v, e)
<1>1. u = [v EXCEPT !.proximityEnablements = left, !.proximityEvents = on]
  BY DEF DisableProximity
<1> HIDE DEF on, u
<1>2. /\ SameDisplay(u, v) /\ SameTimer(u, v) /\ SameCourse(u, v) /\ u.calls = v.calls
      /\ u.notificationAlarm = v.notificationAlarm
      /\ u.proximityAlarm = v.proximityAlarm
      /\ u.proximityEnablements = left
  BY <1>1 DEF Sound, WorldOK, WorldFields, MachineFields, PortFields, SameDisplay,
         SameTimer, SameCourse, SameAllowances
<1>3. Expires(v) => Expires(u)
  BY <1>2 DEF Expires, SameCourse, SameAllowances
<1> QED BY <1>2, <1>3, ElsewhereIsOrderly DEF Serves, u, CallHolds

\* allow_inactivity_timeout: a display that nobody keeps on any more has a timer
\* or goes off; one that another allowance keeps on, or that has a timer, stays
\* as it is.
LEMMA AllowTimeoutDoes ==
  ASSUME NEW v, Sound(v), NEW a \in Allowances
  PROVE  LET u == AllowTimeout(v, a)
         IN /\ Tidy(u, v)
            /\ a = "notification" /\ v.timeoutType # "none" => SameDisplay(u, v) /\ SameTimer(u, v)
            /\ a = "notification" /\ "client" \in v.disallowedTimeouts => SameDisplay(u, v)
            /\ v.paused => SameDisplay(u, v)
            /\ v.paused /\ a = "notification" => SameTimer(u, v)
<1> DEFINE d == [v EXCEPT !.disallowedTimeouts = v.disallowedTimeouts \ {a}]
           u == AllowTimeout(v, a)
           s == ScheduleNormalAlarm(d)
           o == TurnOffDisplay(d, "activity")
<1>1. /\ SameDisplay(d, v) /\ SameTimer(d, v) /\ SameSensor(d, v) /\ d.calls = v.calls
      /\ d.paused = v.paused /\ d.defaultHandlers = v.defaultHandlers
      /\ d.lidClosed = v.lidClosed /\ d.offTimeout = v.offTimeout
      /\ d.suspendAllowed = v.suspendAllowed
      /\ d.disallowedTimeouts = v.disallowedTimeouts \ {a}
      /\ Sound(d)
  BY DEF Sound, WorldOK, MachineOK, PortsOK, WorldFields, MachineFields, PortFields,
         SameDisplay, SameTimer, SameSensor
<1>2. u = IF TimeoutAllowed(v) \/ ~TimeoutAllowed(d) \/ v.mode # "on" THEN d
          ELSE IF a = "client" THEN s
          ELSE IF v.timeoutType = "none" THEN o
          ELSE d
  BY DEF AllowTimeout
<1> HIDE DEF d, u
<1>3. /\ SameDisplay(s, d) /\ SameSensor(s, d) /\ SameCourse(s, d) /\ s.calls = d.calls
      /\ s.timeoutType = "normal" /\ (Timing(d) => Timing(s))
  BY <1>1, ScheduleNormalAlarmDoes
<1>4. /\ SameSensor(o, d) /\ SameCourse(o, d)
      /\ d.paused => o = d
      /\ ~d.paused => /\ o.mode = "off" /\ o.backlight = "off"
                      /\ o.internalPanel = "off" /\ o.externalPanel = "off"
                      /\ o.dimAlarm = NoAlarm /\ o.offAlarm = NoAlarm
                      /\ o.offTime = Past /\ o.timeoutType = "none"
      /\ o.calls \subseteq d.calls \cup {"notify_display_off"}
  BY <1>1, TurnOffDisplayDoes
<1>5. Orders(o, d) /\ Discreet(o, d)
  BY <1>1, TurnOffDisplayTidy DEF Tidy
<1> HIDE DEF s, o
<1>6. Discreet(d, v) /\ (Timing(v) => Timing(d))
  BY <1>1 DEF Discreet, Willing, Timing, SameTimer
<1>7. CASE u = d /\ (TimeoutAllowed(d) => TimeoutAllowed(v) \/ v.mode # "on"
                                          \/ v.timeoutType # "none")
  <2>1. Lighting(v) => Lighting(d)
    BY <1>1, <1>7 DEF Lighting, SameDisplay, SameTimer, TimeoutAllowed, TimeoutApplicationAllowed
  <2>2. Tidy(d, v)
    BY <1>1, <1>6, <2>1 DEF Tidy, Orders, Covered, SameDisplay
  <2> QED BY <1>1, <1>7, <2>2 DEF u
<1>8. CASE u = s /\ a = "client" /\ v.mode = "on"
  <2>1. Lighting(v) => Lighting(s)
    BY <1>1, <1>3, <1>8
       DEF Lighting, SameDisplay, SameCourse, SameAllowances, TimeoutAllowed,
           TimeoutApplicationAllowed
  <2>2. Discreet(s, v)
    BY <1>1, <1>3 DEF Discreet, Willing, SameCourse, SameAllowances, SameDisplay
  <2>3. SameSensor(s, v) /\ SameDisplay(s, v)
    BY <1>1, <1>3 DEF SameSensor, SameDisplay
  <2> QED BY <1>1, <1>3, <1>6, <1>8, <2>1, <2>2, <2>3
          DEF Tidy, Orders, Covered, SameDisplay, SameCourse, u
<1>9. CASE u = o /\ a = "notification" /\ v.timeoutType = "none" /\ TimeoutAllowed(d)
  <2>1. CASE v.paused
    <3>1. o = d /\ (Lighting(v) => Lighting(d))
      BY <1>1, <1>4, <2>1 DEF Lighting, SameDisplay
    <3>2. Tidy(d, v)
      BY <1>1, <1>6, <3>1 DEF Tidy, Orders, Covered, SameDisplay
    <3> QED BY <1>1, <1>9, <3>1, <3>2 DEF u
  <2>2. CASE ~v.paused
    <3>1. Lighting(o)
      BY <1>1, <1>4, <2>2 DEF Lighting, SameCourse
    <3>2. SameSensor(o, v) /\ Discreet(o, v)
      BY <1>1, <1>4, <1>5, <1>6, DiscreetChains DEF SameSensor
    <3>3. Tidy(o, v)
      BY <1>1, <1>4, <2>2, <1>5, <1>6, <3>1, <3>2 DEF Tidy, Orders, Covered, SameCourse
    <3>4. "client" \notin v.disallowedTimeouts
      BY <1>1, <1>9 DEF TimeoutAllowed
    <3> QED BY <1>9, <2>2, <3>3, <3>4 DEF u
  <2> QED BY <2>1, <2>2
<1> QED BY <1>2, <1>7, <1>8, <1>9 DEF Allowances

\* What a user activity does to a display that is on: it is lit again, with a
\* new timer.
LEMMA ActivityWhileOnDoes ==
  ASSUME NEW v, Sound(v), NEW reason \in Reasons
  PROVE  LET u == ActivityWhileOn(v, reason)
         IN /\ SameSensor(u, v) /\ SameCourse(u, v) /\ u.calls = v.calls
            /\ u.mode = v.mode /\ u.modem = v.modem
            /\ u.internalPanel = v.internalPanel /\ u.externalPanel = v.externalPanel
            /\ u.backlight = IF v.paused THEN v.backlight ELSE "normal"
            /\ u.timeoutType = "normal"
            /\ Timing(v) => Timing(u)
<1> DEFINE b == BrightenDisplay(v)
           n == ScheduleNormalAlarm(b)
           u == ActivityWhileOn(v, reason)
<1>1. /\ SameTimer(b, v) /\ SameSensor(b, v) /\ SameCourse(b, v) /\ b.calls = v.calls
      /\ v.paused => b = v
      /\ ~v.paused => b.backlight = "normal"
      /\ b.mode = v.mode /\ b.modem = v.modem
      /\ b.internalPanel = v.internalPanel /\ b.externalPanel = v.externalPanel
  BY BrightenDisplayDoes
<1>2. Sound(b)
  BY BrightenDisplayKeeps DEF Keeps
<1> HIDE DEF b
<1>3. /\ SameDisplay(n, b) /\ SameSensor(n, b) /\ SameCourse(n, b) /\ n.calls = b.calls
      /\ n.timeoutType = "normal" /\ (Timing(b) => Timing(n))
  BY <1>2, ScheduleNormalAlarmDoes
<1>4. Sound(n)
  BY <1>2, ScheduleNormalAlarmKeeps DEF Keeps
<1>5. u = [n EXCEPT !.reason = reason]
  BY DEF ActivityWhileOn, n, b
<1> HIDE DEF n, u
<1>6. /\ SameTimer(u, n) /\ SameSensor(u, n) /\ SameCourse(u, n) /\ u.calls = n.calls
      /\ u.mode = n.mode /\ u.modem = n.modem /\ u.backlight = n.backlight
      /\ u.internalPanel = n.internalPanel /\ u.externalPanel = n.externalPanel
  BY <1>4, <1>5 DEF Sound, WorldOK, WorldFields, MachineFields, PortFields,
         SameTimer, SameSensor, SameCourse, SameAllowances
<1>7. Timing(v) => Timing(u)
  BY <1>1, <1>3, <1>6 DEF Timing, SameTimer, SameCourse
<1>8. /\ SameSensor(u, v) /\ SameCourse(u, v) /\ u.calls = v.calls
      /\ u.mode = v.mode /\ u.modem = v.modem
      /\ u.internalPanel = v.internalPanel /\ u.externalPanel = v.externalPanel
      /\ u.timeoutType = "normal"
  BY <1>1, <1>3, <1>6 DEF SameDisplay, SameTimer, SameSensor, SameCourse, SameAllowances
<1>9. u.backlight = IF v.paused THEN v.backlight ELSE "normal"
  BY <1>1, <1>3, <1>6 DEF SameDisplay
<1> QED BY <1>7, <1>8, <1>9 DEF u

\* In an active session it leaves everything in order; a paused one gets none.
LEMMA ActivityWhileOnTidy ==
  ASSUME NEW v, Sound(v), v.mode = "on", ~v.paused, NEW reason \in Reasons
  PROVE  Tidy(ActivityWhileOn(v, reason), v)
<1> DEFINE u == ActivityWhileOn(v, reason)
<1>1. /\ SameSensor(u, v) /\ SameCourse(u, v) /\ u.calls = v.calls
      /\ u.mode = v.mode /\ u.modem = v.modem
      /\ u.internalPanel = v.internalPanel /\ u.externalPanel = v.externalPanel
      /\ u.backlight = IF v.paused THEN v.backlight ELSE "normal"
      /\ u.timeoutType = "normal"
      /\ Timing(v) => Timing(u)
  BY ActivityWhileOnDoes
<1> HIDE DEF u
<1>2. Lighting(v) => Lighting(u)
  BY <1>1 DEF Lighting, SameCourse
<1>3. Discreet(u, v)
  BY <1>1 DEF Discreet, Willing, SameCourse, SameAllowances
<1> QED BY <1>1, <1>2, <1>3 DEF Tidy, Orders, u, Covered, SameCourse

\* An alarm that runs down stays one, and so does none.
LEMMA ElapsedDoes ==
  ASSUME NEW t \in Ticks
  PROVE  /\ Elapsed(t) # NoAlarm <=> t # NoAlarm
         /\ Elapsed(t) = IF t > 0 THEN t - 1 ELSE t
         /\ t \in Int /\ t >= -1
BY OptionsAssumption DEF Elapsed, Ticks

\* Time brings the alarms and the time point nearer together.
LEMMA PassTimeServes ==
  ASSUME NEW v, Sound(v)
  PROVE  Serves(PassTime(v), v)
<1> DEFINE time == IF v.offTime \in 0 .. Infinite - 1 THEN v.offTime - 1 ELSE v.offTime
           u == PassTime(v)
<1>1. /\ u.dimAlarm = Elapsed(v.dimAlarm) /\ u.offAlarm = Elapsed(v.offAlarm)
      /\ u.proximityAlarm = Elapsed(v.proximityAlarm)
      /\ u.notificationAlarm = Elapsed(v.notificationAlarm)
      /\ u.offTime = time /\ u.timeoutType = v.timeoutType
      /\ SameDisplay(u, v) /\ SameCourse(u, v) /\ u.calls = v.calls
      /\ u.proximityEnablements = v.proximityEnablements
  BY DEF PassTime, Sound, WorldOK, WorldFields, MachineFields, PortFields, SameDisplay,
         SameCourse, SameAllowances
<1>2. /\ v.dimAlarm \in Ticks /\ v.offAlarm \in Ticks
      /\ v.proximityAlarm \in Ticks /\ v.notificationAlarm \in Ticks
      /\ v.offTime \in Int /\ v.offTime >= -1 /\ v.offTime <= Infinite
      /\ Infinite \in Nat
  BY OptionsAssumption DEF Sound, WorldOK, MachineOK
<1>3. v.offAlarm < Infinite
  BY OptionsAssumption DEF Sound, WorldOK, MachineOK, Ticks
<1>4. /\ v.offTime = Infinite => time = Infinite
      /\ v.offTime # Infinite => time = IF v.offTime >= 0 THEN v.offTime - 1 ELSE v.offTime
  BY <1>2
<1> HIDE DEF u, time
<1>5. /\ u.offAlarm # NoAlarm <=> v.offAlarm # NoAlarm
      /\ u.dimAlarm # NoAlarm <=> v.dimAlarm # NoAlarm
      /\ u.proximityAlarm # NoAlarm <=> v.proximityAlarm # NoAlarm
      /\ u.notificationAlarm # NoAlarm <=> v.notificationAlarm # NoAlarm
      /\ u.offAlarm = IF v.offAlarm > 0 THEN v.offAlarm - 1 ELSE v.offAlarm
      /\ u.dimAlarm = IF v.dimAlarm > 0 THEN v.dimAlarm - 1 ELSE v.dimAlarm
      /\ v.offAlarm \in Int /\ v.offAlarm >= -1 /\ v.dimAlarm \in Int /\ v.dimAlarm >= -1
  BY <1>1, <1>2, ElapsedDoes
<1>6. ASSUME Timing(v) PROVE Timing(u)
  <2>1. \A s \in Supplies : Fits(u.offTimeout[s])
    BY <1>1, <1>6 DEF Timing, SameCourse
  <2>2. u.timeoutType # "none" => \/ u.offAlarm # NoAlarm
                                  \/ u.timeoutType = "normal" /\ u.offTime = Infinite
    BY <1>1, <1>4, <1>5, <1>6 DEF Timing
  <2>3. u.timeoutType = "none" => u.offTime <= 0
    BY <1>1, <1>2, <1>4, <1>6 DEF Timing
  <2>4. u.offAlarm # NoAlarm => u.timeoutType # "none" /\ u.offTime <= u.offAlarm
    BY <1>1, <1>2, <1>3, <1>4, <1>5, <1>6 DEF Timing
  <2>5. u.dimAlarm # NoAlarm => /\ u.offAlarm # NoAlarm /\ u.timeoutType = "normal"
                                /\ u.dimAlarm <= u.offAlarm
    BY <1>1, <1>5, <1>6 DEF Timing
  <2> QED BY <2>1, <2>2, <2>3, <2>4, <2>5 DEF Timing
<1>7. Lighting(v) => Lighting(u)
  BY <1>1, <1>2, <1>4, <1>5
     DEF Lighting, SameDisplay, SameCourse, SameAllowances, TimeoutAllowed,
         TimeoutApplicationAllowed
<1>8. Discreet(u, v)
  BY <1>1 DEF Discreet, Willing, SameCourse, SameAllowances
<1>9. Expires(v) => Expires(u)
  BY <1>1, <1>5 DEF Expires, SameCourse, SameAllowances
<1> QED BY <1>1, <1>6, <1>7, <1>8, <1>9
        DEF Serves, Orders, Covered, SameDisplay, SameCourse, CallHolds, u

\* A step that neither the display, its timer nor the sensor notices.
LEMMA ElsewhereServes ==
  ASSUME NEW u, NEW v, SameDisplay(u, v), SameTimer(u, v), SameCourse(u, v), SameSensor(u, v),
         u.calls \cap ActiveCalls \subseteq v.calls
  PROVE  Serves(u, v)
<1>1. Orders(u, v)
  BY DEF SameDisplay, SameTimer, SameCourse, SameAllowances, Orders, Timing, Lighting,
         TimeoutAllowed, TimeoutApplicationAllowed, Covered
<1>2. Discreet(u, v)
  BY DEF SameCourse, SameAllowances, Discreet, Willing, ActiveCalls
<1>3. Expires(v) => Expires(u)
  BY DEF SameCourse, SameAllowances, SameSensor, Expires
<1> QED BY <1>1, <1>2, <1>3 DEF Serves, CallHolds, SameSensor

-----------------------------------------------------------------------------
\* The long-press alarm reports and nothing more.
LEMMA HandleLongPressAlarmServes ==
  ASSUME NEW v, Sound(v)
  PROVE  Serves(HandleLongPressAlarm(v), v)
<1> DEFINE calls == v.calls \cup {"notify_long_press"}
           u == HandleLongPressAlarm(v)
<1>1. u = [v EXCEPT !.longPressAlarm = NoAlarm, !.longPressDetected = TRUE, !.calls = calls]
  BY DEF HandleLongPressAlarm
<1>2. calls \cap ActiveCalls \subseteq v.calls
  BY DEF ActiveCalls
<1> HIDE DEF u, calls
<1>3. SameDisplay(u, v) /\ SameTimer(u, v) /\ SameCourse(u, v) /\ SameSensor(u, v)
      /\ u.calls = calls
  BY <1>1 DEF Sound, WorldOK, WorldFields, MachineFields, PortFields, SameDisplay, SameTimer,
              SameSensor, SameCourse, SameAllowances
<1>4. Serves(u, v)
  BY <1>2, <1>3, ElsewhereServes
<1> QED BY <1>4 DEF u

\* The dim alarm: the off alarm it came ahead of is still to come.
LEMMA HandleDimAlarmServes ==
  ASSUME NEW v, Sound(v), v.dimAlarm = 0
  PROVE  Serves(HandleDimAlarm(v), v)
<1> DEFINE u == HandleDimAlarm(v)
           light == IF TimeoutApplicationAllowed(v) /\ ~v.paused THEN "dim" ELSE v.backlight
<1>1. /\ u.backlight = light /\ u.mode = v.mode /\ u.reason = v.reason
      /\ u.internalPanel = v.internalPanel /\ u.externalPanel = v.externalPanel
      /\ u.modem = v.modem
      /\ u.dimAlarm = NoAlarm /\ u.offAlarm = v.offAlarm
      /\ u.offTime = v.offTime /\ u.timeoutType = v.timeoutType
      /\ SameSensor(u, v) /\ SameCourse(u, v) /\ u.calls = v.calls
  <2> DEFINE c == [v EXCEPT !.dimAlarm = NoAlarm]
  <2>1. u = IF TimeoutApplicationAllowed(v) THEN DimDisplay(c) ELSE c
    BY DEF HandleDimAlarm, TimeoutApplicationAllowed, TimeoutAllowed, Sound, WorldOK,
           WorldFields, MachineFields
  <2> HIDE DEF u
  <2> QED BY <2>1 DEF DimDisplay, Sound, WorldOK, WorldFields, MachineFields,
                      PortFields, SameSensor, SameCourse, SameAllowances
<1> HIDE DEF u
<1>2. Timing(v) => Timing(u) /\ v.timeoutType = "normal"
  BY <1>1 DEF Timing, SameCourse
<1>3. Timing(v) /\ Lighting(v) => Lighting(u)
  BY <1>1, <1>2 DEF Lighting, SameCourse, SameAllowances, TimeoutAllowed,
                    TimeoutApplicationAllowed
<1>4. Discreet(u, v)
  BY <1>1 DEF Discreet, Willing, SameCourse, SameAllowances, SameDisplay
<1>5. Expires(v) => Expires(u)
  BY <1>1 DEF Expires, SameSensor, SameCourse, SameAllowances
<1> QED BY <1>1, <1>2, <1>3, <1>4, <1>5
        DEF Serves, Orders, Covered, SameCourse, SameSensor, CallHolds, u

\* The off alarm: the time point has come and the dim alarm is gone.
LEMMA HandleOffAlarmServes ==
  ASSUME NEW v, Sound(v), v.offAlarm = 0, v.dimAlarm # 0
  PROVE  Serves(HandleOffAlarm(v), v)
<1> DEFINE c == [v EXCEPT !.offAlarm = NoAlarm]
           d == IF TimeoutApplicationAllowed(c) THEN TurnOffDisplay(c, "activity") ELSE c
           u == HandleOffAlarm(v)
<1>1. /\ SameDisplay(c, v) /\ SameSensor(c, v) /\ SameCourse(c, v) /\ c.calls = v.calls
      /\ c.dimAlarm = v.dimAlarm /\ c.offTime = v.offTime /\ c.offAlarm = NoAlarm
      /\ Sound(c)
  BY OptionsAssumption
     DEF Ticks, Sound, WorldOK, MachineOK, PortsOK, SameSensor, SameCourse,
         SameDisplay, SameAllowances, WorldFields, MachineFields, PortFields
<1>2. u = [d EXCEPT !.timeoutType = "none"]
  BY DEF HandleOffAlarm
<1> HIDE DEF c, u
<1>3. Sound(d)
  BY <1>1, TurnOffDisplayKeeps DEF Keeps, Reasons
<1>4. /\ SameSensor(d, c) /\ SameCourse(d, c)
      /\ d.calls \subseteq c.calls \cup {"notify_display_off"}
      /\ c.paused \/ ~TimeoutApplicationAllowed(c) => d = c
      /\ ~c.paused /\ TimeoutApplicationAllowed(c)
           => /\ d.mode = "off" /\ d.backlight = "off"
              /\ d.internalPanel = "off" /\ d.externalPanel = "off"
              /\ d.dimAlarm = NoAlarm /\ d.offAlarm = NoAlarm
              /\ d.offTime = Past
  <2>1. CASE TimeoutApplicationAllowed(c)
    BY <1>1, <2>1, TurnOffDisplayDoes
  <2>2. CASE ~TimeoutApplicationAllowed(c)
    BY <2>2 DEF SameSensor, SameCourse, SameAllowances
  <2> QED BY <2>1, <2>2
<1> HIDE DEF d
<1>5. /\ SameDisplay(u, d) /\ SameSensor(u, d) /\ SameCourse(u, d) /\ u.calls = d.calls
      /\ u.dimAlarm = d.dimAlarm /\ u.offAlarm = d.offAlarm /\ u.offTime = d.offTime
      /\ u.timeoutType = "none"
  BY <1>2, <1>3 DEF Sound, WorldOK, WorldFields, MachineFields, PortFields,
       SameSensor, SameCourse, SameDisplay, SameAllowances
<1>6. SameSensor(u, v) /\ SameCourse(u, v)
  BY <1>1, <1>4, <1>5 DEF SameSensor, SameCourse, SameAllowances
<1>7. Timing(v) => v.dimAlarm = NoAlarm /\ v.offTime <= 0
  BY DEF Timing, Sound, WorldOK, MachineOK, Ticks
<1>8. Timing(v) => Timing(u)
  BY <1>1, <1>4, <1>5, <1>6, <1>7 DEF Timing, SameCourse
<1>9. ASSUME Timing(v), Lighting(v) PROVE Lighting(u)
  <2>1. CASE v.paused
    BY <1>1, <1>4, <1>5, <1>6, <1>9, <2>1 DEF Lighting, SameCourse, SameDisplay
  <2>2. CASE ~v.paused /\ TimeoutApplicationAllowed(c)
    BY <1>1, <1>4, <1>5, <1>6, <2>2 DEF Lighting, SameCourse, SameDisplay
  <2>3. CASE ~v.paused /\ ~TimeoutApplicationAllowed(c)
    BY <1>1, <1>4, <1>5, <1>6, <1>9, <2>3
       DEF Lighting, SameCourse, SameDisplay, SameAllowances, TimeoutAllowed,
           TimeoutApplicationAllowed
  <2> QED BY <2>1, <2>2, <2>3
<1>10. Discreet(u, v)
  BY <1>1, <1>4, <1>5, <1>6 DEF Discreet, Willing, SameCourse, SameAllowances, SameDisplay
<1>11. Expires(v) => Expires(u)
  BY <1>6 DEF Expires, SameSensor, SameCourse, SameAllowances
<1>12. Covered(v) => Covered(u)
  BY <1>1, <1>4, <1>5, <1>6 DEF Covered, SameCourse, SameDisplay
<1>13. CallHolds(u) => CallHolds(v)
  BY <1>6 DEF CallHolds, SameSensor
<1> QED BY <1>8, <1>9, <1>10, <1>11, <1>12, <1>13 DEF Serves, Orders, u

\* suspend_when_allowed suspends only an active session, and only with the
\* clients' leave.
LEMMA SuspendWhenAllowedServes ==
  ASSUME NEW v, Sound(v)
  PROVE  Serves(SuspendWhenAllowed(v), v)
<1> DEFINE calls == IF v.paused THEN v.calls ELSE v.calls \cup {"suspend"}
           u == SuspendWhenAllowed(v)
<1>1. u = IF v.suspendAllowed
          THEN [v EXCEPT !.suspendPending = FALSE, !.calls = calls]
          ELSE [v EXCEPT !.suspendPending = TRUE]
  BY DEF SuspendWhenAllowed
<1> HIDE DEF u, calls
<1>2. /\ SameDisplay(u, v) /\ SameTimer(u, v) /\ SameCourse(u, v) /\ SameSensor(u, v)
      /\ u.calls = IF v.suspendAllowed THEN calls ELSE v.calls
  BY <1>1 DEF Sound, WorldOK, WorldFields, MachineFields, PortFields, SameDisplay, SameTimer,
              SameSensor, SameCourse, SameAllowances
<1>3. Orders(u, v)
  BY <1>2 DEF SameDisplay, SameTimer, SameCourse, SameAllowances, Orders, Timing, Lighting,
         TimeoutAllowed, TimeoutApplicationAllowed, Covered
<1>4. Discreet(u, v)
  BY <1>2 DEF calls, Discreet, Willing, SameCourse, SameAllowances
<1>5. Expires(v) => Expires(u)
  BY <1>2 DEF Expires, SameSensor, SameCourse, SameAllowances
<1> QED BY <1>2, <1>3, <1>4, <1>5 DEF Serves, u, CallHolds, SameSensor

\* The suspend alarm.
LEMMA HandleSuspendAlarmServes ==
  ASSUME NEW v, Sound(v)
  PROVE  Serves(HandleSuspendAlarm(v), v)
<1> DEFINE c == [v EXCEPT !.suspendAlarm = NoAlarm]
<1>1. /\ SameDisplay(c, v) /\ SameTimer(c, v) /\ SameSensor(c, v) /\ SameCourse(c, v)
      /\ c.calls = v.calls /\ Sound(c)
  BY OptionsAssumption
     DEF Ticks, Sound, WorldOK, MachineOK, PortsOK, SameSensor, SameCourse,
         SameTimer, SameDisplay, SameAllowances, WorldFields, MachineFields, PortFields
<1>2. HandleSuspendAlarm(v) = IF TimeoutApplicationAllowed(c) THEN SuspendWhenAllowed(c) ELSE c
  BY DEF HandleSuspendAlarm
<1> HIDE DEF c
<1>3. Serves(c, v)
  BY <1>1, ElsewhereServes
<1>4. Serves(SuspendWhenAllowed(c), c)
  BY <1>1, SuspendWhenAllowedServes
<1>5. Serves(SuspendWhenAllowed(c), v)
  BY <1>3, <1>4, ServesChains
<1> QED BY <1>2, <1>3, <1>5

\* The proximity alarm takes its enablement with it.
LEMMA HandleProximityDisableAlarmServes ==
  ASSUME NEW v, Sound(v)
  PROVE  Serves(HandleProximityDisableAlarm(v), v)
<1> DEFINE c == [v EXCEPT !.proximityAlarm = NoAlarm]
           e == "until_far_event_or_timeout"
           u == DisableProximity(c, e)
<1>1. /\ SameDisplay(c, v) /\ SameTimer(c, v) /\ SameCourse(c, v)
      /\ c.calls = v.calls /\ Sound(c)
      /\ c.notificationAlarm = v.notificationAlarm
      /\ c.proximityEnablements = v.proximityEnablements
  BY OptionsAssumption
     DEF Ticks, Sound, WorldOK, MachineOK, PortsOK, SameCourse,
         SameTimer, SameDisplay, SameAllowances, WorldFields, MachineFields, PortFields
<1> HIDE DEF c
<1>2. /\ Serves(u, c) /\ SameCourse(u, c)
      /\ u.notificationAlarm = c.notificationAlarm
      /\ u.proximityEnablements = c.proximityEnablements \ {e}
  BY <1>1, DisableProximityDoes DEF Enablements
<1>3. HandleProximityDisableAlarm(v) = u
  BY DEF HandleProximityDisableAlarm, c
<1> HIDE DEF u
<1>4. Orders(u, v) /\ Discreet(u, v)
  BY <1>1, <1>2, ElsewhereIsOrderly, OrdersChains, DiscreetChains DEF Serves
<1>5. Expires(v) => Expires(u)
  BY <1>1, <1>2 DEF Expires, SameCourse, SameAllowances
<1> QED BY <1>1, <1>2, <1>3, <1>4, <1>5 DEF Serves, CallHolds

\* The expiration alarm ends what notifications left behind, before it is gone.
LEMMA HandleNotificationExpirationAlarmServes ==
  ASSUME NEW v, Sound(v)
  PROVE  Serves(HandleNotificationExpirationAlarm(v), v)
<1> DEFINE c == [v EXCEPT !.notificationAlarm = NoAlarm]
           s == IF c.mode = "on" THEN ScheduleImmediateAlarm(c) ELSE c
           a == AllowTimeout(s, "notification")
           e == "until_far_event_or_notification_expiration"
           u == DisableProximity(a, e)
<1>1. /\ SameDisplay(c, v) /\ SameTimer(c, v) /\ SameCourse(c, v)
      /\ c.calls = v.calls /\ Sound(c)
      /\ c.notificationAlarm = NoAlarm
      /\ c.proximityEnablements = v.proximityEnablements
      /\ c.proximityAlarm = v.proximityAlarm
  BY OptionsAssumption
     DEF Ticks, Sound, WorldOK, MachineOK, PortsOK, SameCourse,
         SameTimer, SameDisplay, SameAllowances, WorldFields, MachineFields, PortFields
<1>2. HandleNotificationExpirationAlarm(v) = u
  BY DEF HandleNotificationExpirationAlarm
<1>3. Lifts(u, v, "notification")
  BY <1>2, HandleNotificationExpirationAlarmLifts
<1> HIDE DEF c
<1>4. Tidy(s, c) /\ Sound(s)
  <2>1. CASE c.mode = "on"
    BY <1>1, <2>1, ExtendDisplayOffAlarmTidy, ScheduleImmediateAlarmKeeps, OptionsAssumption
       DEF ScheduleImmediateAlarm, Keeps
  <2>2. CASE c.mode # "on"
    BY <1>1, <2>2, NothingIsTidy
  <2> QED BY <2>1, <2>2
<1> HIDE DEF s
<1>5. Tidy(a, s) /\ Sound(a)
  BY <1>4, AllowTimeoutDoes, AllowTimeoutLifts DEF Lifts, Allowances
<1>6. Tidy(a, c)
  BY <1>4, <1>5, TidyChains
<1> HIDE DEF a
<1>7. /\ Serves(u, a)
      /\ u.notificationAlarm = a.notificationAlarm
      /\ u.proximityAlarm = a.proximityAlarm
      /\ u.proximityEnablements = a.proximityEnablements \ {e}
  BY <1>5, DisableProximityDoes DEF Enablements
<1> HIDE DEF u
<1>8. Orders(u, v) /\ Discreet(u, v)
  <2>1. Orders(c, v) /\ Discreet(c, v)
    BY <1>1, ElsewhereIsOrderly
  <2>2. Orders(u, c) /\ Discreet(u, c)
    BY <1>6, <1>7, OrdersChains, DiscreetChains DEF Tidy, Serves
  <2> QED BY <2>1, <2>2, OrdersChains, DiscreetChains
<1>9. Expires(v) => Expires(u)
  BY <1>1, <1>3, <1>6, <1>7 DEF Expires, Tidy, SameSensor, Lifts
<1>10. Serves(u, v)
  BY <1>1, <1>6, <1>7, <1>8, <1>9 DEF Serves, Tidy, SameSensor, CallHolds
<1> QED BY <1>2, <1>10

-----------------------------------------------------------------------------
\* handle_active_call: it leaves everything in order, and an enablement that only
\* the end of the call takes away.
LEMMA HandleActiveCallOrders ==
  ASSUME NEW v, Sound(v)
  PROVE  LET u == HandleActiveCall(v)
         IN Orders(u, v) /\ Discreet(u, v) /\ (Expires(v) => Expires(u))
<1> DEFINE b == BrightenDisplay(v)
           d == IF v.mode = "on" THEN ScheduleNormalAlarm(b)
                ELSE IF v.near THEN v
                ELSE TurnOnDisplayWithNormalTimeout(v, "call")
           u == EnableProximity(d, "until_disabled")
<1>1. Keeps(d, v) /\ Tidy(d, v)
  <2>1. CASE v.mode = "on"
    <3>1. Tidy(b, v) /\ b.mode = "on" /\ Keeps(b, v)
      BY <2>1, BrightenDisplayTidy, BrightenDisplayKeeps
    <3> HIDE DEF b
    <3>2. Tidy(ScheduleNormalAlarm(b), b) /\ Keeps(ScheduleNormalAlarm(b), b)
      BY <3>1, ScheduleNormalAlarmTidy, ScheduleNormalAlarmKeeps DEF Keeps
    <3>3. Tidy(ScheduleNormalAlarm(b), v)
      BY <3>1, <3>2, TidyChains
    <3>4. Keeps(ScheduleNormalAlarm(b), v)
      BY <3>1, <3>2 DEF Keeps, SensorKept, SameIds, SameAllowances
    <3> QED BY <2>1, <3>3, <3>4
  <2>2. CASE v.mode # "on" /\ v.near
    <3>1. Keeps(v, v)
      BY DEF Keeps, SensorKept, SameIds, SameAllowances
    <3> QED BY <2>2, <3>1, NothingIsTidy
  <2>3. CASE v.mode # "on" /\ ~v.near
    <3>1. "call" \in Reasons
      BY DEF Reasons
    <3> QED BY <2>3, <3>1, TurnOnDisplayWithNormalTimeoutTidy, TurnOnDisplayWithNormalTimeoutKeeps
  <2> QED BY <2>1, <2>2, <2>3
<1>2. HandleActiveCall(v) = u
  BY DEF HandleActiveCall
<1> HIDE DEF d
<1>3. Serves(d, v) /\ Sound(d)
  BY <1>1, TidyServes DEF Keeps
<1>4. /\ Orders(u, d) /\ Discreet(u, d) /\ SameCourse(u, d)
      /\ u.notificationAlarm = d.notificationAlarm
      /\ u.proximityAlarm = d.proximityAlarm
      /\ u.proximityEnablements = d.proximityEnablements \cup {"until_disabled"}
  BY <1>3, EnableProximityDoes DEF Enablements
<1> HIDE DEF u
<1>5. Expires(v) => Expires(u)
  BY <1>3, <1>4 DEF Serves, Expires, SameCourse, SameAllowances
<1>6. Orders(u, v) /\ Discreet(u, v)
  BY <1>3, <1>4, OrdersChains, DiscreetChains DEF Serves
<1> QED BY <1>2, <1>5, <1>6

\* handle_no_active_call: what it leaves to a far event has an alarm, and the call
\* holds the sensor no more.
LEMMA HandleNoActiveCallServes ==
  ASSUME NEW v, Sound(v)
  PROVE  Serves(HandleNoActiveCall(v), v) /\ ~CallHolds(HandleNoActiveCall(v))
<1> DEFINE b == BrightenDisplay(v)
           p == EnableProximity(v, "until_far_event_or_timeout")
           s == ScheduleProximityDisableAlarm(p)
           d == IF v.mode = "on" THEN ScheduleReducedAlarm(b)
                ELSE IF ~v.near THEN TurnOnDisplayWithReducedTimeout(v, "call_done")
                ELSE s
           u == DisableProximity(d, "until_disabled")
<1>1. CASE v.mode = "on"
  <2>1. Tidy(b, v) /\ b.mode = "on" /\ Keeps(b, v)
    BY <1>1, BrightenDisplayTidy, BrightenDisplayKeeps
  <2> HIDE DEF b
  <2>2. Tidy(ScheduleReducedAlarm(b), b) /\ Keeps(ScheduleReducedAlarm(b), b)
    BY <2>1, ExtendDisplayOffAlarmTidy, ScheduleReducedAlarmKeeps, OptionsAssumption
       DEF Keeps, ScheduleReducedAlarm
  <2>3. Serves(ScheduleReducedAlarm(b), v) /\ Sound(ScheduleReducedAlarm(b))
    BY <2>1, <2>2, TidyServes, ServesChains DEF Keeps
  <2>4. d = ScheduleReducedAlarm(b)
    BY <1>1
  <2> HIDE DEF d
  <2>5. Serves(u, d) /\ ~CallHolds(u)
    BY <2>3, <2>4, DisableProximityDoes DEF Enablements, CallHolds
  <2>6. HandleNoActiveCall(v) = u
    BY DEF HandleNoActiveCall, d, b
  <2> QED BY <2>3, <2>4, <2>5, <2>6, ServesChains
<1>2. CASE v.mode # "on" /\ ~v.near
  <2>1. "call_done" \in Reasons
    BY DEF Reasons
  <2>2. Tidy(d, v) /\ Keeps(d, v)
    BY <1>2, <2>1, TurnOnDisplayWithReducedTimeoutTidy, TurnOnDisplayWithReducedTimeoutKeeps
  <2>3. HandleNoActiveCall(v) = u
    BY DEF HandleNoActiveCall
  <2> HIDE DEF d
  <2>4. Serves(d, v) /\ Sound(d)
    BY <2>2, TidyServes DEF Keeps
  <2>5. Serves(u, d) /\ ~CallHolds(u)
    BY <2>4, DisableProximityDoes DEF Enablements, CallHolds
  <2> QED BY <2>3, <2>4, <2>5, ServesChains
<1>3. CASE v.mode # "on" /\ v.near
  <2>1. /\ Orders(p, v) /\ Discreet(p, v) /\ SameCourse(p, v)
        /\ p.notificationAlarm = v.notificationAlarm
        /\ p.proximityAlarm = v.proximityAlarm
        /\ p.proximityEnablements = v.proximityEnablements \cup {"until_far_event_or_timeout"}
        /\ Sound(p)
    BY EnableProximityDoes, EnableProximityKeeps DEF Enablements, Keeps
  <2> HIDE DEF p
  <2>2. Sound(s)
    BY <2>1, ScheduleProximityDisableAlarmKeeps DEF Keeps
  <2> DEFINE k == Delay(ReducedTimeout)
  <2>3. k # NoAlarm
    BY OptionsAssumption, DelayRangeLemma
  <2>4. s = [p EXCEPT !.proximityAlarm = k]
    BY DEF ScheduleProximityDisableAlarm
  <2> HIDE DEF s, k
  <2>5. /\ SameDisplay(s, p) /\ SameTimer(s, p) /\ SameCourse(s, p) /\ s.calls = p.calls
        /\ s.notificationAlarm = p.notificationAlarm
        /\ s.proximityAlarm = k
        /\ s.proximityEnablements = p.proximityEnablements
    BY <2>1, <2>4 DEF Sound, WorldOK, SameCourse,
         SameTimer, SameDisplay, SameAllowances, WorldFields, MachineFields, PortFields
  <2>6. Orders(s, v) /\ Discreet(s, v)
    BY <2>1, <2>5, ElsewhereIsOrderly, OrdersChains, DiscreetChains
  <2>7. Expires(v) => Expires(s)
    BY <2>1, <2>3, <2>5 DEF Expires, SameCourse, SameAllowances
  <2>8. Serves(s, v)
    BY <2>1, <2>5, <2>6, <2>7 DEF Serves, CallHolds
  <2>9. /\ Serves(DisableProximity(s, "until_disabled"), s)
        /\ ~CallHolds(DisableProximity(s, "until_disabled"))
    BY <2>2, DisableProximityDoes DEF Enablements, CallHolds
  <2>10. HandleNoActiveCall(v) = DisableProximity(s, "until_disabled")
    BY <1>3 DEF HandleNoActiveCall, s, p
  <2> QED BY <2>8, <2>9, <2>10, ServesChains
<1> QED BY <1>1, <1>2, <1>3

-----------------------------------------------------------------------------
\* disallow_inactivity_timeout touches the allowances alone.
LEMMA DisallowTimeoutDoes ==
  ASSUME NEW v, Sound(v), NEW a \in Allowances
  PROVE  LET d == DisallowTimeout(v, a)
         IN /\ SameDisplay(d, v) /\ SameTimer(d, v) /\ SameSensor(d, v) /\ d.calls = v.calls
            /\ d.paused = v.paused /\ d.defaultHandlers = v.defaultHandlers
            /\ d.lidClosed = v.lidClosed /\ d.offTimeout = v.offTimeout
            /\ d.suspendAllowed = v.suspendAllowed
            /\ d.disallowedTimeouts = v.disallowedTimeouts \cup {a}
            /\ Sound(d) /\ ~TimeoutAllowed(d)
<1> DEFINE d == DisallowTimeout(v, a)
<1>1. Sound(d)
  BY DisallowTimeoutHolds DEF Holds
<1> QED BY <1>1 DEF DisallowTimeout, Sound, WorldOK, WorldFields, MachineFields, PortFields,
                    SameDisplay, SameTimer, SameSensor, TimeoutAllowed

\* A display that a client or a notification keeps on is lit.
LEMMA KeepOnDoes ==
  ASSUME NEW v, Sound(v), NEW a \in Allowances, NEW reason \in Reasons
  PROVE  LET d == DisallowTimeout(v, a)
             u == IF d.mode = "on" THEN BrightenDisplay(d)
                  ELSE TurnOnDisplayWithoutTimeout(d, reason)
         IN /\ Orders(u, v) /\ Discreet(u, v) /\ SameSensor(u, v)
            /\ u.disallowedTimeouts = v.disallowedTimeouts \cup {a}
            /\ Sound(u)
<1> DEFINE d == DisallowTimeout(v, a)
           u == IF d.mode = "on" THEN BrightenDisplay(d)
                ELSE TurnOnDisplayWithoutTimeout(d, reason)
<1>1. /\ SameDisplay(d, v) /\ SameTimer(d, v) /\ SameSensor(d, v) /\ d.calls = v.calls
      /\ d.paused = v.paused /\ d.defaultHandlers = v.defaultHandlers
      /\ d.lidClosed = v.lidClosed /\ d.offTimeout = v.offTimeout
      /\ d.suspendAllowed = v.suspendAllowed
      /\ d.disallowedTimeouts = v.disallowedTimeouts \cup {a}
      /\ Sound(d) /\ ~TimeoutAllowed(d)
  BY DisallowTimeoutDoes
<1> HIDE DEF d
<1>2. Sound(u)
  BY <1>1, BrightenDisplayKeeps, TurnOnDisplayWithoutTimeoutKeeps DEF Keeps
<1>3. /\ SameTimer(u, d) /\ SameSensor(u, d) /\ SameCourse(u, d)
      /\ u.calls \subseteq d.calls \cup {"notify_display_on"}
      /\ d.paused => u = d
  BY <1>1, BrightenDisplayDoes, TurnOnDisplayWithoutTimeoutDoes
<1>4. d.mode = "on" =>
        /\ u.mode = "on" /\ u.modem = d.modem /\ (~d.paused => u.backlight = "normal")
        /\ u.internalPanel = d.internalPanel /\ u.externalPanel = d.externalPanel
  BY <1>1, BrightenDisplayDoes
<1>5. d.mode # "on" /\ ~d.paused =>
        /\ u.mode = "on" /\ u.externalPanel = "on" /\ u.modem = "normal"
        /\ ~d.lidClosed => u.internalPanel = "on" /\ u.backlight = "normal"
        /\ d.lidClosed => u.internalPanel = d.internalPanel
  BY <1>1, TurnOnDisplayWithoutTimeoutDoes
<1> HIDE DEF u
<1>6. Timing(v) => Timing(u)
  BY <1>1, <1>3 DEF Timing, SameTimer, SameCourse
<1>7. ASSUME Lighting(v) PROVE Lighting(u)
  <2>1. CASE v.paused
    BY <1>1, <1>3, <1>7, <2>1 DEF Lighting, SameDisplay, SameCourse
  <2>2. ~TimeoutAllowed(u)
    BY <1>1, <1>3 DEF TimeoutAllowed, SameCourse, SameAllowances
  <2>3. CASE ~v.paused /\ d.mode = "on"
    BY <1>1, <1>3, <1>4, <1>7, <2>2, <2>3 DEF Lighting, SameDisplay, SameCourse
  <2>4. CASE ~v.paused /\ d.mode # "on"
    BY <1>1, <1>3, <1>5, <1>7, <2>2, <2>4 DEF Lighting, SameDisplay, SameCourse
  <2> QED BY <2>1, <2>3, <2>4
<1>8. Discreet(u, v)
  BY <1>1, <1>3 DEF Discreet, Willing, SameCourse, SameAllowances, SameDisplay
<1>9. SameSensor(u, v) /\ u.disallowedTimeouts = v.disallowedTimeouts \cup {a}
  BY <1>1, <1>3 DEF SameCourse, SameAllowances, SameSensor
<1>10. Covered(v) => Covered(u)
  <2>1. u.lidClosed = v.lidClosed
    BY <1>1, <1>3 DEF SameCourse
  <2>2. v.lidClosed => u.internalPanel = v.internalPanel
    <3>1. d.lidClosed = v.lidClosed /\ d.internalPanel = v.internalPanel
      BY <1>1 DEF SameDisplay
    <3>2. CASE d.paused
      BY <1>3, <3>1, <3>2
    <3>3. CASE ~d.paused
      BY <1>4, <1>5, <3>1, <3>3
    <3> QED BY <3>2, <3>3
  <2> QED BY <2>1, <2>2 DEF Covered
<1> QED BY <1>10, <1>2, <1>6, <1>7, <1>8, <1>9 DEF Orders, u, d

\* handle_disable_inactivity_timeout.
LEMMA HandleDisableInactivityTimeoutServes ==
  ASSUME NEW v, Sound(v)
  PROVE  Serves(HandleDisableInactivityTimeout(v), v)
<1> DEFINE u == HandleDisableInactivityTimeout(v)
<1>1. /\ Orders(u, v) /\ Discreet(u, v) /\ SameSensor(u, v)
      /\ u.disallowedTimeouts = v.disallowedTimeouts \cup {"client"}
  BY KeepOnDoes DEF HandleDisableInactivityTimeout, Allowances, Reasons
<1> HIDE DEF u
<1>2. Expires(v) => Expires(u)
  BY <1>1 DEF Expires, SameSensor
<1> QED BY <1>1, <1>2 DEF Serves, u, SameSensor, CallHolds

\* handle_set_inactivity_behavior: a timeout that fits leaves the timer in order;
\* no other matters to the rest.
LEMMA HandleSetInactivityBehaviorServes ==
  ASSUME NEW v, Sound(v), NEW action, NEW supply \in Supplies, NEW t \in TimeoutRange
  PROVE  LET u == HandleSetInactivityBehavior(v, action, supply, t)
         IN /\ Fits(t) => Serves(u, v)
            /\ Discreet(u, v) /\ (Expires(v) => Expires(u)) /\ (CallHolds(u) => CallHolds(v))
<1> DEFINE off == [v.offTimeout EXCEPT ![supply] = t]
           susp == [v.suspendTimeout EXCEPT ![supply] = t]
           d == IF action = "display_off" THEN [v EXCEPT !.offTimeout = off]
                ELSE [v EXCEPT !.suspendTimeout = susp]
           s == IF d.timeoutType = "normal" /\ d.supply = supply THEN ScheduleNormalAlarm(d) ELSE d
           u == HandleSetInactivityBehavior(v, action, supply, t)
<1>1. u = IF t <= 0 \/ action \notin {"display_off", "suspend"} THEN v ELSE s
  BY DEF HandleSetInactivityBehavior
<1>2. off \in [Supplies -> TimeoutRange] /\ susp \in [Supplies -> TimeoutRange]
  BY DEF Sound, WorldOK, MachineOK
<1>3. \A r \in Supplies : off[r] = IF r = supply THEN t ELSE v.offTimeout[r]
  BY DEF Sound, WorldOK, MachineOK
<1> HIDE DEF u, off, susp
<1>4. /\ SameDisplay(d, v) /\ SameTimer(d, v) /\ SameSensor(d, v) /\ SameAllowances(d, v)
      /\ d.paused = v.paused /\ d.defaultHandlers = v.defaultHandlers
      /\ d.lidClosed = v.lidClosed /\ d.calls = v.calls
      /\ d.offTimeout \in {off, v.offTimeout}
      /\ Sound(d)
  BY <1>2
     DEF Sound, WorldOK, MachineOK, PortsOK, SameTimer, SameDisplay, SameSensor,
         SameAllowances, WorldFields, MachineFields, PortFields
<1> HIDE DEF d
<1>5. Discreet(d, v)
  BY <1>4 DEF Discreet, Willing, SameAllowances
<1>6. ASSUME Fits(t) PROVE Orders(d, v)
  <2>1. Timing(v) => \A r \in Supplies : Fits(d.offTimeout[r])
    BY <1>3, <1>4, <1>6 DEF Timing
  <2>2. Timing(v) => Timing(d)
    BY <1>4, <2>1 DEF Timing, SameTimer
  <2>3. Lighting(v) => Lighting(d)
    BY <1>4 DEF Lighting, SameDisplay, SameTimer, SameAllowances, TimeoutAllowed,
                TimeoutApplicationAllowed
  <2> QED BY <1>4, <2>2, <2>3 DEF Orders, Covered, SameDisplay
<1>7. Expires(v) => Expires(d)
  BY <1>4 DEF Expires, SameAllowances, SameSensor
<1>8. Serves(s, d)
  <2>1. CASE d.timeoutType = "normal" /\ d.supply = supply
    <3>1. Serves(ScheduleNormalAlarm(d), d)
      BY <1>4, <2>1, ScheduleNormalAlarmTidy, ScheduleNormalAlarmKeeps, TidyServes
    <3> QED BY <2>1, <3>1
  <2>2. CASE ~(d.timeoutType = "normal" /\ d.supply = supply)
    <3>1. s = d
      BY <2>2
    <3> QED BY <3>1, NothingIsTidy
  <2> QED BY <2>1, <2>2
<1> HIDE DEF s
<1>9. Discreet(s, v) /\ (Expires(v) => Expires(s)) /\ (CallHolds(s) => CallHolds(v))
  BY <1>4, <1>5, <1>7, <1>8, DiscreetChains DEF Serves, SameSensor, CallHolds
<1>10. Fits(t) => Serves(s, v)
  BY <1>6, <1>8, <1>9, OrdersChains DEF Serves
<1>11. Serves(v, v)
  BY NothingIsTidy
<1>12. CASE u = v
  BY <1>11, <1>12 DEF u, Serves
<1>13. CASE u = s
  BY <1>9, <1>10, <1>13 DEF u
<1> QED BY <1>1, <1>12, <1>13

\* The settings of lid, critical battery and brightness concern neither display
\* nor timer.
LEMMA SettingsServe ==
  ASSUME NEW v, Sound(v)
  PROVE  /\ \A action, supply : Serves(HandleSetLidBehavior(v, action, supply), v)
         /\ \A action : Serves(HandleSetCriticalPowerBehavior(v, action), v)
         /\ \A value : Serves(HandleSetNormalBrightnessValue(v, value), v)
         /\ Serves(HandleEnableAutobrightness(v), v)
         /\ Serves(HandleDisableAutobrightness(v), v)
<1>1. ASSUME NEW action, NEW supply
      PROVE  Serves(HandleSetLidBehavior(v, action, supply), v)
  <2> DEFINE u == HandleSetLidBehavior(v, action, supply)
             a == [v.lidAction EXCEPT ![supply] = action]
  <2>1. u = IF action \in LidActions THEN [v EXCEPT !.lidAction = a] ELSE v
    BY DEF HandleSetLidBehavior
  <2> HIDE DEF u, a
  <2>2. SameDisplay(u, v) /\ SameTimer(u, v) /\ SameCourse(u, v) /\ SameSensor(u, v)
        /\ u.calls = v.calls
    BY <2>1 DEF Sound, WorldOK, WorldFields, MachineFields, PortFields, SameDisplay, SameTimer,
                SameSensor, SameCourse, SameAllowances
  <2> QED BY <2>2, ElsewhereServes DEF u
<1>2. ASSUME NEW action
      PROVE  Serves(HandleSetCriticalPowerBehavior(v, action), v)
  <2> DEFINE u == HandleSetCriticalPowerBehavior(v, action)
  <2>1. SameDisplay(u, v) /\ SameTimer(u, v) /\ SameCourse(u, v) /\ SameSensor(u, v)
        /\ u.calls = v.calls
    BY DEF HandleSetCriticalPowerBehavior, Sound, WorldOK, WorldFields, MachineFields,
           PortFields, SameDisplay, SameTimer, SameSensor, SameCourse, SameAllowances
  <2> QED BY <2>1, ElsewhereServes
<1>3. ASSUME NEW value
      PROVE  Serves(HandleSetNormalBrightnessValue(v, value), v)
  <2> DEFINE u == HandleSetNormalBrightnessValue(v, value)
  <2>1. SameDisplay(u, v) /\ SameTimer(u, v) /\ SameCourse(u, v) /\ SameSensor(u, v)
        /\ u.calls = v.calls
    BY DEF HandleSetNormalBrightnessValue, Sound, WorldOK, WorldFields, MachineFields,
           PortFields, SameDisplay, SameTimer, SameSensor, SameCourse, SameAllowances
  <2> QED BY <2>1, ElsewhereServes
<1>4. Serves(HandleEnableAutobrightness(v), v)
  <2> DEFINE u == HandleEnableAutobrightness(v)
             ab == v.abActive \/ ~v.paused
  <2>1. u = [v EXCEPT !.autobrightness = TRUE, !.abActive = ab]
    BY DEF HandleEnableAutobrightness
  <2> HIDE DEF u, ab
  <2>2. SameDisplay(u, v) /\ SameTimer(u, v) /\ SameCourse(u, v) /\ SameSensor(u, v)
        /\ u.calls = v.calls
    BY <2>1 DEF Sound, WorldOK, WorldFields, MachineFields,
           PortFields, SameDisplay, SameTimer, SameSensor, SameCourse, SameAllowances
  <2> QED BY <2>2, ElsewhereServes DEF u
<1>5. Serves(HandleDisableAutobrightness(v), v)
  <2> DEFINE u == HandleDisableAutobrightness(v)
             ab == v.abActive /\ v.paused
  <2>1. u = [v EXCEPT !.autobrightness = FALSE, !.abActive = ab]
    BY DEF HandleDisableAutobrightness
  <2> HIDE DEF u, ab
  <2>2. SameDisplay(u, v) /\ SameTimer(u, v) /\ SameCourse(u, v) /\ SameSensor(u, v)
        /\ u.calls = v.calls
    BY <2>1 DEF Sound, WorldOK, WorldFields, MachineFields,
           PortFields, SameDisplay, SameTimer, SameSensor, SameCourse, SameAllowances
  <2> QED BY <2>2, ElsewhereServes DEF u
<1> QED BY <1>1, <1>2, <1>3, <1>4, <1>5

\* handle_allow_suspend: what waited for the clients may go on.
LEMMA HandleAllowSuspendServes ==
  ASSUME NEW v, Sound(v)
  PROVE  Serves(HandleAllowSuspend(v), v)
<1> DEFINE lock == v.wakeLock /\ (v.mode = "on" \/ v.reason = "proximity")
           d == [v EXCEPT !.suspendAllowed = TRUE, !.wakeLock = lock]
           u == HandleAllowSuspend(v)
<1>1. u = IF d.suspendPending THEN SuspendWhenAllowed(d) ELSE d
  BY DEF HandleAllowSuspend
<1>2. lock \in BOOLEAN
  OBVIOUS
<1> HIDE DEF u, lock
<1>3. /\ SameDisplay(d, v) /\ SameTimer(d, v) /\ SameSensor(d, v) /\ d.calls = v.calls
      /\ d.paused = v.paused /\ d.defaultHandlers = v.defaultHandlers
      /\ d.lidClosed = v.lidClosed /\ d.offTimeout = v.offTimeout
      /\ d.suspendAllowed /\ d.disallowedTimeouts = v.disallowedTimeouts
      /\ Sound(d)
  BY <1>2
     DEF Sound, WorldOK, MachineOK, PortsOK, SameTimer, SameDisplay, SameSensor,
         WorldFields, MachineFields, PortFields
<1> HIDE DEF d
<1>4. Serves(d, v)
  BY <1>3 DEF Serves, Orders, Discreet, Willing, Expires, Timing, Lighting, SameTimer, SameDisplay,
              SameSensor, TimeoutAllowed, TimeoutApplicationAllowed, Covered, CallHolds
<1>5. Serves(SuspendWhenAllowed(d), v)
  BY <1>3, <1>4, SuspendWhenAllowedServes, ServesChains
<1> QED BY <1>1, <1>4, <1>5 DEF u

\* handle_disallow_suspend: a system that is not being suspended is not.
LEMMA HandleDisallowSuspendServes ==
  ASSUME NEW v, Sound(v)
  PROVE  LET u == HandleDisallowSuspend(v)
         IN /\ Orders(u, v) /\ SameDisplay(u, v) /\ SameSensor(u, v) /\ u.calls = v.calls
            /\ u.paused = v.paused /\ u.defaultHandlers = v.defaultHandlers
            /\ "suspend" \notin v.calls => Serves(u, v)
<1> DEFINE u == HandleDisallowSuspend(v)
<1>1. /\ SameDisplay(u, v) /\ SameTimer(u, v) /\ SameSensor(u, v) /\ u.calls = v.calls
      /\ u.paused = v.paused /\ u.defaultHandlers = v.defaultHandlers
      /\ u.lidClosed = v.lidClosed /\ u.offTimeout = v.offTimeout
      /\ u.disallowedTimeouts = v.disallowedTimeouts
  BY DEF HandleDisallowSuspend, Sound, WorldOK, SameTimer, SameDisplay, SameSensor,
         WorldFields, MachineFields, PortFields
<1> HIDE DEF u
<1>2. Orders(u, v)
  BY <1>1 DEF Orders, Timing, Lighting, Covered, SameTimer, SameDisplay,
              TimeoutAllowed, TimeoutApplicationAllowed
<1>3. "suspend" \notin v.calls => Serves(u, v)
  BY <1>1, <1>2 DEF Serves, Discreet, Willing, Expires, SameSensor, CallHolds
<1> QED BY <1>1, <1>2, <1>3 DEF u

\* handle_turn_on_display and handle_turn_off_display.
LEMMA DisplayRequestsServe ==
  ASSUME NEW v, Sound(v)
  PROVE  Serves(HandleTurnOnDisplay(v), v) /\ Serves(HandleTurnOffDisplay(v), v)
<1>1. "power_button" \in Reasons
  BY DEF Reasons
<1> QED BY <1>1, TurnOnDisplayWithNormalTimeoutTidy, TurnOnDisplayWithNormalTimeoutKeeps,
           TurnOffDisplayTidy, TurnOffDisplayKeeps, TidyServes
        DEF HandleTurnOnDisplay, HandleTurnOffDisplay

-----------------------------------------------------------------------------
\* handle_notification: what a notification holds has an expiration alarm.
LEMMA HandleNotificationServes ==
  ASSUME NEW v, Sound(v)
  PROVE  Serves(HandleNotification(v), v)
<1> DEFINE a == "notification"
           e == "until_far_event_or_notification_expiration"
           d == DisallowTimeout(v, a)
           x == IF d.mode = "on" THEN BrightenDisplay(d)
                ELSE IF ~d.near THEN TurnOnDisplayWithoutTimeout(d, "notification")
                ELSE EnableProximity(d, e)
           u == HandleNotification(v)
<1>1. /\ Orders(x, v) /\ Discreet(x, v)
      /\ x.proximityAlarm = v.proximityAlarm
      /\ x.proximityEnablements \in {v.proximityEnablements, v.proximityEnablements \cup {e}}
      /\ x.disallowedTimeouts = v.disallowedTimeouts \cup {a}
      /\ Sound(x)
  <2>1. CASE d.mode = "on" \/ ~d.near
    <3> DEFINE y == IF d.mode = "on" THEN BrightenDisplay(d)
                    ELSE TurnOnDisplayWithoutTimeout(d, "notification")
    <3>1. a \in Allowances /\ "notification" \in Reasons
      BY DEF Allowances, Reasons
    <3>2. /\ Orders(y, v) /\ Discreet(y, v) /\ SameSensor(y, v)
          /\ y.disallowedTimeouts = v.disallowedTimeouts \cup {a}
          /\ Sound(y)
      BY <3>1, KeepOnDoes
    <3>3. x = y
      BY <2>1
    <3> HIDE DEF x, y
    <3> QED BY <3>2, <3>3 DEF SameSensor
  <2>2. CASE ~(d.mode = "on" \/ ~d.near)
    <3>1. /\ SameDisplay(d, v) /\ SameTimer(d, v) /\ SameSensor(d, v) /\ d.calls = v.calls
          /\ d.paused = v.paused /\ d.defaultHandlers = v.defaultHandlers
          /\ d.lidClosed = v.lidClosed /\ d.offTimeout = v.offTimeout
          /\ d.suspendAllowed = v.suspendAllowed
          /\ d.disallowedTimeouts = v.disallowedTimeouts \cup {a}
          /\ Sound(d) /\ ~TimeoutAllowed(d)
      BY DisallowTimeoutDoes DEF Allowances
    <3> DEFINE p == EnableProximity(d, e)
    <3> HIDE DEF d
    <3>2. /\ Orders(p, d) /\ Discreet(p, d) /\ SameCourse(p, d)
          /\ p.proximityAlarm = d.proximityAlarm
          /\ p.proximityEnablements = d.proximityEnablements \cup {e}
          /\ Sound(p)
      BY <3>1, EnableProximityDoes, EnableProximityKeeps DEF Enablements, Keeps
    <3> HIDE DEF p
    <3>3. v.mode = "off"
      BY <2>2, <3>1 DEF Sound, WorldOK, MachineOK, DisplayModes, SameDisplay
    <3>4. Orders(d, v)
      BY <3>1, <3>3 DEF Orders, Timing, Lighting, SameTimer, SameDisplay, Covered
    <3>5. Discreet(d, v)
      BY <3>1 DEF Discreet, Willing
    <3>6. Orders(p, v) /\ Discreet(p, v)
      BY <3>2, <3>4, <3>5, OrdersChains, DiscreetChains
    <3>7. x = p
      BY <2>2 DEF p
    <3> HIDE DEF x
    <3> QED BY <3>1, <3>2, <3>6, <3>7 DEF SameCourse, SameAllowances, SameSensor
  <2> QED BY <2>1, <2>2
<1>2. u = ScheduleNotificationExpirationAlarm(x)
  BY DEF HandleNotification
<1> HIDE DEF x, u
<1> DEFINE s == x.offTimeout[x.supply]
           m == Delay(IF s < NotificationExpiration THEN s ELSE NotificationExpiration)
<1>3. m # NoAlarm
  <2>1. s \in Int
    BY <1>1 DEF Sound, WorldOK, MachineOK, TimeoutRange
  <2> QED BY <2>1, DelayRangeLemma, OptionsAssumption
<1>4. u = [x EXCEPT !.notificationAlarm = m]
  BY <1>2 DEF ScheduleNotificationExpirationAlarm
<1> HIDE DEF m
<1>5. /\ SameDisplay(u, x) /\ SameTimer(u, x) /\ SameCourse(u, x) /\ u.calls = x.calls
      /\ u.notificationAlarm = m
      /\ u.proximityAlarm = x.proximityAlarm
      /\ u.proximityEnablements = x.proximityEnablements
  BY <1>1, <1>4 DEF Sound, WorldOK, SameCourse, SameTimer, SameDisplay, SameAllowances,
                    WorldFields, MachineFields, PortFields
<1>6. Orders(u, v) /\ Discreet(u, v)
  BY <1>1, <1>5, ElsewhereIsOrderly, OrdersChains, DiscreetChains
<1>7. Expires(v) => Expires(u)
  BY <1>1, <1>3, <1>5 DEF Expires, SameCourse, SameAllowances
<1> QED BY <1>1, <1>5, <1>6, <1>7 DEF Serves, u, CallHolds

\* handle_no_notification: the alarm goes with what it was for.
LEMMA HandleNoNotificationServes ==
  ASSUME NEW v, Sound(v)
  PROVE  Serves(HandleNoNotification(v), v)
<1> DEFINE s == IF v.mode = "on" THEN SchedulePostNotificationAlarm(v) ELSE v
           a == AllowTimeout(s, "notification")
           e == "until_far_event_or_notification_expiration"
           p == DisableProximity(a, e)
           u == HandleNoNotification(v)
<1>1. Tidy(s, v) /\ Sound(s)
  <2>1. CASE v.mode = "on"
    BY <2>1, ExtendDisplayOffAlarmTidy, SchedulePostNotificationAlarmKeeps, OptionsAssumption
       DEF SchedulePostNotificationAlarm, Keeps
  <2>2. CASE v.mode # "on"
    BY <2>2, NothingIsTidy
  <2> QED BY <2>1, <2>2
<1>2. u = CancelNotificationExpirationAlarm(p)
  BY DEF HandleNoNotification
<1>3. Lifts(u, v, "notification")
  BY HandleNoNotificationLifts
<1> HIDE DEF s, u
<1>4. Tidy(a, s) /\ Sound(a)
  BY <1>1, AllowTimeoutDoes, AllowTimeoutLifts DEF Lifts, Allowances
<1>5. Tidy(a, v)
  BY <1>1, <1>4, TidyChains
<1> HIDE DEF a
<1>6. /\ Serves(p, a) /\ Sound(p)
      /\ p.proximityAlarm = a.proximityAlarm
      /\ p.proximityEnablements = a.proximityEnablements \ {e}
  BY <1>4, DisableProximityDoes, DisableProximityKeeps DEF Enablements, Keeps
<1> HIDE DEF p
<1>7. /\ SameDisplay(u, p) /\ SameTimer(u, p) /\ SameCourse(u, p) /\ u.calls = p.calls
      /\ u.notificationAlarm = NoAlarm
      /\ u.proximityAlarm = p.proximityAlarm
      /\ u.proximityEnablements = p.proximityEnablements
  BY <1>2, <1>6 DEF CancelNotificationExpirationAlarm, Sound, WorldOK, SameCourse, SameTimer,
                    SameDisplay, SameAllowances, WorldFields, MachineFields, PortFields
<1>8. Orders(u, p) /\ Discreet(u, p)
  BY <1>7, ElsewhereIsOrderly
<1>9. Orders(u, v) /\ Discreet(u, v)
  BY <1>5, <1>6, <1>8, OrdersChains, DiscreetChains DEF Tidy, Serves
<1>10. Expires(v) => Expires(u)
  BY <1>3, <1>5, <1>6, <1>7 DEF Expires, Tidy, SameSensor, Lifts
<1> QED BY <1>5, <1>6, <1>7, <1>9, <1>10 DEF Serves, u, Tidy, SameSensor, CallHolds

\* handle_power_button_press, in an active session.
LEMMA HandlePowerButtonPressServes ==
  ASSUME NEW v, Sound(v), ~v.paused
  PROVE  Serves(HandlePowerButtonPress(v), v)
<1> DEFINE c == [v EXCEPT !.modeAtPress = v.mode]
           d == IF c.mode = "off" THEN TurnOnDisplayWithNormalTimeout(c, "power_button")
                ELSE IF TreatPowerButtonAsUserActivity THEN ActivityWhileOn(c, "power_button")
                ELSE c
           k == Delay(LongPressTimeout)
           u == HandlePowerButtonPress(v)
<1>1. /\ SameDisplay(c, v) /\ SameTimer(c, v) /\ SameSensor(c, v) /\ SameCourse(c, v)
      /\ c.calls = v.calls /\ Sound(c)
  BY DEF Sound, WorldOK, MachineOK, PortsOK, SameSensor, SameCourse,
         SameTimer, SameDisplay, SameAllowances, WorldFields, MachineFields, PortFields
<1>2. u = [d EXCEPT !.longPressAlarm = k]
  BY DEF HandlePowerButtonPress
<1> HIDE DEF c, u
<1>3. Serves(c, v)
  BY <1>1, ElsewhereServes
<1>4. Serves(d, c) /\ Sound(d)
  <2>1. "power_button" \in Reasons /\ ~c.paused /\ c.mode \in {"on", "off"}
    BY <1>1 DEF Reasons, SameCourse, Sound, WorldOK, MachineOK, DisplayModes
  <2>2. CASE c.mode = "off"
    BY <1>1, <2>1, <2>2, TurnOnDisplayWithNormalTimeoutTidy, TurnOnDisplayWithNormalTimeoutKeeps,
       TidyServes DEF Keeps
  <2>3. CASE c.mode = "on" /\ TreatPowerButtonAsUserActivity
    BY <1>1, <2>1, <2>3, ActivityWhileOnTidy, ActivityWhileOnKeeps, TidyServes DEF Keeps
  <2>4. CASE c.mode = "on" /\ ~TreatPowerButtonAsUserActivity
    BY <1>1, <2>4, NothingIsTidy
  <2> QED BY <2>1, <2>2, <2>3, <2>4
<1> HIDE DEF d, k
<1>5. SameDisplay(u, d) /\ SameTimer(u, d) /\ SameSensor(u, d) /\ SameCourse(u, d)
      /\ u.calls = d.calls
  BY <1>2, <1>4 DEF Sound, WorldOK, SameSensor, SameCourse,
         SameTimer, SameDisplay, SameAllowances, WorldFields, MachineFields, PortFields
<1>6. Serves(u, d)
  BY <1>5, ElsewhereServes
<1>7. Serves(u, v)
  BY <1>3, <1>4, <1>6, ServesChains
<1> QED BY <1>7 DEF u

\* handle_power_button_release.
LEMMA HandlePowerButtonReleaseServes ==
  ASSUME NEW v, Sound(v)
  PROVE  Serves(HandlePowerButtonRelease(v), v)
<1> DEFINE short == /\ ~v.longPressDetected
                    /\ v.modeAtPress = "on"
                    /\ ~TreatPowerButtonAsUserActivity
           d == IF short THEN TurnOffDisplay(v, "power_button") ELSE v
           u == HandlePowerButtonRelease(v)
<1>1. u = [d EXCEPT !.longPressDetected = FALSE, !.modeAtPress = "unknown",
                    !.longPressAlarm = NoAlarm]
  BY DEF HandlePowerButtonRelease
<1> HIDE DEF u, short
<1>2. Serves(d, v) /\ Sound(d)
  <2>1. "power_button" \in Reasons
    BY DEF Reasons
  <2>2. Serves(v, v)
    BY NothingIsTidy
  <2>3. Serves(TurnOffDisplay(v, "power_button"), v) /\ Sound(TurnOffDisplay(v, "power_button"))
    BY <2>1, TurnOffDisplayTidy, TurnOffDisplayKeeps, TidyServes DEF Keeps
  <2> QED BY <2>2, <2>3
<1> HIDE DEF d
<1>3. SameDisplay(u, d) /\ SameTimer(u, d) /\ SameSensor(u, d) /\ SameCourse(u, d)
      /\ u.calls = d.calls
  BY <1>1, <1>2 DEF Sound, WorldOK, SameSensor, SameCourse,
         SameTimer, SameDisplay, SameAllowances, WorldFields, MachineFields, PortFields
<1>4. Serves(u, v)
  BY <1>2, <1>3, ElsewhereServes, ServesChains
<1> QED BY <1>4 DEF u

\* The user's activity, in an active session.
LEMMA UserActivityServes ==
  ASSUME NEW v, Sound(v), ~v.paused
  PROVE  Serves(HandleUserActivityChanging(v), v) /\ Serves(HandleUserActivityExtending(v), v)
<1>1. "activity" \in Reasons
  BY DEF Reasons
<1>2. Serves(v, v)
  BY NothingIsTidy
<1>3. v.mode = "on" => Serves(ActivityWhileOn(v, "activity"), v)
  BY <1>1, ActivityWhileOnTidy, ActivityWhileOnKeeps, TidyServes
<1>4. Serves(TurnOnDisplayWithNormalTimeout(v, "activity"), v)
  BY <1>1, TurnOnDisplayWithNormalTimeoutTidy, TurnOnDisplayWithNormalTimeoutKeeps, TidyServes
<1> QED BY <1>2, <1>3, <1>4 DEF HandleUserActivityChanging, HandleUserActivityExtending

\* handle_system_resume.
LEMMA HandleSystemResumeServes ==
  ASSUME NEW v, Sound(v)
  PROVE  Serves(HandleSystemResume(v), v)
<1>1. "activity" \in Reasons
  BY DEF Reasons
<1> QED BY <1>1, TurnOnDisplayWithNormalTimeoutTidy, TurnOnDisplayWithNormalTimeoutKeeps, TidyServes
        DEF HandleSystemResume

\* The proximity sensor's reports.
LEMMA HandleProximityNearServes ==
  ASSUME NEW v, Sound(v)
  PROVE  Serves(HandleProximityNear(v), v)
<1>1. "proximity" \in Reasons
  BY DEF Reasons
<1>2. v.mode = "on" => Serves(TurnOffDisplay(v, "proximity"), v)
  BY <1>1, TurnOffDisplayTidy, TurnOffDisplayKeeps, TidyServes
<1> QED BY <1>2, NothingIsTidy DEF HandleProximityNear

\* A far event ends both enablements that wait for it, and turns the display on.
LEMMA HandleProximityFarServes ==
  ASSUME NEW v, Sound(v)
  PROVE  Serves(HandleProximityFar(v), v)
<1> DEFINE d == DisableProximity(v, "until_far_event_or_notification_expiration")
           e == DisableProximity(d, "until_far_event_or_timeout")
<1>1. Serves(d, v) /\ Sound(d)
  BY DisableProximityDoes, DisableProximityKeeps DEF Enablements, Keeps
<1> HIDE DEF d
<1>2. Serves(e, v) /\ Sound(e)
  BY <1>1, DisableProximityDoes, DisableProximityKeeps, ServesChains DEF Enablements, Keeps
<1>3. HandleProximityFar(v) \in {e, TurnOnDisplayWithReducedTimeout(e, "proximity"),
                                 TurnOnDisplayWithNormalTimeout(e, "proximity")}
  BY DEF HandleProximityFar, d
<1> HIDE DEF e
<1>4. "proximity" \in Reasons
  BY DEF Reasons
<1>5. Serves(TurnOnDisplayWithReducedTimeout(e, "proximity"), v)
  BY <1>2, <1>4, TurnOnDisplayWithReducedTimeoutTidy, TurnOnDisplayWithReducedTimeoutKeeps,
     TidyServes, ServesChains
<1>6. Serves(TurnOnDisplayWithNormalTimeout(e, "proximity"), v)
  BY <1>2, <1>4, TurnOnDisplayWithNormalTimeoutTidy, TurnOnDisplayWithNormalTimeoutKeeps,
     TidyServes, ServesChains
<1> QED BY <1>2, <1>3, <1>5, <1>6

\* handle_power_source_change, in an active session.
LEMMA HandlePowerSourceChangeServes ==
  ASSUME NEW v, Sound(v), ~v.paused
  PROVE  Serves(HandlePowerSourceChange(v), v)
<1> DEFINE c == [v EXCEPT !.supply = v.powerSupply]
           d == IF c.mode = "on" THEN ActivityWhileOn(c, "activity")
                ELSE IF c.near THEN c
                ELSE TurnOnDisplayWithReducedTimeout(c, "notification")
           u == HandlePowerSourceChange(v)
<1>1. /\ SameDisplay(c, v) /\ SameTimer(c, v) /\ SameSensor(c, v) /\ SameCourse(c, v)
      /\ c.calls = v.calls /\ Sound(c)
  BY DEF Sound, WorldOK, MachineOK, PortsOK, SameSensor, SameCourse,
         SameTimer, SameDisplay, SameAllowances, WorldFields, MachineFields, PortFields
<1>2. u = ScheduleNormalSuspendAlarm(d)
  BY DEF HandlePowerSourceChange
<1> HIDE DEF c, u
<1>3. Serves(c, v)
  BY <1>1, ElsewhereServes
<1>4. Serves(d, c) /\ Sound(d)
  <2>1. "activity" \in Reasons /\ "notification" \in Reasons /\ ~c.paused
    BY <1>1 DEF Reasons, SameCourse
  <2>2. CASE c.mode = "on"
    BY <1>1, <2>1, <2>2, ActivityWhileOnTidy, ActivityWhileOnKeeps, TidyServes DEF Keeps
  <2>3. CASE c.mode # "on" /\ c.near
    BY <1>1, <2>3, NothingIsTidy
  <2>4. CASE c.mode # "on" /\ ~c.near
    BY <1>1, <2>1, <2>4, TurnOnDisplayWithReducedTimeoutTidy,
       TurnOnDisplayWithReducedTimeoutKeeps, TidyServes DEF Keeps
  <2> QED BY <2>2, <2>3, <2>4
<1> HIDE DEF d
<1>5. SameDisplay(u, d) /\ SameTimer(u, d) /\ SameSensor(u, d) /\ SameCourse(u, d)
      /\ u.calls = d.calls
  BY <1>2, <1>4 DEF ScheduleNormalSuspendAlarm, Sound, WorldOK, SameSensor, SameCourse,
         SameTimer, SameDisplay, SameAllowances, WorldFields, MachineFields, PortFields
<1>6. Serves(u, v)
  BY <1>3, <1>4, <1>5, ElsewhereServes, ServesChains
<1> QED BY <1>6 DEF u

-----------------------------------------------------------------------------
\* handle_power_source_critical and handle_lid_closed ask nobody before they
\* suspend; handle_lid_open, pause and resume are the active session's own.  All of
\* them leave timer, display and sensor in order.
LEMMA HandlePowerSourceCriticalOrders ==
  ASSUME NEW v, Sound(v)
  PROVE  LET u == HandlePowerSourceCritical(v)
         IN /\ Orders(u, v) /\ (Expires(v) => Expires(u)) /\ (CallHolds(u) => CallHolds(v))
            /\ u.paused = v.paused /\ u.defaultHandlers = v.defaultHandlers
<1> DEFINE u == HandlePowerSourceCritical(v)
           calls == v.calls \cup {v.criticalAction}
<1>1. u = [v EXCEPT !.calls = calls]
  BY DEF HandlePowerSourceCritical
<1> HIDE DEF u, calls
<1>2. SameDisplay(u, v) /\ SameTimer(u, v) /\ SameSensor(u, v) /\ SameCourse(u, v)
  BY <1>1 DEF Sound, WorldOK, SameSensor, SameCourse,
         SameTimer, SameDisplay, SameAllowances, WorldFields, MachineFields, PortFields
<1>3. Orders(u, v)
  BY <1>2 DEF SameDisplay, SameTimer, SameCourse, SameAllowances, Orders, Timing, Lighting,
         Covered, TimeoutAllowed, TimeoutApplicationAllowed
<1>4. Expires(v) => Expires(u)
  BY <1>2 DEF SameCourse, SameAllowances, SameSensor, Expires
<1> QED BY <1>2, <1>3, <1>4 DEF u, SameCourse, SameSensor, CallHolds

\* handle_lid_closed: the panel goes dark, with the display or without it.
LEMMA HandleLidClosedOrders ==
  ASSUME NEW v, Sound(v), ~v.paused
  PROVE  LET u == HandleLidClosed(v)
         IN /\ Orders(u, v) /\ (Expires(v) => Expires(u)) /\ (CallHolds(u) => CallHolds(v))
            /\ u.paused = v.paused /\ u.defaultHandlers = v.defaultHandlers
<1> DEFINE c == [v EXCEPT !.lidClosed = TRUE]
           o == IF c.mode = "on" THEN TurnOffDisplay(c, "unknown") ELSE c
           calls == o.calls \cup {"suspend"}
           k == [o EXCEPT !.calls = calls]
           x == [c EXCEPT !.internalPanel = "off"]
           u == HandleLidClosed(v)
<1>1. /\ SameDisplay(c, v) /\ SameTimer(c, v) /\ SameSensor(c, v) /\ SameAllowances(c, v)
      /\ c.calls = v.calls /\ Sound(c)
      /\ c.paused = v.paused /\ c.defaultHandlers = v.defaultHandlers
      /\ c.lidClosed /\ c.offTimeout = v.offTimeout
  BY DEF Sound, WorldOK, MachineOK, PortsOK, SameSensor,
         SameTimer, SameDisplay, SameAllowances, WorldFields, MachineFields, PortFields
<1>2. u \in {x, k, o}
  BY DEF HandleLidClosed
<1> HIDE DEF c, u
<1>3. Sound(o)
  <2>1. "unknown" \in Reasons
    BY DEF Reasons
  <2> QED BY <1>1, <2>1, TurnOffDisplayKeeps DEF Keeps
<1>4. /\ SameSensor(o, c) /\ SameCourse(o, c)
      /\ c.mode = "on" => /\ o.mode = "off" /\ o.backlight = "off"
                          /\ o.internalPanel = "off" /\ o.externalPanel = "off"
                          /\ o.dimAlarm = NoAlarm /\ o.offAlarm = NoAlarm
                          /\ o.offTime = Past /\ o.timeoutType = "none"
      /\ c.mode # "on" => o = c
  <2>1. CASE c.mode = "on"
    BY <1>1, <2>1, TurnOffDisplayDoes
  <2>2. CASE c.mode # "on"
    BY <2>2 DEF SameSensor, SameCourse, SameAllowances
  <2> QED BY <2>1, <2>2
<1> HIDE DEF o
<1>5. Timing(v) => Timing(o)
  <2>1. CASE c.mode = "on"
    BY <1>1, <1>4, <2>1 DEF Timing, SameCourse
  <2>2. CASE c.mode # "on"
    BY <1>1, <1>4, <2>2 DEF Timing, SameTimer
  <2> QED BY <2>1, <2>2
<1>6. Lighting(v) => Lighting(o)
  <2>1. CASE c.mode = "on"
    BY <1>1, <1>4, <2>1 DEF Lighting, SameCourse
  <2>2. CASE c.mode # "on"
    <3>1. v.mode = "off"
      BY <1>1, <2>2 DEF Sound, WorldOK, MachineOK, DisplayModes, SameDisplay
    <3> QED BY <1>1, <1>4, <2>2, <3>1 DEF Lighting, SameTimer, SameDisplay
  <2> QED BY <2>1, <2>2
<1>7. /\ (Timing(v) => Timing(o)) /\ (Lighting(v) => Lighting(o))
      /\ (Lighting(v) => Covered(o)) /\ (Expires(v) => Expires(o))
      /\ SameSensor(o, v) /\ o.paused = v.paused /\ o.defaultHandlers = v.defaultHandlers
  <2>1. (Expires(v) => Expires(o)) /\ SameSensor(o, v) /\ o.paused = v.paused
        /\ o.defaultHandlers = v.defaultHandlers
    BY <1>1, <1>4 DEF Expires, SameSensor, SameCourse, SameAllowances
  <2>2. Lighting(v) => Covered(o)
    <3>1. CASE c.mode = "on"
      BY <1>4, <3>1 DEF Covered
    <3>2. CASE c.mode # "on"
      <4>1. v.mode = "off"
        BY <1>1, <3>2 DEF Sound, WorldOK, MachineOK, DisplayModes, SameDisplay
      <4> QED BY <1>1, <1>4, <3>2, <4>1 DEF Covered, Lighting, SameDisplay
    <3> QED BY <3>1, <3>2
  <2> QED BY <1>5, <1>6, <2>1, <2>2
<1>8. /\ (Timing(v) => Timing(k)) /\ (Lighting(v) => Lighting(k))
      /\ (Lighting(v) => Covered(k)) /\ (Expires(v) => Expires(k))
      /\ SameSensor(k, v) /\ k.paused = v.paused /\ k.defaultHandlers = v.defaultHandlers
  <2> HIDE DEF calls
  <2>1. SameDisplay(k, o) /\ SameTimer(k, o) /\ SameSensor(k, o) /\ SameCourse(k, o)
    BY <1>3 DEF Sound, WorldOK, SameSensor, SameCourse,
         SameTimer, SameDisplay, SameAllowances, WorldFields, MachineFields, PortFields
  <2> HIDE DEF k
  <2> QED BY <1>7, <2>1
          DEF SameDisplay, SameTimer, SameSensor, SameCourse, SameAllowances, Timing, Lighting,
              Covered, Expires, TimeoutAllowed, TimeoutApplicationAllowed
<1>9. /\ (Timing(v) => Timing(x)) /\ (Lighting(v) => Lighting(x))
      /\ (Lighting(v) => Covered(x)) /\ (Expires(v) => Expires(x))
      /\ SameSensor(x, v) /\ x.paused = v.paused /\ x.defaultHandlers = v.defaultHandlers
  <2>1. /\ SameTimer(x, c) /\ SameSensor(x, c) /\ SameCourse(x, c) /\ x.internalPanel = "off"
        /\ x.mode = c.mode /\ x.externalPanel = c.externalPanel /\ x.backlight = c.backlight
        /\ x.modem = c.modem
    BY <1>1 DEF Sound, WorldOK, SameSensor, SameCourse,
         SameTimer, SameAllowances, WorldFields, MachineFields, PortFields
  <2> HIDE DEF x
  <2>2. Timing(v) => Timing(x)
    BY <1>1, <2>1 DEF Timing, SameTimer, SameCourse
  <2>3. Lighting(v) => Lighting(x)
    BY <1>1, <2>1 DEF Lighting, SameTimer, SameCourse, SameDisplay, SameAllowances,
                      TimeoutAllowed
  <2>4. /\ Expires(v) => Expires(x)
        /\ SameSensor(x, v) /\ x.paused = v.paused /\ x.defaultHandlers = v.defaultHandlers
    BY <1>1, <2>1 DEF Expires, SameSensor, SameCourse, SameAllowances
  <2>5. Covered(x)
    BY <2>1 DEF Covered
  <2> QED BY <2>2, <2>3, <2>4, <2>5
<1> HIDE DEF k, x
<1> QED BY <1>2, <1>7, <1>8, <1>9 DEF Orders, SameSensor, CallHolds, u

\* handle_lid_open: the panel behind the lid is on again, lit and with a timer.
LEMMA HandleLidOpenOrders ==
  ASSUME NEW v, Sound(v), ~v.paused
  PROVE  LET u == HandleLidOpen(v)
         IN Serves(u, v)
<1> DEFINE c == [v EXCEPT !.lidClosed = FALSE]
           x == [c EXCEPT !.internalPanel = "on"]
           a == ActivityWhileOn(x, "activity")
           n == TurnOnDisplayWithNormalTimeout(c, "activity")
           u == HandleLidOpen(v)
<1>1. "activity" \in Reasons
  BY DEF Reasons
<1>2. /\ SameDisplay(c, v) /\ SameTimer(c, v) /\ SameSensor(c, v) /\ SameAllowances(c, v)
      /\ c.calls = v.calls /\ Sound(c)
      /\ c.paused = v.paused /\ c.defaultHandlers = v.defaultHandlers
      /\ ~c.lidClosed /\ c.offTimeout = v.offTimeout
  BY DEF Sound, WorldOK, MachineOK, PortsOK, SameSensor,
         SameTimer, SameDisplay, SameAllowances, WorldFields, MachineFields, PortFields
<1>3. u = IF c.mode = "on" THEN a ELSE n
  BY DEF HandleLidOpen
<1> HIDE DEF c, u
<1>4. Timing(v) => Timing(c)
  BY <1>2 DEF Timing, SameTimer
<1>5. CASE c.mode = "on"
  <2>1. /\ SameTimer(x, c) /\ SameSensor(x, c) /\ SameCourse(x, c) /\ x.internalPanel = "on"
        /\ x.mode = c.mode /\ x.externalPanel = c.externalPanel /\ x.backlight = c.backlight
        /\ x.modem = c.modem /\ Sound(x) /\ x.calls = c.calls
    BY <1>2 DEF Sound, WorldOK, MachineOK, PortsOK, DisplayModes, SameSensor,
         SameCourse, SameTimer, SameAllowances, WorldFields, MachineFields, PortFields
  <2> HIDE DEF x
  <2>2. /\ SameSensor(a, x) /\ SameCourse(a, x) /\ a.calls = x.calls
        /\ a.mode = x.mode /\ a.modem = x.modem
        /\ a.internalPanel = x.internalPanel /\ a.externalPanel = x.externalPanel
        /\ a.backlight = IF x.paused THEN x.backlight ELSE "normal"
        /\ a.timeoutType = "normal"
        /\ Timing(x) => Timing(a)
    BY <1>1, <2>1, ActivityWhileOnDoes
  <2> HIDE DEF a
  <2>3. Timing(v) => Timing(a)
    BY <1>4, <2>1, <2>2 DEF Timing, SameTimer, SameCourse
  <2>4. Lighting(v) => Lighting(a)
    BY <1>2, <1>5, <2>1, <2>2 DEF Lighting, SameCourse, SameDisplay
  <2>5. /\ SameSensor(a, v) /\ SameAllowances(a, v) /\ a.calls = v.calls /\ ~a.lidClosed
        /\ a.paused = v.paused /\ a.defaultHandlers = v.defaultHandlers
    BY <1>2, <2>1, <2>2 DEF SameSensor, SameCourse, SameAllowances
  <2>6. u = a
    BY <1>3, <1>5
  <2> QED BY <2>3, <2>4, <2>5, <2>6
          DEF Serves, Orders, Discreet, Covered, Expires, Willing, CallHolds, SameSensor,
              SameAllowances, u
<1>6. CASE c.mode # "on"
  <2>1. Tidy(n, c) /\ Keeps(n, c) /\ Lighting(n) /\ Covered(n)
    BY <1>1, <1>2, TurnOnDisplayWithNormalTimeoutTidy, TurnOnDisplayWithNormalTimeoutKeeps
       DEF Covered
  <2> HIDE DEF n
  <2>2. Timing(v) => Timing(n)
    BY <1>4, <2>1 DEF Tidy, Orders
  <2>3. /\ SameSensor(n, v) /\ SameAllowances(n, v) /\ (Willing(v) => Willing(n))
        /\ n.paused = v.paused /\ n.defaultHandlers = v.defaultHandlers
    BY <1>2, <2>1 DEF SameSensor, SameAllowances, Keeps, Tidy, Discreet, Willing
  <2>4. u = n
    BY <1>3, <1>6
  <2> QED BY <2>1, <2>2, <2>3, <2>4
          DEF Serves, Orders, Discreet, Covered, Expires, CallHolds, SameSensor, SameAllowances, u
<1> QED BY <1>5, <1>6

\* pause: timer and display stay as they are, out of the session's hands.
LEMMA PauseMachineOrders ==
  ASSUME NEW v, Sound(v)
  PROVE  LET u == PauseMachine(v)
         IN /\ Orders(u, v) /\ (Expires(v) => Expires(u))
            /\ Willing(v) => Willing(u)
            /\ u.paused /\ u.defaultHandlers /\ u.calls = v.calls /\ SameSensor(u, v)
<1> DEFINE u == PauseMachine(v)
<1>1. /\ SameDisplay(u, v) /\ SameTimer(u, v) /\ SameSensor(u, v) /\ SameAllowances(u, v)
      /\ u.calls = v.calls /\ u.paused /\ u.defaultHandlers /\ u.lidClosed = v.lidClosed
      /\ u.offTimeout = v.offTimeout
  BY DEF PauseMachine, Sound, WorldOK, SameSensor,
         SameTimer, SameDisplay, SameAllowances, WorldFields, MachineFields, PortFields
<1> HIDE DEF u
<1>2. Orders(u, v)
  BY <1>1 DEF Orders, Timing, Lighting, Covered, SameDisplay, SameTimer
<1>3. (Expires(v) => Expires(u)) /\ (Willing(v) => Willing(u))
  BY <1>1 DEF Expires, Willing, SameSensor, SameAllowances
<1> QED BY <1>1, <1>2, <1>3 DEF u

\* resume: the display is turned on with a new timer, so what other sessions made of
\* it does not matter.
LEMMA ResumeMachineOrders ==
  ASSUME NEW v, Sound(v)
  PROVE  LET u == ResumeMachine(v)
         IN /\ Orders(u, v) /\ (Expires(v) => Expires(u)) /\ Lighting(u)
            /\ Willing(v) => Willing(u)
            /\ ~u.paused /\ ~u.defaultHandlers /\ SameSensor(u, v)
            /\ u.calls \subseteq v.calls \cup {"notify_display_on"}
<1> DEFINE c == [v EXCEPT !.paused = FALSE, !.defaultHandlers = FALSE,
                       !.abActive = v.autobrightness,
                       !.backlightValue = v.brightnessValue]
           n == TurnOnDisplayWithNormalTimeout(c, "unknown")
           on == n.proximityEvents \/ n.proximityEnablements # {}
           u == ResumeMachine(v)
<1>1. /\ SameDisplay(c, v) /\ SameTimer(c, v) /\ SameSensor(c, v) /\ SameAllowances(c, v)
      /\ c.calls = v.calls /\ Sound(c)
      /\ ~c.paused /\ ~c.defaultHandlers /\ c.lidClosed = v.lidClosed
      /\ c.offTimeout = v.offTimeout
  BY DEF Sound, WorldOK, MachineOK, PortsOK, SameSensor,
         SameTimer, SameDisplay, SameAllowances, WorldFields, MachineFields, PortFields
<1>2. u = [n EXCEPT !.proximityEvents = on]
  BY DEF ResumeMachine
<1> HIDE DEF c, u
<1>3. /\ Tidy(n, c) /\ Keeps(n, c) /\ Lighting(n) /\ (Covered(c) => Covered(n))
      /\ n.calls \subseteq c.calls \cup {"notify_display_on"}
  <2>1. "unknown" \in Reasons
    BY DEF Reasons
  <2> QED BY <1>1, <2>1, TurnOnDisplayWithNormalTimeoutTidy, TurnOnDisplayWithNormalTimeoutKeeps
<1> HIDE DEF n, on
<1>4. SameDisplay(u, n) /\ SameTimer(u, n) /\ SameSensor(u, n) /\ SameCourse(u, n)
      /\ u.calls = n.calls
  BY <1>2, <1>3 DEF Keeps, Sound, WorldOK, SameSensor, SameCourse,
         SameTimer, SameDisplay, SameAllowances, WorldFields, MachineFields, PortFields
<1>5. Serves(u, n) /\ Lighting(u)
  <2>1. Serves(u, n)
    BY <1>4, ElsewhereServes
  <2> QED BY <1>3, <1>4, <2>1
          DEF Lighting, SameDisplay, SameTimer, SameCourse, SameAllowances, TimeoutAllowed,
              TimeoutApplicationAllowed
<1>6. Timing(v) => Timing(n)
  BY <1>1, <1>3 DEF Tidy, Orders, Timing, SameTimer
<1>7. Orders(u, v)
  <2>1. Timing(v) => Timing(u)
    BY <1>5, <1>6 DEF Serves, Orders
  <2>2. Covered(v) => Covered(u)
    BY <1>1, <1>3, <1>4 DEF Covered, SameDisplay, SameCourse
  <2> QED BY <1>5, <2>1, <2>2 DEF Orders
<1>8. (Expires(v) => Expires(n)) /\ (Willing(v) => Willing(n)) /\ ~n.paused /\ ~n.defaultHandlers
      /\ SameSensor(n, v)
  BY <1>1, <1>3 DEF Tidy, Keeps, Discreet, Expires, Willing, SameSensor, SameAllowances
<1>9. (Expires(v) => Expires(u)) /\ (Willing(v) => Willing(u)) /\ ~u.paused /\ ~u.defaultHandlers
  BY <1>5, <1>8 DEF Serves, Discreet
<1>10. SameSensor(u, v) /\ u.calls \subseteq v.calls \cup {"notify_display_on"}
  BY <1>1, <1>3, <1>4, <1>8 DEF SameSensor
<1> QED BY <1>5, <1>7, <1>9, <1>10 DEF u

\* The start of the machine, which turns the display on if the options say so.
LEMMA StartMachineOrders ==
  ASSUME NEW v, Sound(v)
  PROVE  LET u == StartMachine(v)
         IN /\ Orders(u, v) /\ (Expires(v) => Expires(u)) /\ (Willing(v) => Willing(u))
            /\ u.paused = v.paused /\ ~u.defaultHandlers /\ SameSensor(u, v)
            /\ TurnOnDisplayAtStartup /\ ~v.paused => Lighting(u)
            /\ u.calls \subseteq v.calls \cup {"notify_display_on"}
<1> DEFINE c == [v EXCEPT !.supply = v.powerSupply, !.defaultHandlers = FALSE]
           n == TurnOnDisplayWithNormalTimeout(c, "unknown")
           u == StartMachine(v)
<1>1. /\ SameDisplay(c, v) /\ SameTimer(c, v) /\ SameSensor(c, v) /\ SameAllowances(c, v)
      /\ c.paused = v.paused /\ c.lidClosed = v.lidClosed /\ c.offTimeout = v.offTimeout
      /\ ~c.defaultHandlers /\ c.calls = v.calls /\ Sound(c)
  BY DEF Sound, WorldOK, MachineOK, PortsOK, SameSensor,
         SameTimer, SameDisplay, SameAllowances, WorldFields, MachineFields, PortFields
<1>2. u = IF TurnOnDisplayAtStartup THEN n ELSE c
  BY DEF StartMachine
<1> HIDE DEF c, u
<1>3. Orders(c, v)
  BY <1>1 DEF Orders, Timing, Lighting, Covered, SameTimer, SameDisplay, SameAllowances,
              TimeoutAllowed, TimeoutApplicationAllowed
<1>4. (Expires(v) => Expires(c)) /\ (Willing(v) => Willing(c))
  BY <1>1 DEF Expires, Willing, SameSensor, SameAllowances
<1>5. /\ Serves(n, c) /\ SameSensor(n, c) /\ (~c.paused => Lighting(n))
      /\ n.calls \subseteq c.calls \cup {"notify_display_on"}
  <2>1. "unknown" \in Reasons
    BY DEF Reasons
  <2> QED BY <1>1, <2>1, TurnOnDisplayWithNormalTimeoutTidy, TurnOnDisplayWithNormalTimeoutKeeps,
             TidyServes DEF Tidy
<1> HIDE DEF n
<1>6. CASE TurnOnDisplayAtStartup
  <2>1. u = n /\ Orders(n, v)
    BY <1>2, <1>3, <1>5, <1>6, OrdersChains DEF Serves
  <2>2. SameSensor(n, v)
    BY <1>1, <1>5 DEF SameSensor
  <2> QED BY <1>1, <1>4, <1>5, <2>1, <2>2 DEF Serves, Discreet, u
<1>7. CASE ~TurnOnDisplayAtStartup
  BY <1>1, <1>2, <1>3, <1>4, <1>7 DEF u
<1> QED BY <1>6, <1>7

-----------------------------------------------------------------------------
\* The adapter's operations, of whatever ids: its sets are nothing to the
\* machine, and the rest is a handler's.
LEMMA AdapterServes ==
  ASSUME NEW v, Sound(v), NEW id
  PROVE  /\ LET u == AdapterEnableInactivityTimeout(v, id) IN Sound(u) /\ Serves(u, v)
         /\ LET u == AdapterDisableInactivityTimeout(v, id) IN Sound(u) /\ Serves(u, v)
         /\ LET u == AdapterNotification(v, id) IN Sound(u) /\ Serves(u, v)
         /\ LET u == AdapterNotificationDone(v, id) IN Sound(u) /\ Serves(u, v)
         /\ LET u == AdapterAllowSuspend(v, id) IN Sound(u) /\ Serves(u, v)
         /\ LET u == AdapterDisallowSuspend(v, id)
            IN /\ Sound(u) /\ Orders(u, v) /\ SameDisplay(u, v) /\ SameSensor(u, v)
               /\ u.paused = v.paused /\ u.defaultHandlers = v.defaultHandlers
               /\ u.calls = v.calls
               /\ "suspend" \notin v.calls => Serves(u, v)
<1>1. ASSUME NEW r
      PROVE  LET u == [v EXCEPT !.inactivityRequests = r] IN Sound(u) /\ Serves(u, v)
  <2> DEFINE u == [v EXCEPT !.inactivityRequests = r]
  <2>1. /\ Sound(u) /\ SameDisplay(u, v) /\ SameTimer(u, v) /\ SameCourse(u, v)
        /\ SameSensor(u, v) /\ u.calls = v.calls
    BY DEF Sound, WorldOK, MachineOK, PortsOK, SameSensor, SameCourse,
         SameTimer, SameDisplay, SameAllowances, WorldFields, MachineFields, PortFields
  <2> QED BY <2>1, ElsewhereServes
<1>2. ASSUME NEW r
      PROVE  LET u == [v EXCEPT !.notifications = r] IN Sound(u) /\ Serves(u, v)
  <2> DEFINE u == [v EXCEPT !.notifications = r]
  <2>1. /\ Sound(u) /\ SameDisplay(u, v) /\ SameTimer(u, v) /\ SameCourse(u, v)
        /\ SameSensor(u, v) /\ u.calls = v.calls
    BY DEF Sound, WorldOK, MachineOK, PortsOK, SameSensor, SameCourse,
         SameTimer, SameDisplay, SameAllowances, WorldFields, MachineFields, PortFields
  <2> QED BY <2>1, ElsewhereServes
<1>3. ASSUME NEW r
      PROVE  LET u == [v EXCEPT !.suspendRequests = r]
             IN /\ Sound(u) /\ Serves(u, v) /\ u.calls = v.calls
                /\ SameDisplay(u, v) /\ SameSensor(u, v)
  <2> DEFINE u == [v EXCEPT !.suspendRequests = r]
  <2>1. /\ Sound(u) /\ SameDisplay(u, v) /\ SameTimer(u, v) /\ SameCourse(u, v)
        /\ SameSensor(u, v) /\ u.calls = v.calls
    BY DEF Sound, WorldOK, MachineOK, PortsOK, SameSensor, SameCourse,
         SameTimer, SameDisplay, SameAllowances, WorldFields, MachineFields, PortFields
  <2> QED BY <2>1, ElsewhereServes
<1>4. LET u == AdapterEnableInactivityTimeout(v, id) IN Sound(u) /\ Serves(u, v)
  <2> DEFINE r == v.inactivityRequests \ {id}
             x == [v EXCEPT !.inactivityRequests = r]
  <2>1. AdapterEnableInactivityTimeout(v, id) \in {AllowTimeout(x, "client"), x}
    BY DEF AdapterEnableInactivityTimeout, HandleEnableInactivityTimeout
  <2>2. Sound(x) /\ Serves(x, v)
    BY <1>1
  <2> HIDE DEF x
  <2>3. Sound(AllowTimeout(x, "client")) /\ Serves(AllowTimeout(x, "client"), x)
    <3> DEFINE a == AllowTimeout(x, "client")
    <3>1. Tidy(a, x) /\ Lifts(a, x, "client")
      BY <2>2, AllowTimeoutDoes, AllowTimeoutLifts DEF Allowances
    <3> HIDE DEF a
    <3>2. Expires(x) => Expires(a)
      BY <3>1 DEF Expires, Tidy, SameSensor, Lifts
    <3> QED BY <3>1, <3>2 DEF Tidy, Serves, Lifts, SameSensor, CallHolds, a
  <2> QED BY <2>1, <2>2, <2>3, ServesChains
<1>5. LET u == AdapterDisableInactivityTimeout(v, id) IN Sound(u) /\ Serves(u, v)
  <2> DEFINE r == v.inactivityRequests \cup {id}
             x == [v EXCEPT !.inactivityRequests = r]
  <2>1. AdapterDisableInactivityTimeout(v, id) = HandleDisableInactivityTimeout(x)
    BY DEF AdapterDisableInactivityTimeout
  <2>2. Sound(x) /\ Serves(x, v)
    BY <1>1
  <2> HIDE DEF x
  <2> QED BY <2>1, <2>2, HandleDisableInactivityTimeoutServes,
             HandleDisableInactivityTimeoutHolds, ServesChains DEF Holds
<1>6. LET u == AdapterNotification(v, id) IN Sound(u) /\ Serves(u, v)
  <2> DEFINE r == v.notifications \cup {id}
             x == [v EXCEPT !.notifications = r]
  <2>1. AdapterNotification(v, id) = HandleNotification(x)
    BY DEF AdapterNotification
  <2>2. Sound(x) /\ Serves(x, v)
    BY <1>2
  <2> HIDE DEF x
  <2> QED BY <2>1, <2>2, HandleNotificationServes, HandleNotificationHolds, ServesChains
          DEF Holds
<1>7. LET u == AdapterNotificationDone(v, id) IN Sound(u) /\ Serves(u, v)
  <2> DEFINE r == v.notifications \ {id}
             x == [v EXCEPT !.notifications = r]
  <2>1. AdapterNotificationDone(v, id) \in {HandleNoNotification(x), x}
    BY DEF AdapterNotificationDone
  <2>2. Sound(x) /\ Serves(x, v)
    BY <1>2
  <2> HIDE DEF x
  <2> QED BY <2>1, <2>2, HandleNoNotificationServes, HandleNoNotificationLifts, ServesChains
          DEF Lifts
<1>8. LET u == AdapterAllowSuspend(v, id) IN Sound(u) /\ Serves(u, v)
  <2> DEFINE r == v.suspendRequests \ {id}
             x == [v EXCEPT !.suspendRequests = r]
  <2>1. AdapterAllowSuspend(v, id) \in {HandleAllowSuspend(x), x}
    BY DEF AdapterAllowSuspend
  <2>2. Sound(x) /\ Serves(x, v)
    BY <1>3
  <2> HIDE DEF x
  <2> QED BY <2>1, <2>2, HandleAllowSuspendServes, HandleAllowSuspendAllows, ServesChains
<1>9. LET u == AdapterDisallowSuspend(v, id)
      IN /\ Sound(u) /\ Orders(u, v) /\ SameDisplay(u, v) /\ SameSensor(u, v)
         /\ u.paused = v.paused /\ u.defaultHandlers = v.defaultHandlers
         /\ u.calls = v.calls
         /\ "suspend" \notin v.calls => Serves(u, v)
  <2> DEFINE r == v.suspendRequests \cup {id}
             x == [v EXCEPT !.suspendRequests = r]
             u == HandleDisallowSuspend(x)
  <2>1. AdapterDisallowSuspend(v, id) = u
    BY DEF AdapterDisallowSuspend
  <2>2. /\ Sound(x) /\ Serves(x, v) /\ x.calls = v.calls
        /\ SameDisplay(x, v) /\ SameSensor(x, v)
    BY <1>3
  <2> HIDE DEF x
  <2>3. /\ Orders(u, x) /\ SameDisplay(u, x) /\ SameSensor(u, x) /\ u.calls = x.calls
        /\ u.paused = x.paused /\ u.defaultHandlers = x.defaultHandlers
        /\ "suspend" \notin x.calls => Serves(u, x)
    BY <2>2, HandleDisallowSuspendServes
  <2>4. Sound(u)
    BY <2>2, HandleDisallowSuspendDisallows
  <2> HIDE DEF u
  <2>5. Orders(u, v) /\ ("suspend" \notin v.calls => Serves(u, v))
    BY <2>2, <2>3, OrdersChains, ServesChains DEF Serves
  <2> QED BY <2>1, <2>2, <2>3, <2>4, <2>5 DEF Serves, Discreet, SameDisplay, SameSensor
<1> QED BY <1>4, <1>5, <1>6, <1>7, <1>8, <1>9
=============================================================================
