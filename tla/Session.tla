------------------------------ MODULE Session ------------------------------
(***************************************************************************)
(* One session of repowerd: its state machine behind its event adapter,    *)
(* the ports it drives and the sources whose events the daemon hands to    *)
(* it, one event at a time.  The daemon's other sessions appear only as    *)
(* Pause and Resume: events of the hardware reach the session while it is  *)
(* active, requests and notifications of its clients and its alarms reach  *)
(* it always.                                                              *)
(***************************************************************************)
EXTENDS StateEventAdapter

CONSTANTS
  Sources,       \* the sources of events that are present
  Timeouts,      \* the timeouts that clients set
  StartSupplies, \* the power supplies the session may start on
  RequestIds,    \* ids of inactivity and suspend requests
  NotificationIds

AllSources == {"power_button", "user_activity", "inactivity", "settings",
               "notification", "voice_call", "proximity", "lid",
               "power_source", "suspend", "brightness", "display", "resume",
               "session", "silence"}

ASSUME SessionAssumption ==
  /\ Sources \subseteq AllSources
  /\ StartSupplies \subseteq Supplies
  /\ Timeouts \subseteq Int
  /\ \A t \in Timeouts : t <= Infinite

VARIABLES
  w,           \* the world: the session's machine, its adapter, the ports
  button,      \* "down" while the user holds the power button
  lid,         \* where the lid is, whoever was told
  callListed,  \* the session is in sessions_with_active_calls
  quiet        \* the outside has nothing more to say

vars == <<w, button, lid, callListed, quiet>>

-----------------------------------------------------------------------------
InitialPorts(supply) ==
  [internalPanel |-> "off", externalPanel |-> "off", backlight |-> "off",
   abActive |-> FALSE, backlightValue |-> CHOOSE v \in BrightnessValues : TRUE,
   modem |-> "normal", interactive |-> FALSE, wakeLock |-> FALSE,
   proximityEvents |-> FALSE, defaultHandlers |-> TRUE,
   near |-> FALSE, powerSupply |-> supply, externalDisplays |-> FALSE]

InitialWorld(supply) ==
  LET m == ConstructedMachine(CHOOSE v \in BrightnessValues : TRUE)
      p == InitialPorts(supply)
  IN [f \in WorldFields |-> IF f \in MachineFields THEN m[f] ELSE p[f]]

Init ==
  /\ \E supply \in StartSupplies : w = StartMachine(InitialWorld(supply))
  /\ button = "up"
  /\ lid = "open"
  /\ callListed = FALSE
  /\ quiet = FALSE

-----------------------------------------------------------------------------
Active == ~w.paused

\* The world as a handler finds it: nothing called yet.
Before == [w EXCEPT !.calls = {}]

From(source) == source \in Sources /\ ~quiet

Handled(v) == w' = v /\ UNCHANGED <<button, lid, callListed, quiet>>

-----------------------------------------------------------------------------
(* Time and alarms.                                                        *)

Tick == TimeMatters(w) /\ Handled(PassTime(Before))

LongPressAlarm == w.longPressAlarm = 0 /\ Handled(HandleLongPressAlarm(Before))

DimAlarm == w.dimAlarm = 0 /\ Handled(HandleDimAlarm(Before))

\* A dim alarm that is due was scheduled for an earlier time, or for the same
\* time and first: its event is ahead in the queue.
OffAlarm == w.offAlarm = 0 /\ w.dimAlarm # 0 /\ Handled(HandleOffAlarm(Before))

SuspendAlarm == w.suspendAlarm = 0 /\ Handled(HandleSuspendAlarm(Before))

ProximityAlarm == w.proximityAlarm = 0 /\ Handled(HandleProximityDisableAlarm(Before))

NotificationAlarm ==
  w.notificationAlarm = 0 /\ Handled(HandleNotificationExpirationAlarm(Before))

Alarm == \/ LongPressAlarm \/ DimAlarm \/ OffAlarm
         \/ SuspendAlarm \/ ProximityAlarm \/ NotificationAlarm

-----------------------------------------------------------------------------
(* Power button and user activity, while the session is active.            *)

PowerButtonPress ==
  /\ From("power_button") /\ button = "up"
  /\ button' = "down"
  /\ w' = IF Active THEN HandlePowerButtonPress(Before) ELSE Before
  /\ UNCHANGED <<lid, callListed, quiet>>

PowerButtonRelease ==
  /\ From("power_button") /\ button = "down"
  /\ button' = "up"
  /\ w' = IF Active THEN HandlePowerButtonRelease(Before) ELSE Before
  /\ UNCHANGED <<lid, callListed, quiet>>

UserActivityChanging ==
  From("user_activity") /\ Active /\ Handled(HandleUserActivityChanging(Before))

UserActivityExtending ==
  From("user_activity") /\ Active /\ Handled(HandleUserActivityExtending(Before))

-----------------------------------------------------------------------------
(* Clients, at any time.                                                   *)

EnableInactivityTimeout ==
  /\ From("inactivity")
  /\ \E id \in RequestIds : Handled(AdapterEnableInactivityTimeout(Before, id))

DisableInactivityTimeout ==
  /\ From("inactivity")
  /\ \E id \in RequestIds : Handled(AdapterDisableInactivityTimeout(Before, id))

\* The request to set the display-off timeout sets it for both supplies.
SetInactivityTimeout ==
  /\ From("inactivity")
  /\ \E t \in Timeouts :
       Handled(HandleSetInactivityBehavior(
                 HandleSetInactivityBehavior(Before, "display_off", "battery", t),
                 "display_off", "line_power", t))

SetInactivityBehavior ==
  /\ From("settings")
  /\ \E action \in {"none", "display_off", "suspend", "power_off"},
        supply \in Supplies, t \in Timeouts :
       Handled(HandleSetInactivityBehavior(Before, action, supply, t))

SetLidBehavior ==
  /\ From("settings") /\ From("lid")
  /\ \E action \in {"none", "display_off", "suspend"}, supply \in Supplies :
       Handled(HandleSetLidBehavior(Before, action, supply))

SetCriticalPowerBehavior ==
  /\ From("settings") /\ From("power_source")
  /\ \E action \in {"none", "suspend", "power_off"} :
       Handled(HandleSetCriticalPowerBehavior(Before, action))

SetNormalBrightnessValue ==
  /\ From("brightness")
  /\ \E value \in BrightnessValues : Handled(HandleSetNormalBrightnessValue(Before, value))

EnableAutobrightness ==
  From("brightness") /\ Handled(HandleEnableAutobrightness(Before))

DisableAutobrightness ==
  From("brightness") /\ Handled(HandleDisableAutobrightness(Before))

AllowSuspend ==
  /\ From("suspend")
  /\ \E id \in RequestIds : Handled(AdapterAllowSuspend(Before, id))

DisallowSuspend ==
  /\ From("suspend")
  /\ \E id \in RequestIds : Handled(AdapterDisallowSuspend(Before, id))

TurnOnDisplayRequest == From("display") /\ Handled(HandleTurnOnDisplay(Before))

TurnOffDisplayRequest == From("display") /\ Handled(HandleTurnOffDisplay(Before))

-----------------------------------------------------------------------------
(* Notifications and voice calls.                                          *)

Notification ==
  /\ From("notification")
  /\ \E id \in NotificationIds : Handled(AdapterNotification(Before, id))

NotificationDone ==
  /\ From("notification")
  /\ \E id \in NotificationIds : Handled(AdapterNotificationDone(Before, id))

\* The daemon lists the session when a call becomes active in it, and never
\* takes it off the list.
ActiveCall ==
  /\ From("voice_call") /\ Active
  /\ w' = HandleActiveCall(Before)
  /\ callListed' = TRUE
  /\ UNCHANGED <<button, lid, quiet>>

NoActiveCall ==
  From("voice_call") /\ callListed /\ Handled(HandleNoActiveCall(Before))

-----------------------------------------------------------------------------
(* The rest of the hardware.                                               *)

\* What a handler reads from the sensor changes at any time.
ProximityChange == From("proximity") /\ Handled([Before EXCEPT !.near = ~w.near])

\* The sensor queues reports while its events are on; they are handled later,
\* maybe after the events were switched off, or the session left and came back.
ProximityReport ==
  /\ From("proximity") /\ Active
  /\ \E near \in BOOLEAN :
       Handled(IF near THEN HandleProximityNear(Before) ELSE HandleProximityFar(Before))

LidMoves ==
  /\ From("lid")
  /\ lid' = IF lid = "open" THEN "closed" ELSE "open"
  /\ w' = IF ~Active THEN Before
          ELSE IF lid = "open" THEN HandleLidClosed(Before)
          ELSE HandleLidOpen(Before)
  /\ UNCHANGED <<button, callListed, quiet>>

ExternalDisplaysChange ==
  /\ From("lid")
  /\ Handled([Before EXCEPT !.externalDisplays = ~w.externalDisplays])

PowerSourceChange ==
  /\ From("power_source")
  /\ \E supply \in Supplies :
       LET v == [Before EXCEPT !.powerSupply = supply]
       IN Handled(IF Active THEN HandlePowerSourceChange(v) ELSE v)

PowerSourceCritical ==
  From("power_source") /\ Active /\ Handled(HandlePowerSourceCritical(Before))

SystemResume == From("resume") /\ Active /\ Handled(HandleSystemResume(Before))

-----------------------------------------------------------------------------
Pause == From("session") /\ Active /\ Handled(PauseMachine(Before))

Resume == From("session") /\ ~Active /\ Handled(ResumeMachine(Before))

GoQuiet ==
  From("silence") /\ quiet' = TRUE /\ w' = Before /\ UNCHANGED <<button, lid, callListed>>

Next ==
  \/ Tick
  \/ LongPressAlarm \/ DimAlarm \/ OffAlarm
  \/ SuspendAlarm \/ ProximityAlarm \/ NotificationAlarm
  \/ PowerButtonPress \/ PowerButtonRelease
  \/ UserActivityChanging \/ UserActivityExtending
  \/ EnableInactivityTimeout \/ DisableInactivityTimeout
  \/ SetInactivityTimeout \/ SetInactivityBehavior
  \/ SetLidBehavior \/ SetCriticalPowerBehavior
  \/ SetNormalBrightnessValue \/ EnableAutobrightness \/ DisableAutobrightness
  \/ AllowSuspend \/ DisallowSuspend
  \/ TurnOnDisplayRequest \/ TurnOffDisplayRequest
  \/ Notification \/ NotificationDone
  \/ ActiveCall \/ NoActiveCall
  \/ ProximityChange \/ ProximityReport
  \/ LidMoves \/ ExternalDisplaysChange
  \/ PowerSourceChange \/ PowerSourceCritical \/ SystemResume
  \/ Pause \/ Resume \/ GoQuiet

Spec == Init /\ [][Next]_vars

\* The timer thread keeps time and the daemon's thread takes every event
\* from its queue; nothing is assumed of the outside.
Fairness ==
  /\ WF_vars(Tick)
  /\ WF_vars(LongPressAlarm) /\ WF_vars(DimAlarm) /\ WF_vars(OffAlarm)
  /\ WF_vars(SuspendAlarm) /\ WF_vars(ProximityAlarm) /\ WF_vars(NotificationAlarm)

FairSpec == Spec /\ Fairness

-----------------------------------------------------------------------------
(* Invariants.                                                             *)

Running == ~w.paused

DisplayOn == w.mode = "on"

\* Every field of the world keeps its type, and the requests and
\* notifications the adapter holds are ids that clients may send.
TypeOK ==
  /\ WorldOK(w)
  /\ w.inactivityRequests \in SUBSET RequestIds
  /\ w.suspendRequests \in SUBSET RequestIds
  /\ w.notifications \in SUBSET NotificationIds
  /\ button \in {"up", "down"}
  /\ lid \in {"open", "closed"}
  /\ callListed \in BOOLEAN
  /\ quiet \in BOOLEAN

\* Of the display-off timer (schedule_*_user_inactivity_alarm, handle_alarm,
\* allow_inactivity_timeout): whenever a timeout type is scheduled, either
\* the off alarm is armed and the time point agrees with it, or the timeout
\* is infinite; a dim alarm is armed only ahead of an off alarm.  A display
\* that is on in a running session and that nobody keeps on is therefore
\* never left without the timer that turns it off.
DisplayOffTimerArmed ==
  /\ w.timeoutType # "none" =>
       \/ w.offAlarm # NoAlarm
       \/ w.timeoutType = "normal" /\ w.offTime = Infinite
  /\ w.offAlarm # NoAlarm =>
       /\ w.timeoutType # "none"
       /\ w.offTime <= w.offAlarm
  /\ w.dimAlarm # NoAlarm => w.offAlarm # NoAlarm /\ w.timeoutType = "normal"
  /\ Running /\ DisplayOn /\ TimeoutAllowed(w) => w.timeoutType # "none"

\* Of the members against the ports while the session runs
\* (turn_on_display_without_timeout, turn_off_display, the lid handlers,
\* brighten_display, dim_display): the panels, the modem and the backlight
\* are where display_power_mode says, the internal panel stays dark behind a
\* lid the machine knows to be closed, an open panel that is on is lit, and
\* it stays dimmed only while a display-off timer is scheduled.
PanelsFollowMode ==
  Running =>
    /\ w.mode = "off" => /\ w.internalPanel = "off" /\ w.externalPanel = "off"
                         /\ w.backlight = "off"
                         /\ w.dimAlarm = NoAlarm /\ w.offAlarm = NoAlarm
    /\ DisplayOn => w.externalPanel = "on" /\ w.modem = "normal"
    /\ w.lidClosed => w.internalPanel = "off"
    /\ DisplayOn /\ ~w.lidClosed => w.internalPanel = "on" /\ w.backlight # "off"
    /\ w.backlight = "dim" /\ ~w.lidClosed => w.timeoutType # "none"

\* Of the automatic suspend (allow_/disallow_automatic_suspend, a single lock
\* for the display and the clients): it is disallowed while the display of
\* the running session is on, while it is off because of proximity and while
\* a client disallows it, and allowed in every other state; a suspend waits
\* only for a client that disallows it.
AutomaticSuspendHeld ==
  /\ ~w.suspendAllowed => w.wakeLock
  /\ Running =>
       (w.wakeLock <=> \/ DisplayOn \/ ~w.suspendAllowed
                       \/ w.mode = "off" /\ w.reason = "proximity")
  /\ w.suspendPending => ~w.suspendAllowed /\ w.suspendAlarm = NoAlarm

\* Of the two things a notification leaves behind (handle_notification,
\* handle_no_notification, the expiration alarm): the timeout it holds off
\* and the sensor it switches on are always bounded by an expiration alarm,
\* and so is the sensor after a call by the proximity alarm.
NotificationsExpire ==
  /\ "notification" \in w.disallowedTimeouts <=> w.notificationAlarm # NoAlarm
  /\ "until_far_event_or_notification_expiration" \in w.proximityEnablements
       => w.notificationAlarm # NoAlarm
  /\ "until_far_event_or_timeout" \in w.proximityEnablements
       => w.proximityAlarm # NoAlarm

\* Of schedule_notification_expiration_alarm: a notification keeps the display
\* on for the expiration timeout at most.
NotificationExpiresInTime == w.notificationAlarm <= NotificationExpiration

\* Of enable_proximity, disable_proximity, pause and resume: the sensor's
\* events are on in a running session exactly while an enablement is left.
ProximityFollowsEnablements ==
  Running => (w.proximityEvents <=> w.proximityEnablements # {})

\* Of StateEventAdapter against the machine: the machine's allowances are the
\* emptiness of the adapter's sets, whatever ids came, went, or went twice.
AdapterAgrees ==
  /\ "client" \in w.disallowedTimeouts <=> w.inactivityRequests # {}
  /\ w.suspendAllowed <=> w.suspendRequests = {}
  /\ "notification" \in w.disallowedTimeouts => w.notifications # {}

\* Of the lid handlers, resume and turn_on_display_without_timeout: behind a
\* closed lid the internal panel of the running session is off.
LidKeepsPanelOff == (Running /\ lid = "closed") => w.internalPanel = "off"

-----------------------------------------------------------------------------
(* Action properties.                                                      *)

\* Of the paused guards (and of the daemon's routing): until it is resumed, a
\* paused session changes neither the panels, the backlight, the modem nor
\* the mode it will be resumed in, and suspends nothing.
PausedSessionIsDark ==
  [][w.paused /\ w'.paused =>
       /\ w'.internalPanel = w.internalPanel
       /\ w'.externalPanel = w.externalPanel
       /\ w'.backlight = w.backlight
       /\ w'.modem = w.modem
       /\ w'.mode = w.mode
       /\ w'.calls \cap {"suspend", "power_off", "notify_display_on",
                         "notify_display_off"} = {}]_vars

\* Of is_inactivity_timeout_application_allowed: while a client keeps the
\* display on, no alarm dims it or turns it off, unless a notification or a
\* call turned it on.
ClientKeepsDisplayOn ==
  [][(/\ Alarm /\ DisplayOn
      /\ "client" \in w.disallowedTimeouts
      /\ w.reason \notin {"notification", "call"})
       => w'.mode = "on" /\ w'.backlight = w.backlight]_vars

\* Of the strict comparisons with the off time point: the end of a
\* notification or of a call never brings the display's end nearer.
EndsNeverShorten ==
  [][(NotificationDone \/ NoActiveCall) /\ DisplayOn
       => w'.mode = "on" /\ w'.offTime >= w.offTime]_vars

\* Of suspend_when_allowed: the system is suspended while a client disallows
\* it only by the lid or a critical battery.
SuspendRespectsClients ==
  [][("suspend" \in w'.calls /\ ~LidMoves /\ ~PowerSourceCritical)
       => w'.suspendAllowed]_vars

\* Of handle_power_button_press and release: a press made while the display
\* is on and released before the long-press timeout turns the display off.
ShortPressTurnsOff ==
  [][(PowerButtonRelease /\ Running /\ w.modeAtPress = "on" /\ w.longPressAlarm # NoAlarm)
       => w'.mode = "off"]_vars

-----------------------------------------------------------------------------
(* Liveness.                                                               *)

\* Of the inactivity timers as a whole: in a running session whose clients do
\* not keep the display on, with a finite display-off timeout, the display
\* goes off once nothing more happens, whatever notifications and calls left.
DisplayGoesOff ==
  (quiet /\ Running /\ "client" \notin w.disallowedTimeouts
     /\ w.offTimeout[w.supply] # Infinite) ~> (w.mode = "off")

\* Of the proximity enablements as a whole: outside a call the sensor does not
\* stay on, whatever notifications and calls switched it on.
IdleSensorGoesOff ==
  (quiet /\ "until_disabled" \notin w.proximityEnablements /\ Running)
    ~> ~w.proximityEvents

\* Of the suspend timer beside the display's (schedule_normal_alarm arms both,
\* every other function must leave the suspend alarm alone): once it is armed
\* and no client and no notification objects, the system is suspended.
IdleSystemSuspends ==
  (quiet /\ Running /\ w.suspendAlarm # NoAlarm /\ TimeoutAllowed(w) /\ w.suspendAllowed)
    ~> ("suspend" \in w.calls)

=============================================================================
