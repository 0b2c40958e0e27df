----------------------------- MODULE MCAdapters -----------------------------
(***************************************************************************)
(* The components around the state machines, for TLC.  They share no state *)
(* but what their own modules model of their neighbours, so one behaviour  *)
(* explores one of them: part says which, and the others stay as they      *)
(* start.  The fairness of each component's specification is stated again  *)
(* for the behaviours that explore it.                                     *)
(***************************************************************************)
EXTENDS AlarmTable, ScreenService, PowerLocks, LogindPower, Wakeups, VoiceCalls,
        Brightness, PowerSource, ClientSettings, Lifecycle, StartUp, Display, DeviceFiles,
        Backlights

CONSTANT PartsExplored

ASSUME PartsAssumption ==
  PartsExplored \subseteq
    {"alarms", "clients", "locks", "logind", "wakeups", "calls", "brightness", "battery",
     "settings", "life", "start", "display", "files", "backlights"}

VARIABLE part

adapterVars == <<part, alarmVars, screenVars, powerVars, logindPowerVars, wakeupVars, voiceVars,
                 brightnessVars, sourceVars, settingVars, lifeVars, startVars, displayVars, fileVars,
                 backlightsVars>>

\* A client with a session that calls all but what names others; root, who takes
\* requests back, also the third's in its name and for any process; and that
\* third, whose session is the same.
MCSessionOf == [c1 |-> "s1", c2 |-> "none", c3 |-> "s1"]
MCClientUser == [c1 |-> "u1", c2 |-> "root", c3 |-> "u1"]
MCUserOf == [s1 |-> "u1", s2 |-> "u2"]
MCMethodsOf ==
  [c1 |-> {"displayOnRequest", "removeDisplayOnRequest", "requestSysState", "clearSysState",
          "notification_on", "notification_off"},
   c2 |-> {"removeDisplayOnRequest", "keepDisplayOn", "keepDisplayOff",
           "keepDisplayNameOwnerChanged"},
   c3 |-> {"displayOnRequest"}]
MCNamesOf == [c1 |-> {}, c2 |-> {"c3"}, c3 |-> {}]
MCPidsOf == [c1 |-> {}, c2 |-> {"c2", "every"}, c3 |-> {}]
\* Nobody names another, for the claim that nothing outlives clients.
MCNoNames == [c \in DOMAIN MCNamesOf |-> {}]

MCBrightnessOf == [dark |-> 1, bright |-> 3]
MCNameOf == [config_a |-> "a", a |-> "a", b |-> "b"]
MCAttributeNames == DOMAIN MCNameOf

-----------------------------------------------------------------------------
\* A device's types are only compared, so that it may begin with any of them.
FrozenDevice == [is_present |-> FALSE, type |-> "battery", state |-> "charging", percentage |-> 0]

AdaptersInit ==
  /\ part \in PartsExplored
  /\ AlarmInit
  /\ ScreenInit /\ (part # "clients" => seatActive = InvalidSession /\ ~ignore_session_deactivation)
  /\ PowerInit /\ (part # "locks" => powerControl = "logind")
  /\ LogindPowerInit /\ (part # "logind" => ~sleepBlocked)
  /\ WakeupsInit /\ (part # "wakeups" => wakeupService = "timerfd")
  /\ VoiceInit /\ (part # "calls" => ofonoModems = {})
  /\ BrightnessInit /\ (part # "brightness" =>
       backlight = 0 /\ user_normal_brightness = 1 /\ normal_before_display_on_autobrightness)
  /\ PowerSourceInit /\ (part # "battery" => ~onBattery /\ upDevice = FrozenDevice)
  /\ upDevice.type = FrozenDevice.type
  /\ SettingsInit
  /\ LifeInit
  /\ StartInit
  /\ DisplayInit /\ (part # "display" => ~externalOutput)
  /\ FileInit
  /\ BacklightsInit /\ (part # "backlights" => backlightKind = "sysfs")

OthersStay ==
  /\ part # "alarms" => UNCHANGED alarmVars
  /\ part # "clients" => UNCHANGED screenVars
  /\ part # "locks" => UNCHANGED powerVars
  /\ part # "logind" => UNCHANGED logindPowerVars
  /\ part # "wakeups" => UNCHANGED wakeupVars
  /\ part # "calls" => UNCHANGED voiceVars
  /\ part # "brightness" => UNCHANGED brightnessVars
  /\ part # "battery" => UNCHANGED sourceVars
  /\ part # "settings" => UNCHANGED settingVars
  /\ part # "life" => UNCHANGED lifeVars
  /\ part # "start" => UNCHANGED startVars
  /\ part # "display" => UNCHANGED displayVars
  /\ part # "files" => UNCHANGED fileVars
  /\ part # "backlights" => UNCHANGED backlightsVars

AdaptersNext ==
  /\ UNCHANGED part
  /\ \/ part = "alarms" /\ AlarmNext
     \/ part = "clients" /\ ScreenNext
     \/ part = "locks" /\ PowerNext
     \/ part = "logind" /\ LogindPowerNext
     \/ part = "wakeups" /\ WakeupsNext
     \/ part = "calls" /\ VoiceNext
     \/ part = "brightness" /\ BrightnessNext
     \/ part = "battery" /\ PowerSourceNext
     \/ part = "settings" /\ SettingsNext
     \/ part = "life" /\ LifeNext
     \/ part = "start" /\ StartNext
     \/ part = "display" /\ DisplayNext
     \/ part = "files" /\ FileNext
     \/ part = "backlights" /\ BacklightsNext
  /\ OthersStay

AlarmsRun ==
  /\ WF_alarmVars(part = "alarms" /\ AlarmGoesOff)
  /\ WF_alarmVars(part = "alarms" /\ (StoreCancellation \/ RunCancel))
  /\ WF_alarmVars(part = "alarms" /\ AttachAlarm)
  /\ WF_alarmVars(part = "alarms" /\ TakeAlarm)

LocksRun ==
  /\ WF_powerVars(part = "locks" /\ WriteLock) /\ WF_powerVars(part = "locks" /\ ScheduleEnd)
  /\ WF_powerVars(part = "locks" /\ SystemWakesUp) /\ SF_powerVars(part = "locks" /\ EndInhibition)

WakeupsRun ==
  /\ WF_wakeupVars(part = "wakeups" /\ WallClockTicks)
  /\ WF_wakeupVars(part = "wakeups" /\ AlarmFires)
  /\ WF_wakeupVars(part = "wakeups"
                     /\ (AlarmWaitReturns \/ TakeWakeup \/ CallWakeupHandler \/ ResetAndWait))
  /\ SF_wakeupVars(part = "wakeups" /\ TimerfdReadable)

BrightnessRuns ==
  /\ WF_brightnessVars(part = "brightness" /\ BacklightRuns)
  /\ WF_brightnessVars(part = "brightness"
                         /\ (enable_light_events \/ disable_light_events \/ SensorThreadJoined))
  /\ WF_brightnessVars(part = "brightness" /\ (SensorReads \/ handle_light_event))

LifeRuns ==
  /\ WF_lifeVars(part = "life" /\ MainSteps) /\ WF_lifeVars(part = "life" /\ stop)
  /\ \A p \in Ports : WF_lifeVars(part = "life" /\ LoopSteps(p))

AdaptersFairness == AlarmsRun /\ LocksRun /\ WakeupsRun /\ BrightnessRuns /\ LifeRuns

AdaptersSpec == AdaptersInit /\ [][AdaptersNext]_adapterVars /\ AdaptersFairness

-----------------------------------------------------------------------------
(* The properties of the components, some of them taken together.          *)

\* The types of every component's state.
AdaptersTypeOK ==
  /\ AlarmTypeOK /\ TrackerTypeOK /\ ScreenTypeOK /\ PowerTypeOK /\ LogindPowerTypeOK
  /\ WakeupsTypeOK /\ VoiceTypeOK /\ BrightnessTypeOK /\ PowerSourceTypeOK /\ SettingsTypeOK
  /\ LifeTypeOK /\ StartTypeOK /\ DisplayTypeOK /\ FileTypeOK /\ BacklightsTypeOK

\* What the daemon believes of the services around it, once nothing is on its
\* way, is so: of oFono's calls and modems, of the batteries and the display
\* outputs, and of what logind blocks.
ServicesAreKnown ==
  CallsAreKnown /\ ModemsAreKnown /\ BatteriesAreKnown /\ OutputsAreKnown /\ BlockIsKnown

\* Of their threads: a wakeup is given in the end, and the thread that the
\* destructor joins ends.
WakeupsGoOn == WakeupsAreGiven /\ WakeupThreadEnds

\* Of the control and the devices: the backlight ends as the last call set it.
BacklightFollows == BacklightMatchesType /\ BacklightReadsBack /\ FadeArrives

\* Of stop: it overtakes what is queued, and the run ends.
RunStops == StopComesFirst /\ StopIsHeeded

\* Of the objects that the daemon is built of and the files that configure
\* them: none is missing, made twice or a needless fallback, and no value of
\* the default file is mixed with one of the device's.
StartIsComplete ==
  NoPortIsMissing /\ NothingIsBuiltTwice /\ FallbackIsLast /\ LastElementHolds

=============================================================================
