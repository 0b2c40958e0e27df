----------------------------- MODULE Brightness -----------------------------
(***************************************************************************)
(* BacklightBrightnessControl with the autobrightness algorithm and the    *)
(* light sensor: four threads.  The daemon's calls wait for a task on the  *)
(* "Backlight" loop; tasks that switch the sensor wait for one on the      *)
(* "Light" loop, which joins the thread that reads the sensor; that thread *)
(* hands its readings to the Backlight loop without waiting.  The timer of *)
(* a debounce is not cancelled: a sequence number makes it void.           *)
(***************************************************************************)
EXTENDS Naturals, Integers, Sequences, FiniteSets, FiniteSetsExt

CONSTANTS
  Lights,                 \* what the sensor reads
  BrightnessOf,           \* the spline, divided by max_brightness
  UserValues,
  DimBrightness,
  MaxBrightnessCalls,     \* bound: calls of the daemon
  MaxLightReadings,       \* bound: readings, in all
  MaxDebounces            \* bound: how often one is set again, at the end of a debounce

ASSUME BrightnessAssumption ==
  /\ DimBrightness \in Nat \ {0}
  /\ UserValues \subseteq Nat /\ BrightnessOf \in [Lights -> Nat]
  /\ {MaxBrightnessCalls, MaxLightReadings, MaxDebounces} \subseteq Nat

unknown_brightness == -1

VARIABLES
  normal_before_display_on_autobrightness,  \* the quirk
  brightnessCall,       \* the daemon's call that waits, or "none"
  brightnessCalls,
  backlightQueue,       \* tasks on the Backlight loop
  backlightLoop,        \* "idle", or "waiting" for the Light loop
  backlight,
  normal_brightness, user_normal_brightness,
  active_brightness_type,
  ab_active,
  brightnessTold,       \* what the handler was last called with
  started,              \* of the algorithm
  lightsAveraged,       \* readings since reset: what the averages lie between
  applied_light,
  debouncing, debouncing_seqnum,
  debounceTimers,       \* timers that have not gone off
  litPeriod,            \* history: how often the algorithm was started
  lightLoop,            \* "idle", "enable", "disable" or "join"
  sensorEnabled,        \* enabled, of the sensor
  sensorThread,         \* "none", "loop", "read", "handler" or "ended"
  lightReadings

controlState == <<backlight, normal_brightness, user_normal_brightness,
                  active_brightness_type, ab_active, brightnessTold>>
algorithmVars == <<started, lightsAveraged, applied_light, debouncing, debouncing_seqnum,
                   debounceTimers, litPeriod>>
sensorVars == <<sensorEnabled, sensorThread, lightReadings>>
callerVars == <<normal_before_display_on_autobrightness, brightnessCall, brightnessCalls>>
brightnessVars == <<callerVars, backlightQueue, backlightLoop, controlState, algorithmVars,
                    lightLoop, sensorVars>>

NoLight == [light |-> CHOOSE l \in Lights : TRUE, period |-> 0]

BrightnessInit ==
  /\ normal_before_display_on_autobrightness \in BOOLEAN
  /\ brightnessCall = "none" /\ brightnessCalls = 0
  /\ backlightQueue = <<>> /\ backlightLoop = "idle"
  /\ backlight \in {unknown_brightness, 0}
  /\ user_normal_brightness \in UserValues /\ normal_brightness = user_normal_brightness
  /\ active_brightness_type = "off" /\ ab_active = FALSE /\ brightnessTold = unknown_brightness
  /\ started = FALSE /\ lightsAveraged = {} /\ applied_light = NoLight
  /\ debouncing = FALSE /\ debouncing_seqnum = 0 /\ debounceTimers = {} /\ litPeriod = 0
  /\ lightLoop = "idle" /\ sensorEnabled = FALSE /\ sensorThread = "none" /\ lightReadings = 0

-----------------------------------------------------------------------------
(* The daemon's calls.                                                     *)

BrightnessTask(t, v) == [task |-> t, value |-> v]
LightTask(l) == [task |-> "light", reading |-> [light |-> l, period |-> litPeriod]]

BrightnessCalls ==
  {BrightnessTask(t, 0) : t \in {"dim", "normal", "off", "enable", "disable"}}
    \cup {BrightnessTask("value", v) : v \in UserValues}

DaemonCalls ==
  /\ brightnessCall = "none" /\ brightnessCalls < MaxBrightnessCalls
  /\ \E c \in BrightnessCalls :
       brightnessCall' = c.task /\ backlightQueue' = Append(backlightQueue, c)
  /\ brightnessCalls' = brightnessCalls + 1
  /\ UNCHANGED <<normal_before_display_on_autobrightness, backlightLoop, controlState,
                 algorithmVars, lightLoop, sensorVars>>

-----------------------------------------------------------------------------
(* The Backlight loop.                                                     *)

\* transition_to_brightness_value: the steps in between are not seen.
TransitionTo(b) ==
  /\ backlight' = b
  /\ brightnessTold' = IF backlight # b THEN b ELSE brightnessTold

NoTransition == UNCHANGED <<backlight, brightnessTold>>

\* Mutant: a debounce of the period before is valid still.
ResetKeepsSeqnum ==
  /\ lightsAveraged' = {} /\ applied_light' = NoLight
  /\ debouncing' = FALSE /\ debouncing_seqnum' = debouncing_seqnum

reset ==
  /\ lightsAveraged' = {} /\ applied_light' = NoLight
  /\ debouncing' = FALSE /\ debouncing_seqnum' = debouncing_seqnum + 1

\* start and stop of the algorithm; nothing if it is started or stopped already.
StartOrStop(start) ==
  /\ started' = start
  /\ IF started # start THEN reset
     ELSE UNCHANGED <<lightsAveraged, applied_light, debouncing, debouncing_seqnum>>
  /\ litPeriod' = IF start /\ ~started THEN litPeriod + 1 ELSE litPeriod
  /\ UNCHANGED debounceTimers

\* Waits for the Light loop; what the task does after it nobody sees before.
SwitchSensor(how) == lightLoop' = how /\ backlightLoop' = "waiting"

Done == brightnessCall' = "none"
NoSensor == UNCHANGED <<algorithmVars, lightLoop, backlightLoop>> /\ Done

disable_autobrightness ==
  IF ab_active
  THEN /\ StartOrStop(FALSE) /\ SwitchSensor("disable") /\ UNCHANGED brightnessCall
       /\ normal_brightness' = user_normal_brightness /\ ab_active' = FALSE
       /\ IF active_brightness_type = "normal" THEN TransitionTo(user_normal_brightness) ELSE NoTransition
       /\ UNCHANGED <<user_normal_brightness, active_brightness_type>>
  ELSE NoSensor /\ UNCHANGED controlState

enable_autobrightness ==
  /\ ab_active' = TRUE
  /\ IF ~ab_active /\ active_brightness_type = "normal"
     THEN StartOrStop(TRUE) /\ SwitchSensor("enable") /\ UNCHANGED brightnessCall
     ELSE NoSensor
  /\ UNCHANGED <<backlight, normal_brightness, user_normal_brightness, active_brightness_type, brightnessTold>>

set_dim_brightness ==
  /\ IF backlight > 0 /\ backlight < DimBrightness THEN NoTransition ELSE TransitionTo(DimBrightness)
  /\ active_brightness_type' = "dim"
  /\ NoSensor /\ UNCHANGED <<normal_brightness, user_normal_brightness, ab_active>>

set_normal_brightness ==
  /\ IF ab_active /\ active_brightness_type = "off"
     THEN /\ IF normal_before_display_on_autobrightness THEN TransitionTo(normal_brightness)
             ELSE NoTransition
          /\ StartOrStop(TRUE) /\ SwitchSensor("enable") /\ UNCHANGED brightnessCall
     ELSE TransitionTo(normal_brightness) /\ NoSensor
  /\ active_brightness_type' = "normal"
  /\ UNCHANGED <<normal_brightness, user_normal_brightness, ab_active>>

set_normal_brightness_value(v) ==
  /\ user_normal_brightness' = v
  /\ normal_brightness' = IF ab_active THEN normal_brightness ELSE v
  /\ IF active_brightness_type = "normal" /\ ~ab_active THEN TransitionTo(v) ELSE NoTransition
  /\ NoSensor /\ UNCHANGED <<active_brightness_type, ab_active>>

set_off_brightness ==
  /\ TransitionTo(0) /\ active_brightness_type' = "off"
  /\ StartOrStop(FALSE) /\ SwitchSensor("disable") /\ UNCHANGED brightnessCall
  /\ UNCHANGED <<normal_brightness, user_normal_brightness, ab_active>>

\* Mutant: light that is measured while the display is dim brightens it.
HandleBrightnessOfAnyType(b) ==
  IF ab_active
  THEN /\ normal_brightness' = b
       /\ IF active_brightness_type # "off" THEN TransitionTo(b) ELSE NoTransition
       /\ UNCHANGED <<user_normal_brightness, active_brightness_type, ab_active>>
  ELSE UNCHANGED controlState

\* What the control does with a brightness that the algorithm proposes.
HandleAutobrightness(b) ==
  IF ab_active
  THEN /\ normal_brightness' = b
       /\ IF active_brightness_type = "normal" THEN TransitionTo(b) ELSE NoTransition
       /\ UNCHANGED <<user_normal_brightness, active_brightness_type, ab_active>>
  ELSE UNCHANGED controlState

schedule_debounce ==
  IF debouncing
  THEN UNCHANGED <<debouncing, debouncing_seqnum, debounceTimers>>
  ELSE /\ debouncing' = TRUE /\ debouncing_seqnum' = debouncing_seqnum + 1
       /\ debounceTimers' = debounceTimers \cup {[seqnum |-> debouncing_seqnum', period |-> litPeriod]}

have_previous_light_values == lightsAveraged # {}

\* The averages move towards the reading: they lie between those there were.
update_averages(r) == lightsAveraged' = lightsAveraged \cup {r}

\* Mutant: a reading that comes late is used.
NewLightWhenStopped(r) ==
  /\ update_averages(r)
  /\ IF ~have_previous_light_values
     THEN /\ HandleAutobrightness(BrightnessOf[r.light]) /\ applied_light' = r
          /\ UNCHANGED <<debouncing, debouncing_seqnum, debounceTimers>>
     ELSE schedule_debounce /\ UNCHANGED <<controlState, applied_light>>
  /\ UNCHANGED <<started, litPeriod, lightLoop, backlightLoop, brightnessCall>>

new_light_value(r) ==
  /\ IF ~started
     THEN UNCHANGED <<controlState, lightsAveraged, applied_light, debouncing, debouncing_seqnum, debounceTimers>>
     ELSE /\ update_averages(r)
          /\ IF ~have_previous_light_values
             THEN /\ HandleAutobrightness(BrightnessOf[r.light]) /\ applied_light' = r
                  /\ UNCHANGED <<debouncing, debouncing_seqnum, debounceTimers>>
             ELSE schedule_debounce /\ UNCHANGED <<controlState, applied_light>>
  /\ UNCHANGED <<started, litPeriod, lightLoop, backlightLoop, brightnessCall>>

BacklightRuns ==
  /\ backlightLoop = "idle" /\ backlightQueue # <<>>
  /\ LET t == Head(backlightQueue)
     IN \/ t.task = "disable" /\ disable_autobrightness
        \/ t.task = "enable" /\ enable_autobrightness
        \/ t.task = "dim" /\ set_dim_brightness
        \/ t.task = "normal" /\ set_normal_brightness
        \/ t.task = "value" /\ set_normal_brightness_value(t.value)
        \/ t.task = "off" /\ set_off_brightness
        \/ t.task = "light" /\ new_light_value(t.reading)
  /\ backlightQueue' = Tail(backlightQueue)
  /\ UNCHANGED <<normal_before_display_on_autobrightness, brightnessCalls, sensorVars>>

\* The timer of a debounce goes off, four seconds after it was set: averages
\* that have moved far enough are applied, and if they move still, it is set
\* again.  What they have come to is any reading since the start.
DebounceGoesOff ==
  /\ backlightLoop = "idle"
  /\ \E t \in debounceTimers :
       LET others == debounceTimers \ {t}
       IN IF t.seqnum # debouncing_seqnum
          THEN /\ debounceTimers' = others
               /\ UNCHANGED <<controlState, applied_light, debouncing, debouncing_seqnum>>
          ELSE /\ \/ UNCHANGED <<controlState, applied_light>>
                  \/ \E r \in lightsAveraged :
                       HandleAutobrightness(BrightnessOf[r.light]) /\ applied_light' = r
               /\ \/ debouncing' = FALSE /\ debounceTimers' = others /\ UNCHANGED debouncing_seqnum
                  \/ /\ debouncing_seqnum < MaxDebounces + 2 * MaxBrightnessCalls
                     /\ debouncing' = TRUE /\ debouncing_seqnum' = debouncing_seqnum + 1
                     /\ debounceTimers' = others \cup
                          {[seqnum |-> debouncing_seqnum + 1, period |-> litPeriod]}
  /\ UNCHANGED <<callerVars, backlightQueue, backlightLoop, started, lightsAveraged, litPeriod,
                 lightLoop, sensorVars>>

-----------------------------------------------------------------------------
(* The Light loop, and the thread that reads the sensor.                   *)

\* The task on the Light loop has run: so has the one that waits for it.
LightTaskDone == lightLoop' = "idle" /\ backlightLoop' = "idle" /\ brightnessCall' = "none"

enable_light_events ==
  /\ lightLoop = "enable"
  /\ IF sensorEnabled THEN UNCHANGED <<sensorEnabled, sensorThread>>
     ELSE sensorEnabled' = TRUE /\ sensorThread' = "loop"
  /\ LightTaskDone
  /\ UNCHANGED <<normal_before_display_on_autobrightness, brightnessCalls, backlightQueue,
                 controlState, algorithmVars, lightReadings>>

disable_light_events ==
  /\ lightLoop = "disable"
  /\ sensorEnabled' = FALSE
  /\ IF sensorEnabled THEN lightLoop' = "join" /\ UNCHANGED <<backlightLoop, brightnessCall>>
     ELSE LightTaskDone
  /\ UNCHANGED <<normal_before_display_on_autobrightness, brightnessCalls, backlightQueue,
                 controlState, algorithmVars, sensorThread, lightReadings>>

SensorThreadJoined ==
  /\ lightLoop = "join" /\ sensorThread = "ended"
  /\ sensorThread' = "none" /\ LightTaskDone
  /\ UNCHANGED <<normal_before_display_on_autobrightness, brightnessCalls, backlightQueue,
                 controlState, algorithmVars, sensorEnabled, lightReadings>>

\* Twice a second, while enabled.
SensorReads ==
  /\ sensorThread = "loop" /\ (sensorEnabled => lightReadings < MaxLightReadings)
  /\ sensorThread' = IF sensorEnabled THEN "handler" ELSE "ended"
  /\ lightReadings' = IF sensorEnabled THEN lightReadings + 1 ELSE lightReadings
  /\ UNCHANGED <<callerVars, backlightQueue, backlightLoop, controlState, algorithmVars, lightLoop, sensorEnabled>>

\* Mutant: the sensor's thread waits until its reading has been used.
HandlerWaits ==
  /\ sensorThread = "handler" /\ backlightLoop = "idle"
  /\ \E l \in Lights : backlightQueue' = Append(backlightQueue, LightTask(l))
  /\ sensorThread' = "loop"
  /\ UNCHANGED <<callerVars, backlightLoop, controlState, algorithmVars, lightLoop, sensorEnabled, lightReadings>>

\* The handler that the control registered.
handle_light_event ==
  /\ sensorThread = "handler"
  /\ \E l \in Lights : backlightQueue' = Append(backlightQueue, LightTask(l))
  /\ sensorThread' = "loop"
  /\ UNCHANGED <<callerVars, backlightLoop, controlState, algorithmVars, lightLoop, sensorEnabled, lightReadings>>

BrightnessNext ==
  \/ DaemonCalls \/ BacklightRuns \/ DebounceGoesOff
  \/ enable_light_events \/ disable_light_events \/ SensorThreadJoined
  \/ SensorReads \/ handle_light_event

\* Each loop runs its tasks in turn, and the thread runs.
BrightnessFairness ==
  /\ WF_brightnessVars(BacklightRuns)
  /\ WF_brightnessVars(enable_light_events \/ disable_light_events \/ SensorThreadJoined)
  /\ WF_brightnessVars(SensorReads \/ handle_light_event)

BrightnessSpec == BrightnessInit /\ [][BrightnessNext]_brightnessVars /\ BrightnessFairness

-----------------------------------------------------------------------------
(* Properties.                                                             *)

BrightnessTypeOK ==
  /\ active_brightness_type \in {"normal", "dim", "off"}
  /\ backlight \in {unknown_brightness, 0, DimBrightness} \cup UserValues \cup {BrightnessOf[l] : l \in Lights}
  /\ lightLoop \in {"idle", "enable", "disable", "join"}
  /\ sensorThread \in {"none", "loop", "handler", "ended"}
  /\ backlightLoop = "waiting" <=> lightLoop # "idle"

\* Of readings that reach the Backlight loop after the display went off, and
\* on again: the averages are made of readings of this period only.
LightIsOfThisPeriod ==
  \A r \in lightsAveraged : started /\ r.period = litPeriod

\* Of the sequence number: while the algorithm debounces, exactly one of the
\* timers is valid, one of this period, and otherwise none is; so that it
\* neither stops to adapt nor applies what an earlier period left behind.
OneDebounceIsPending ==
  LET valid == {t \in debounceTimers : t.seqnum = debouncing_seqnum}
  IN IF debouncing THEN Cardinality(valid) = 1 /\ \A t \in valid : t.period = litPeriod
     ELSE valid = {}

\* Of light that is measured while the display is dim or off, of switching
\* autobrightness in any of the three states, and of values set meanwhile:
\* a display that is off is dark, a dim one no brighter than dim, and without
\* autobrightness a bright one is as the user wants it.
BacklightMatchesType ==
  (backlightQueue = <<>> /\ brightnessCall = "none" /\ brightnessTold # unknown_brightness) =>
    /\ active_brightness_type = "off" => backlight = 0
    /\ active_brightness_type = "dim" => backlight > 0 /\ backlight <= DimBrightness
    /\ (active_brightness_type = "normal" /\ ~ab_active) => backlight = user_normal_brightness

\* Of the four threads: each call of the daemon returns, whatever the sensor's
\* thread does when it is to be joined.
BrightnessCallsReturn ==
  (brightnessCall # "none") ~> (brightnessCall = "none")

\* Of the autobrightness algorithm: it works with the light of this period,
\* and one debounce at a time.
LightIsCurrent == LightIsOfThisPeriod /\ OneDebounceIsPending

=============================================================================
