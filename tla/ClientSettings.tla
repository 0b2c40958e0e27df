--------------------------- MODULE ClientSettings ---------------------------
(***************************************************************************)
(* The settings that clients make, by two services, each with a loop and a *)
(* connection of its own: the screen service (brightness and the timeouts  *)
(* that turn the display off) and RepowerdService (what inactivity, the    *)
(* lid and a critical battery do).  A call is taken, checked and queued at *)
(* the daemon as an event for the session of the caller; only then is it   *)
(* answered and signalled to everybody.  The daemon's thread hands the     *)
(* event to the machine of that session, which makes checks of its own.    *)
(* Two of the calls write the same timeouts, on different threads.  The    *)
(* machine in front also tells the brightness control, which all share;    *)
(* the others keep what they were told until they are resumed.             *)
(***************************************************************************)
EXTENDS SequencesExt, Tables

CONSTANTS
  SettingSessions,  \* sessions the daemon knows
  NullSession,      \* the null machine's: callers nobody can place
  ActionArgs,       \* the strings that clients give for an action
  SupplyArgs,       \* and for a power supply
  TimeoutArgs,
  BrightnessArgs,
  MaxSettingCalls,  \* bound: how many calls clients make
  MaxFrontChanges   \* bound: how often another session, or none, comes to the front

ASSUME ClientSettingsAssumption ==
  /\ NullSession \notin SettingSessions
  /\ TimeoutArgs \subseteq Int /\ BrightnessArgs \subseteq Nat
  /\ MaxSettingCalls \in Nat /\ MaxFrontChanges \in Nat

VARIABLES
  settingCall,        \* by service, the call it works on
  settingCallsMade,
  settingEvents,      \* at the daemon
  settings,           \* by session, what its machine keeps
  frontSession,       \* whose machine is not paused; the null machine is none's
  frontChanges,
  control,            \* what the brightness control was last told
  brightness_params,  \* default_value and autobrightness_supported
  answeredSettings,   \* history: by service and session, what callers were told is set
  lastBrightnessFrom, \* history: session of the last call, by kind of brightness setting
  overruled           \* history: the machine in front set a brightness after autobrightness

callSettingVars == <<settingCall, settingCallsMade, brightness_params, answeredSettings, lastBrightnessFrom>>
machineSettingVars == <<settings, frontSession, frontChanges, control, overruled>>
settingVars == <<callSettingVars, settingEvents, machineSettingVars>>

Services == {"screen", "repowerd"}
InfiniteTimeout == 1000000
PowerSupplies == {"battery", "line-power"}
PowerActions == {"none", "display-off", "suspend", "power-off"}

\* What a machine keeps, by name.
TimeoutKeys == {"display-off", "suspend"} \X PowerSupplies
LidKeys == {"lid"} \X PowerSupplies
CriticalKey == <<"critical", "">>
BrightnessKey == <<"brightness", "">>
AutobrightnessKey == <<"autobrightness", "">>
SettingKeys == TimeoutKeys \cup LidKeys \cup {CriticalKey, BrightnessKey, AutobrightnessKey}
InitialSettings ==
  [k \in SettingKeys |->
     CASE k \in TimeoutKeys -> InfiniteTimeout
       [] k \in LidKeys -> "none"
       [] k = CriticalKey -> "power-off"
       [] k = BrightnessKey -> 0
       [] k = AutobrightnessKey -> FALSE]

NoSettingCall == [method |-> "none"]

SettingsInit ==
  /\ settingCall = [v \in Services |-> NoSettingCall] /\ settingCallsMade = 0
  /\ settingEvents = <<>>
  /\ settings = [s \in SettingSessions |-> InitialSettings]
  /\ brightness_params = [default_value |-> 0, autobrightness_supported |-> FALSE]
  /\ answeredSettings = [v \in Services |-> [s \in SettingSessions |-> <<>>]]
  /\ lastBrightnessFrom = [k \in {"brightness", "autobrightness"} |-> NullSession]
  /\ frontSession = NullSession /\ frontChanges = 0
  /\ control = [value |-> 0, autobrightness |-> FALSE] /\ overruled = FALSE

-----------------------------------------------------------------------------
(* The calls and what the services make of them.                           *)

SettingArguments(m) ==
  CASE m = "SetInactivityBehavior" -> ActionArgs \X SupplyArgs \X TimeoutArgs
    [] m = "SetLidBehavior" -> ActionArgs \X SupplyArgs
    [] m = "SetCriticalPowerBehavior" -> ActionArgs
    [] m = "setUserBrightness" -> BrightnessArgs
    [] m = "userAutobrightnessEnable" -> BOOLEAN
    [] m = "setInactivityTimeouts" -> TimeoutArgs
    [] OTHER -> {"unknown"}

MethodsOfService ==
  [screen |-> {"setUserBrightness", "userAutobrightnessEnable", "setInactivityTimeouts"},
   repowerd |-> {"SetInactivityBehavior", "SetLidBehavior", "SetCriticalPowerBehavior", "misspelt"}]

\* The exceptions that become answers, and the method nobody knows.
Accepted(m, a) ==
  CASE m = "SetInactivityBehavior" -> a[1] \in {"display-off", "suspend"} /\ a[2] \in PowerSupplies
    [] m = "SetLidBehavior" -> a[1] \in {"none", "suspend"} /\ a[2] \in PowerSupplies
    [] m = "SetCriticalPowerBehavior" -> a \in {"suspend", "power-off"}
    [] OTHER -> m # "misspelt"

TimeoutOf(t) == IF t <= 0 THEN InfiniteTimeout ELSE t

\* What the event tells the machine to set.
Written(m, a) ==
  CASE m = "SetInactivityBehavior" -> Entry(<<a[1], a[2]>>, TimeoutOf(a[3]))
    [] m = "SetLidBehavior" -> Entry(<<"lid", a[2]>>, a[1])
    [] m = "SetCriticalPowerBehavior" -> Entry(CriticalKey, a)
    [] m = "setUserBrightness" -> Entry(BrightnessKey, a)
    [] m = "userAutobrightnessEnable" -> Entry(AutobrightnessKey, a)
    [] m = "setInactivityTimeouts" -> [k \in {"display-off"} \X PowerSupplies |-> TimeoutOf(a)]

\* A service takes a call and asks the bus for the process that makes it.
TakeSettingCall(v) ==
  /\ settingCall[v] = NoSettingCall /\ settingCallsMade < MaxSettingCalls
  /\ \E m \in MethodsOfService[v], s \in SettingSessions \cup {NullSession} :
       \E a \in SettingArguments(m) :
         settingCall' = [settingCall EXCEPT ![v] =
           [method |-> m, arguments |-> a, session |-> s, queued |-> FALSE]]
  /\ settingCallsMade' = settingCallsMade + 1
  /\ UNCHANGED <<settingEvents, machineSettingVars, brightness_params, answeredSettings, lastBrightnessFrom>>

\* The handler that the daemon registered queues the event, ...
QueueSetting(v) ==
  LET c == settingCall[v] IN
  /\ c # NoSettingCall /\ ~c.queued
  /\ IF Accepted(c.method, c.arguments)
     THEN /\ settingEvents' = Append(settingEvents,
                [session |-> c.session, set |-> Written(c.method, c.arguments)])
          /\ settingCall' = [settingCall EXCEPT ![v].queued = TRUE]
     ELSE /\ settingCall' = [settingCall EXCEPT ![v] = NoSettingCall]
          /\ UNCHANGED settingEvents
  /\ UNCHANGED <<settingCallsMade, machineSettingVars, brightness_params, answeredSettings, lastBrightnessFrom>>

\* Mutant: the brightness that a client sets is not reported.
ParamsKeepDefault(p, m, a) ==
  IF m = "userAutobrightnessEnable" THEN [p EXCEPT !.autobrightness_supported = a] ELSE p

ParamsAfter(p, m, a) ==
  CASE m = "setUserBrightness" -> [p EXCEPT !.default_value = a]
    [] m = "userAutobrightnessEnable" -> [p EXCEPT !.autobrightness_supported = a]
    [] OTHER -> p

\* ... and the service answers and signals the change.
AnswerSetting(v) ==
  LET c == settingCall[v]
      k == CASE c.method = "setUserBrightness" -> {"brightness"}
             [] c.method = "userAutobrightnessEnable" -> {"autobrightness"}
             [] OTHER -> {}
  IN /\ c # NoSettingCall /\ c.queued
     /\ brightness_params' = ParamsAfter(brightness_params, c.method, c.arguments)
     /\ settingCall' = [settingCall EXCEPT ![v] = NoSettingCall]
     /\ answeredSettings' =
          IF c.session = NullSession THEN answeredSettings
          ELSE [answeredSettings EXCEPT ![v][c.session] = Over(Written(c.method, c.arguments), @)]
     /\ lastBrightnessFrom' =
          [n \in DOMAIN lastBrightnessFrom |-> IF n \in k THEN c.session ELSE lastBrightnessFrom[n]]
     /\ UNCHANGED <<settingCallsMade, settingEvents, machineSettingVars>>

-----------------------------------------------------------------------------
(* The daemon's thread: the machine ignores what it does not know.  The    *)
(* null machine has no settings.                                           *)

MachineKnows(k, x) ==
  CASE k \in TimeoutKeys -> x > 0
    [] k \in LidKeys -> x \in {"none", "suspend"}
    [] k = CriticalKey -> x \in {"suspend", "power-off"}
    [] OTHER -> TRUE

\* Mutant: a brightness leaves autobrightness on.
ControlKeepsAutobrightness(c, set) ==
  IF BrightnessKey \in DOMAIN set THEN [c EXCEPT !.value = set[BrightnessKey]]
  ELSE IF AutobrightnessKey \in DOMAIN set
       THEN [c EXCEPT !.autobrightness = set[AutobrightnessKey]] ELSE c

\* What a machine that is not paused tells the control: autobrightness goes off
\* there with a brightness, and the machine keeps it as it was.
ControlAfter(c, set) ==
  IF BrightnessKey \in DOMAIN set THEN [value |-> set[BrightnessKey], autobrightness |-> FALSE]
  ELSE IF AutobrightnessKey \in DOMAIN set
       THEN [c EXCEPT !.autobrightness = set[AutobrightnessKey]] ELSE c

HandleSetting ==
  /\ settingEvents # <<>>
  /\ LET e == Head(settingEvents)
         known == {k \in DOMAIN e.set : MachineKnows(k, e.set[k])}
         front == e.session = frontSession /\ frontSession # NullSession
     IN /\ settings' = IF e.session = NullSession THEN settings
                       ELSE [settings EXCEPT ![e.session] = Over(Restrict(e.set, known), @)]
        /\ control' = IF front THEN ControlAfter(control, e.set) ELSE control
        /\ overruled' = IF ~front THEN overruled
                        ELSE BrightnessKey \in DOMAIN e.set
                               \/ (overruled /\ AutobrightnessKey \notin DOMAIN e.set)
  /\ settingEvents' = Tail(settingEvents)
  /\ UNCHANGED <<callSettingVars, frontSession, frontChanges>>

\* A session that the daemon knows comes to the front, or the null machine does,
\* when the session is none of the daemon's or is removed: the machine in front
\* pauses, the other resumes.
SessionComesToFront(s) ==
  /\ frontChanges < MaxFrontChanges /\ frontChanges' = frontChanges + 1
  /\ frontSession' = s
  /\ control' =
       IF s # NullSession
       THEN [value |-> settings[s][BrightnessKey], autobrightness |-> settings[s][AutobrightnessKey]]
       ELSE IF frontSession # NullSession THEN [control EXCEPT !.autobrightness = FALSE] ELSE control
  /\ overruled' = FALSE
  /\ UNCHANGED <<callSettingVars, settingEvents, settings>>

SettingsNext ==
  \/ \E v \in Services : TakeSettingCall(v) \/ QueueSetting(v) \/ AnswerSetting(v)
  \/ HandleSetting
  \/ \E s \in SettingSessions \cup {NullSession} : SessionComesToFront(s)

SettingsSpec == SettingsInit /\ [][SettingsNext]_settingVars

-----------------------------------------------------------------------------
SettingsTypeOK ==
  /\ DOMAIN settingCall = Services /\ DOMAIN settings = SettingSessions
  /\ \A s \in SettingSessions : DOMAIN settings[s] = SettingKeys
  /\ brightness_params.default_value \in Nat
  /\ brightness_params.autobrightness_supported \in BOOLEAN
  /\ frontSession \in SettingSessions \cup {NullSession}
  /\ DOMAIN control = {"value", "autobrightness"}

SettingsAreQuiet ==
  settingEvents = <<>> /\ \A v \in Services : settingCall[v] = NoSettingCall

\* Once nothing is under way, every setting of every session is one that a
\* service answered as set (the last of that service) or, if none did, the
\* one the session began with: what a service accepts, the machine does not
\* quietly refuse, and no event reaches a wrong session.  With two services
\* that write one timeout at once, either may be the last.
SettingsAreAnswered ==
  SettingsAreQuiet =>
    \A s \in SettingSessions : \A k \in SettingKeys :
      LET told == {v \in Services : k \in DOMAIN answeredSettings[v][s]} IN
      settings[s][k] \in IF told = {} THEN {InitialSettings[k]}
                         ELSE {answeredSettings[v][s][k] : v \in told}

\* Once nothing is under way, the parameters that getBrightnessParams gives
\* to everybody are what the machine of the session that set them last keeps,
\* in front or not, and will tell the control when it is resumed.
BrightnessIsReported ==
  SettingsAreQuiet =>
    /\ lastBrightnessFrom["brightness"] \in SettingSessions =>
         brightness_params.default_value
           = settings[lastBrightnessFrom["brightness"]][BrightnessKey]
    /\ lastBrightnessFrom["autobrightness"] \in SettingSessions =>
         brightness_params.autobrightness_supported
           = settings[lastBrightnessFrom["autobrightness"]][AutobrightnessKey]

\* Once nothing is under way, the control goes by what is reported when the
\* session in front set it last, whatever was set while it was not in front;
\* with one exception, that a brightness set after autobrightness turns it off
\* while it is reported as on.  With no session in front autobrightness is off.
BrightnessIsCarriedOut ==
  SettingsAreQuiet =>
    /\ frontSession = NullSession => ~control.autobrightness
    /\ frontSession # NullSession =>
         /\ lastBrightnessFrom["brightness"] = frontSession =>
              control.value = brightness_params.default_value
         /\ lastBrightnessFrom["autobrightness"] = frontSession =>
              control.autobrightness <=> (brightness_params.autobrightness_supported /\ ~overruled)

\* Of the two services that clients set things with: what they answer and
\* report is what the session's machine keeps and what the control goes by.
SettingsAreReported == SettingsAreAnswered /\ BrightnessIsReported /\ BrightnessIsCarriedOut

=============================================================================
