SPECIFICATION AdaptersSpec
CONSTANTS
  PartsExplored = {"alarms", "clients", "locks", "logind", "wakeups", "calls", "brightness", "battery",
                   "settings", "life", "start", "display", "files", "backlights"}
  MaxAlarms = 4
  AlarmIdCount = 3
  MaxHeld = 2
  Sessions = {"s1", "s2"}
  CompatibleSessions = {"s1"}
  UserOf <- MCUserOf
  InvalidSession = "none"
  MaxSwitches = 2
  MaxSeatSignals = 2
  Clients = {"c1", "c2", "c3"}
  SessionOf <- MCSessionOf
  ClientUser <- MCClientUser
  MethodsOf <- MCMethodsOf
  NamesOf <- MCNamesOf
  PidsOf <- MCPidsOf
  EveryProcess = "every"
  NoProcess = "nobody"
  PatientClients = {"c1"}
  AnsweredClients = {"c1"}
  DaemonKeepsUp = TRUE
  MaxClientCalls = 2
  MaxOutside = 3
  MaxCallsWaiting = 1
  MaxDepartures = 1
  InhibitionNames = {"Wakeup"}
  MaxInhibitions = 2
  LogindAnswers = TRUE
  MaxBlockChanges = 3
  MaxSleeps = 1
  MaxPowerSignals = 3
  MaxTime = 3
  MaxWakeups = 2
  CallPaths = {"call1", "call2"}
  Modems = {"modem1"}
  MaxOfonoChanges = 4
  MaxOfonoSignals = 2
  Lights = {"dark", "bright"}
  BrightnessOf <- MCBrightnessOf
  UserValues = {1, 3}
  DimBrightness = 2
  MaxBrightnessCalls = 4
  MaxLightReadings = 2
  MaxDebounces = 2
  Batteries = {"bat0"}
  Percentages = {0, 1, 2}
  NonCriticalPercentage = 2
  PluggedStates = {"charging"}
  BatteryStates = {"discharging", "pending_discharge"}
  DeviceTypes = {"battery", "line_power"}
  OtherDevices = TRUE
  UPowerAnswers = TRUE
  MaxUPowerChanges = 3
  MaxUPowerSignals = 2
  SettingSessions = {"s1", "s2"}
  NullSession = "none"
  ActionArgs = {"display-off", "suspend", "none"}
  SupplyArgs = {"battery", "nowhere"}
  TimeoutArgs = {0, 5}
  BrightnessArgs = {1, 2}
  MaxSettingCalls = 2
  MaxFrontChanges = 2
  MaxPortSignals = 2
  MaxOutputChanges = 3
  AttributeNames <- MCAttributeNames
  NameOf <- MCNameOf
  Texts = {"1", "2"}
  MaxTexts = 3
  Units = 12
  MaxLevel = 4
  FadeTargets = {0, 5, 12, 29}
  MaxFades = 3
  MaxOutsideWrites = 2
INVARIANTS
  AdaptersTypeOK
  AlarmsAreSound
  DaemonFollowsSeat
  RequestsEndWithClient
  RequestsAreNotLost
  InhibitionsHold
  ServicesAreKnown
  WakeupsAreSound
  LightIsCurrent
  BacklightFollows
  SupplyIsKnown
  EmptyBatteryIsKnown
  SettingsAreReported
  RunIsOrderly
  StartIsComplete
CHECK_DEADLOCK FALSE
