--------------------------- MODULE SessionProofs ---------------------------
(***************************************************************************)
(* The session's type invariant, six of its safety invariants and four     *)
(* action properties, for every value of the constants.                    *)
(*                                                                         *)
(* None of the invariants is inductive by itself.  The adapter's           *)
(* transitions keep the types only because ids are those of the clients;   *)
(* the sensor follows its enablements in a running session only because a  *)
(* paused one never has the events on without an enablement (resume would  *)
(* leave them on); the automatic suspend is disallowed when it must be     *)
(* only because nobody lets go of it that another reason still holds       *)
(* (LockHeld says which reasons those are).  IInv joins them.  The timer   *)
(* needs more of the time point and the dim alarm than the property says   *)
(* (Timing), the panels more of the timer of a dark display (Lighting);    *)
(* OrderInv joins those.  Every action is a handler of                     *)
(* DefaultStateMachineProofs or one of the adapter's, applied to the world *)
(* with its calls forgotten.                                               *)
(***************************************************************************)
EXTENDS Session, DefaultStateMachineProofs

\* The ids held are ids that clients send.
IdsOK(v) ==
  /\ v.inactivityRequests \in SUBSET RequestIds
  /\ v.suspendRequests \in SUBSET RequestIds
  /\ v.notifications \in SUBSET NotificationIds

\* AdapterAgrees, of any world.
Agrees(v) ==
  /\ "client" \in v.disallowedTimeouts <=> v.inactivityRequests # {}
  /\ v.suspendAllowed <=> v.suspendRequests = {}
  /\ "notification" \in v.disallowedTimeouts => v.notifications # {}

\* The part of the invariant that is about the world alone.
WorldInv(v) ==
  /\ Sound(v) /\ SensorNeeded(v) /\ SensorServed(v) /\ LockHeld(v)
  /\ IdsOK(v) /\ Agrees(v)

\* The inductive invariant.
IInv ==
  /\ WorldInv(w)
  /\ button \in {"up", "down"}
  /\ lid \in {"open", "closed"}
  /\ callListed \in BOOLEAN
  /\ quiet \in BOOLEAN

USE DEF NoAlarm, Past

-----------------------------------------------------------------------------
\* A handler that keeps the allowances and the adapter's sets keeps the whole
\* invariant of the world.
LEMMA KeepsWorldInv ==
  ASSUME NEW u, NEW v, WorldInv(v), Keeps(u, v)
  PROVE  WorldInv(u)
BY DEF WorldInv, Keeps, SensorKept, SameIds, SameAllowances, IdsOK, Agrees

\* Forgetting the calls of the last step keeps the invariant.
LEMMA BeforeInv ==
  ASSUME WorldInv(w)
  PROVE  WorldInv(Before) /\ Sound(Before)
BY DEF Before, WorldInv, Sound, WorldOK, MachineOK, PortsOK, SensorNeeded, SensorServed,
       LockHeld, IdsOK, Agrees, WorldFields, MachineFields, PortFields

\* StateEventAdapter::handle_enable_inactivity_timeout: the machine takes its
\* allowance back exactly when the last id is gone.
LEMMA AdapterEnableInactivityTimeoutInv ==
  ASSUME NEW v, WorldInv(v), NEW id \in RequestIds
  PROVE  WorldInv(AdapterEnableInactivityTimeout(v, id))
<1> DEFINE r == v.inactivityRequests \ {id}
           u == [v EXCEPT !.inactivityRequests = r]
<1>1. /\ Sound(u) /\ SensorNeeded(u) /\ SensorServed(u) /\ LockHeld(u) /\ IdsOK(u)
      /\ u.inactivityRequests = r
      /\ u.suspendRequests = v.suspendRequests
      /\ u.notifications = v.notifications
      /\ u.suspendAllowed = v.suspendAllowed
      /\ u.disallowedTimeouts = v.disallowedTimeouts
  BY DEF WorldInv, Sound, WorldOK, MachineOK, PortsOK, SensorNeeded, SensorServed, LockHeld,
         IdsOK,
         WorldFields, MachineFields, PortFields
<1>2. AdapterEnableInactivityTimeout(v, id) = IF r = {} THEN AllowTimeout(u, "client") ELSE u
  BY <1>1 DEF AdapterEnableInactivityTimeout, HandleEnableInactivityTimeout
<1> HIDE DEF u
<1>3. Lifts(AllowTimeout(u, "client"), u, "client")
  BY <1>1, AllowTimeoutLifts DEF Allowances
<1>4. CASE r = {}
  BY <1>1, <1>2, <1>3, <1>4 DEF WorldInv, Agrees, IdsOK, Lifts, SensorKept, SameIds
<1>5. CASE r # {}
  BY <1>1, <1>2, <1>5 DEF WorldInv, Agrees
<1> QED BY <1>4, <1>5

\* StateEventAdapter::handle_disable_inactivity_timeout.
LEMMA AdapterDisableInactivityTimeoutInv ==
  ASSUME NEW v, WorldInv(v), NEW id \in RequestIds
  PROVE  WorldInv(AdapterDisableInactivityTimeout(v, id))
<1> DEFINE r == v.inactivityRequests \cup {id}
           u == [v EXCEPT !.inactivityRequests = r]
           h == HandleDisableInactivityTimeout(u)
<1>1. /\ Sound(u) /\ SensorNeeded(u) /\ SensorServed(u) /\ LockHeld(u) /\ IdsOK(u)
      /\ u.inactivityRequests = r
      /\ u.suspendRequests = v.suspendRequests
      /\ u.notifications = v.notifications
      /\ u.suspendAllowed = v.suspendAllowed
      /\ u.disallowedTimeouts = v.disallowedTimeouts
  BY DEF WorldInv, Sound, WorldOK, MachineOK, PortsOK, SensorNeeded, SensorServed, LockHeld,
         IdsOK,
         WorldFields, MachineFields, PortFields
<1>2. AdapterDisableInactivityTimeout(v, id) = h
  BY DEF AdapterDisableInactivityTimeout
<1> HIDE DEF u
<1>3. Holds(h, u, "client")
  BY <1>1, HandleDisableInactivityTimeoutHolds
<1> HIDE DEF h
<1> QED BY <1>1, <1>2, <1>3 DEF WorldInv, Agrees, IdsOK, Holds, SensorKept, SameIds

\* StateEventAdapter::handle_notification.
LEMMA AdapterNotificationInv ==
  ASSUME NEW v, WorldInv(v), NEW id \in NotificationIds
  PROVE  WorldInv(AdapterNotification(v, id))
<1> DEFINE n == v.notifications \cup {id}
           u == [v EXCEPT !.notifications = n]
           h == HandleNotification(u)
<1>1. /\ Sound(u) /\ SensorNeeded(u) /\ SensorServed(u) /\ LockHeld(u) /\ IdsOK(u)
      /\ u.notifications = n
      /\ u.inactivityRequests = v.inactivityRequests
      /\ u.suspendRequests = v.suspendRequests
      /\ u.suspendAllowed = v.suspendAllowed
      /\ u.disallowedTimeouts = v.disallowedTimeouts
  BY DEF WorldInv, Sound, WorldOK, MachineOK, PortsOK, SensorNeeded, SensorServed, LockHeld,
         IdsOK,
         WorldFields, MachineFields, PortFields
<1>2. AdapterNotification(v, id) = h
  BY DEF AdapterNotification
<1> HIDE DEF u
<1>3. Holds(h, u, "notification")
  BY <1>1, HandleNotificationHolds
<1> HIDE DEF h
<1> QED BY <1>1, <1>2, <1>3 DEF WorldInv, Agrees, IdsOK, Holds, SensorKept, SameIds

\* StateEventAdapter::handle_notification_done: an unknown id changes nothing,
\* the last known one ends the allowance.
LEMMA AdapterNotificationDoneInv ==
  ASSUME NEW v, WorldInv(v), NEW id \in NotificationIds
  PROVE  WorldInv(AdapterNotificationDone(v, id))
<1> DEFINE n == v.notifications \ {id}
           u == [v EXCEPT !.notifications = n]
           h == HandleNoNotification(u)
<1>1. /\ Sound(u) /\ SensorNeeded(u) /\ SensorServed(u) /\ LockHeld(u) /\ IdsOK(u)
      /\ u.notifications = n
      /\ u.inactivityRequests = v.inactivityRequests
      /\ u.suspendRequests = v.suspendRequests
      /\ u.suspendAllowed = v.suspendAllowed
      /\ u.disallowedTimeouts = v.disallowedTimeouts
  BY DEF WorldInv, Sound, WorldOK, MachineOK, PortsOK, SensorNeeded, SensorServed, LockHeld,
         IdsOK,
         WorldFields, MachineFields, PortFields
<1>2. AdapterNotificationDone(v, id)
        = IF id \in v.notifications /\ n = {} THEN h ELSE u
  BY <1>1 DEF AdapterNotificationDone
<1> HIDE DEF u
<1>3. Lifts(h, u, "notification")
  BY <1>1, HandleNoNotificationLifts
<1> HIDE DEF h
<1>4. CASE id \in v.notifications /\ n = {}
  BY <1>1, <1>2, <1>3, <1>4 DEF WorldInv, Agrees, IdsOK, Lifts, SensorKept, SameIds
<1>5. CASE ~(id \in v.notifications /\ n = {})
  BY <1>1, <1>2, <1>5 DEF WorldInv, Agrees
<1> QED BY <1>4, <1>5

\* StateEventAdapter::handle_allow_suspend: the last id to go, known or not,
\* makes the machine allow suspend.
LEMMA AdapterAllowSuspendInv ==
  ASSUME NEW v, WorldInv(v), NEW id \in RequestIds
  PROVE  WorldInv(AdapterAllowSuspend(v, id))
<1> DEFINE r == v.suspendRequests \ {id}
           u == [v EXCEPT !.suspendRequests = r]
           h == HandleAllowSuspend(u)
<1>1. /\ Sound(u) /\ SensorNeeded(u) /\ SensorServed(u) /\ LockHeld(u) /\ IdsOK(u)
      /\ u.suspendRequests = r
      /\ u.inactivityRequests = v.inactivityRequests
      /\ u.notifications = v.notifications
      /\ u.suspendAllowed = v.suspendAllowed
      /\ u.disallowedTimeouts = v.disallowedTimeouts
  BY DEF WorldInv, Sound, WorldOK, MachineOK, PortsOK, SensorNeeded, SensorServed, LockHeld,
         IdsOK,
         WorldFields, MachineFields, PortFields
<1>2. AdapterAllowSuspend(v, id) = IF r = {} THEN h ELSE u
  BY <1>1 DEF AdapterAllowSuspend
<1> HIDE DEF u
<1>3. /\ Sound(h) /\ SameIds(h, u)
      /\ SensorKept(h, u)
      /\ LockHeld(u) => LockHeld(h)
      /\ h.disallowedTimeouts = u.disallowedTimeouts
      /\ h.suspendAllowed
  BY <1>1, HandleAllowSuspendAllows
<1> HIDE DEF h
<1>4. CASE r = {}
  BY <1>1, <1>2, <1>3, <1>4 DEF WorldInv, Agrees, IdsOK, SensorKept, SameIds
<1>5. CASE r # {}
  BY <1>1, <1>2, <1>5 DEF WorldInv, Agrees
<1> QED BY <1>4, <1>5

\* StateEventAdapter::handle_disallow_suspend.
LEMMA AdapterDisallowSuspendInv ==
  ASSUME NEW v, WorldInv(v), NEW id \in RequestIds
  PROVE  WorldInv(AdapterDisallowSuspend(v, id))
<1> DEFINE r == v.suspendRequests \cup {id}
           u == [v EXCEPT !.suspendRequests = r]
           h == HandleDisallowSuspend(u)
<1>1. /\ Sound(u) /\ SensorNeeded(u) /\ SensorServed(u) /\ LockHeld(u) /\ IdsOK(u)
      /\ u.suspendRequests = r
      /\ u.inactivityRequests = v.inactivityRequests
      /\ u.notifications = v.notifications
      /\ u.suspendAllowed = v.suspendAllowed
      /\ u.disallowedTimeouts = v.disallowedTimeouts
  BY DEF WorldInv, Sound, WorldOK, MachineOK, PortsOK, SensorNeeded, SensorServed, LockHeld,
         IdsOK,
         WorldFields, MachineFields, PortFields
<1>2. AdapterDisallowSuspend(v, id) = h
  BY DEF AdapterDisallowSuspend
<1> HIDE DEF u
<1>3. /\ Sound(h) /\ SameIds(h, u)
      /\ SensorKept(h, u)
      /\ LockHeld(u) => LockHeld(h)
      /\ h.disallowedTimeouts = u.disallowedTimeouts
      /\ ~h.suspendAllowed
  BY <1>1, HandleDisallowSuspendDisallows
<1> HIDE DEF h
<1> QED BY <1>1, <1>2, <1>3 DEF WorldInv, Agrees, IdsOK, SensorKept, SameIds

\* The machine as it is constructed beside the ports as they start.
LEMMA InitialWorldInv ==
  ASSUME NEW supply \in Supplies
  PROVE  WorldInv(InitialWorld(supply)) /\ Sound(InitialWorld(supply))
<1> DEFINE b == CHOOSE v \in BrightnessValues : TRUE
           m == ConstructedMachine(b)
           p == InitialPorts(supply)
           u == InitialWorld(supply)
<1>1. b \in BrightnessValues
  BY OptionsAssumption
<1> HIDE DEF b
<1>2. DOMAIN u = WorldFields
  BY DEF InitialWorld
<1>3. \A f \in MachineFields : u[f] = m[f]
  BY DEF InitialWorld, WorldFields, b
<1>4. \A f \in PortFields : u[f] = p[f]
  BY DEF InitialWorld, WorldFields, MachineFields, PortFields
<1> HIDE DEF u, m, p
<1>5. MachineOK(u)
  <2> DEFINE off == [s \in Supplies |-> NormalDisplayOffTimeout]
             susp == [s \in Supplies |-> NormalSuspendTimeout]
             lids == [s \in Supplies |-> "suspend"]
  <2>1. off \in [Supplies -> TimeoutRange] /\ susp \in [Supplies -> TimeoutRange]
    BY OptionsAssumption DEF TimeoutRange
  <2>2. lids \in [Supplies -> LidActions]
    BY DEF LidActions
  <2>3. u.offTimeout = off /\ u.suspendTimeout = susp /\ u.lidAction = lids
    BY <1>3 DEF MachineFields, m, ConstructedMachine
  <2>4. NoAlarm \in Ticks /\ Past \in Past .. Infinite
    BY OptionsAssumption DEF Ticks
  <2>5. /\ u.longPressAlarm = NoAlarm /\ u.dimAlarm = NoAlarm /\ u.offAlarm = NoAlarm
        /\ u.suspendAlarm = NoAlarm /\ u.proximityAlarm = NoAlarm
        /\ u.notificationAlarm = NoAlarm /\ u.offTime = Past
    BY <1>3 DEF MachineFields, m, ConstructedMachine
  <2>6. /\ u.mode = "off" /\ u.modeAtPress = "unknown" /\ u.reason = "unknown"
        /\ u.supply = "battery" /\ u.timeoutType = "none" /\ u.criticalAction = "power_off"
    BY <1>3 DEF MachineFields, m, ConstructedMachine
  <2>7. /\ u.disallowedTimeouts = {} /\ u.proximityEnablements = {}
        /\ u.longPressDetected = FALSE /\ u.paused = FALSE /\ u.autobrightness = FALSE
        /\ u.brightnessValue = b /\ u.lidClosed = FALSE
        /\ u.suspendAllowed = TRUE /\ u.suspendPending = FALSE /\ u.calls = {}
    BY <1>3 DEF MachineFields, m, ConstructedMachine
  <2> HIDE DEF off, susp, lids
  <2> QED BY <1>1, <2>1, <2>2, <2>3, <2>4, <2>5, <2>6, <2>7
          DEF MachineOK, DisplayModes, Reasons, Supplies, TimeoutTypes, CriticalActions
<1>6. PortsOK(u)
  BY <1>4, <1>1, OptionsAssumption DEF PortsOK, PortFields, p, InitialPorts, DisplayModes, b
<1>7. SensorNeeded(u) /\ SensorServed(u) /\ LockHeld(u) /\ IdsOK(u) /\ Agrees(u)
  BY <1>3, <1>4
     DEF SensorNeeded, SensorServed, LockHeld, IdsOK, Agrees, MachineFields, PortFields, m, p,
         ConstructedMachine, InitialPorts
<1> QED BY <1>2, <1>5, <1>6, <1>7 DEF WorldInv, Sound, WorldOK, u

\* The invariant holds of every initial state.
LEMMA InitInv == Init => IInv
<1> SUFFICES ASSUME Init PROVE IInv
  OBVIOUS
<1>1. PICK supply \in Supplies : w = StartMachine(InitialWorld(supply))
  BY SessionAssumption DEF Init
<1>2. WorldInv(InitialWorld(supply)) /\ Sound(InitialWorld(supply))
  BY InitialWorldInv
<1>3. Keeps(w, InitialWorld(supply))
  BY <1>1, <1>2, StartMachineKeeps
<1>4. WorldInv(w)
  BY <1>2, <1>3, KeepsWorldInv
<1> QED BY <1>4 DEF Init, IInv

\* What the sensor reads changes nothing else.
LEMMA ProximityChangeInv ==
  ASSUME WorldInv(w), ProximityChange
  PROVE  WorldInv(w')
<1>1. WorldInv(Before)
  BY BeforeInv
<1>2. w' = [Before EXCEPT !.near = ~w.near]
  BY DEF ProximityChange, Handled
<1> QED BY <1>1, <1>2
        DEF WorldInv, Sound, WorldOK, MachineOK, PortsOK, SensorNeeded, SensorServed, LockHeld,
            IdsOK, Agrees, WorldFields, MachineFields, PortFields

\* A change of the power source keeps the invariant.
LEMMA PowerSourceChangeInv ==
  ASSUME WorldInv(w), PowerSourceChange
  PROVE  WorldInv(w')
<1>1. PICK supply \in Supplies :
        LET v == [Before EXCEPT !.powerSupply = supply]
        IN w' \in {HandlePowerSourceChange(v), v}
  BY DEF PowerSourceChange, Handled
<1> DEFINE v == [Before EXCEPT !.powerSupply = supply]
<1>2. WorldInv(v)
  <2>1. WorldInv(Before)
    BY BeforeInv
  <2> QED BY <2>1
          DEF WorldInv, Sound, WorldOK, MachineOK, PortsOK, SensorNeeded, SensorServed,
              LockHeld, IdsOK, Agrees, WorldFields, MachineFields, PortFields
<1> HIDE DEF v
<1>3. Sound(v)
  BY <1>2 DEF WorldInv
<1>4. WorldInv(HandlePowerSourceChange(v))
  BY <1>2, <1>3, HandlePowerSourceChangeKeeps, KeepsWorldInv
<1> QED BY <1>1, <1>2, <1>4 DEF v

\* Plugging external displays in and out keeps the invariant.
LEMMA ExternalDisplaysChangeInv ==
  ASSUME WorldInv(w), ExternalDisplaysChange
  PROVE  WorldInv(w')
<1> DEFINE x == ~w.externalDisplays
           b == Before
<1>1. WorldInv(b)
  BY BeforeInv
<1>2. x \in BOOLEAN
  OBVIOUS
<1>3. w' = [b EXCEPT !.externalDisplays = x]
  BY DEF ExternalDisplaysChange, Handled
<1> HIDE DEF x, b
<1> QED BY <1>1, <1>2, <1>3
        DEF WorldInv, Sound, WorldOK, MachineOK, PortsOK, SensorNeeded, SensorServed, LockHeld,
            IdsOK,
            Agrees, WorldFields, MachineFields, PortFields

\* The request that sets the display-off timeout of both supplies, one after
\* the other, keeps the invariant.
LEMMA SetInactivityTimeoutInv ==
  ASSUME WorldInv(w), SetInactivityTimeout
  PROVE  WorldInv(w')
<1>1. PICK t \in Timeouts :
        w' = HandleSetInactivityBehavior(
               HandleSetInactivityBehavior(Before, "display_off", "battery", t),
               "display_off", "line_power", t)
  BY DEF SetInactivityTimeout, Handled
<1> DEFINE v == HandleSetInactivityBehavior(Before, "display_off", "battery", t)
<1>2. t \in TimeoutRange /\ "battery" \in Supplies /\ "line_power" \in Supplies
  BY SessionAssumption DEF TimeoutRange, Supplies
<1>3. WorldInv(v)
  BY <1>2, BeforeInv, HandleSetInactivityBehaviorKeeps, KeepsWorldInv
<1>4. Sound(v)
  BY <1>3 DEF WorldInv
<1> HIDE DEF v
<1>5. WorldInv(HandleSetInactivityBehavior(v, "display_off", "line_power", t))
  BY <1>2, <1>3, <1>4, HandleSetInactivityBehaviorKeeps, KeepsWorldInv
<1> QED BY <1>1, <1>5 DEF v

\* Every action keeps the invariant of the world: one step for each.
LEMMA NextWorldInv ==
  ASSUME WorldInv(w), Next
  PROVE  WorldInv(w')
<1>1. WorldInv(Before) /\ Sound(Before)
  BY BeforeInv
<1> DEFINE b == Before
<1>2. WorldInv(b) /\ Sound(b)
  BY <1>1
<1>3. ASSUME NEW u, Keeps(u, b) PROVE WorldInv(u)
  BY <1>2, <1>3, KeepsWorldInv
<1>4. CASE Tick
  BY <1>2, <1>3, <1>4, PassTimeKeeps DEF Tick, Handled
<1>5. CASE LongPressAlarm
  BY <1>2, <1>3, <1>5, HandleLongPressAlarmKeeps DEF LongPressAlarm, Handled
<1>6. CASE DimAlarm
  BY <1>2, <1>3, <1>6, HandleDimAlarmKeeps DEF DimAlarm, Handled
<1>7. CASE OffAlarm
  BY <1>2, <1>3, <1>7, HandleOffAlarmKeeps DEF OffAlarm, Handled
<1>8. CASE SuspendAlarm
  BY <1>2, <1>3, <1>8, HandleSuspendAlarmKeeps DEF SuspendAlarm, Handled
<1>9. CASE ProximityAlarm
  BY <1>2, <1>3, <1>9, HandleProximityDisableAlarmKeeps DEF ProximityAlarm, Handled
<1>10. CASE NotificationAlarm
  <2>1. w' = HandleNotificationExpirationAlarm(b)
    BY <1>10 DEF NotificationAlarm, Handled
  <2>2. Lifts(HandleNotificationExpirationAlarm(b), b, "notification")
    BY <1>2, HandleNotificationExpirationAlarmLifts
  <2> QED BY <1>2, <2>1, <2>2 DEF Lifts, SensorKept, WorldInv, SameIds, IdsOK, Agrees
<1>11. CASE PowerButtonPress
  BY <1>2, <1>3, <1>11, HandlePowerButtonPressKeeps DEF PowerButtonPress
<1>12. CASE PowerButtonRelease
  BY <1>2, <1>3, <1>12, HandlePowerButtonReleaseKeeps DEF PowerButtonRelease
<1>13. CASE UserActivityChanging
  BY <1>2, <1>3, <1>13, HandleUserActivityChangingKeeps DEF UserActivityChanging, Handled
<1>14. CASE UserActivityExtending
  BY <1>2, <1>3, <1>14, HandleUserActivityExtendingKeeps DEF UserActivityExtending, Handled
<1>15. CASE EnableInactivityTimeout
  BY <1>2, <1>15, AdapterEnableInactivityTimeoutInv DEF EnableInactivityTimeout, Handled
<1>16. CASE DisableInactivityTimeout
  BY <1>2, <1>16, AdapterDisableInactivityTimeoutInv DEF DisableInactivityTimeout, Handled
<1>17. CASE SetInactivityTimeout
  BY <1>17, SetInactivityTimeoutInv
<1>18. CASE SetInactivityBehavior
  <2>1. PICK action \in {"none", "display_off", "suspend", "power_off"},
             supply \in Supplies, t \in Timeouts :
          w' = HandleSetInactivityBehavior(b, action, supply, t)
    BY <1>18 DEF SetInactivityBehavior, Handled
  <2>2. t \in TimeoutRange
    BY SessionAssumption DEF TimeoutRange
  <2> QED BY <1>2, <1>3, <2>1, <2>2, HandleSetInactivityBehaviorKeeps
<1>19. CASE SetLidBehavior
  BY <1>2, <1>3, <1>19, HandleSetLidBehaviorKeeps DEF SetLidBehavior, Handled
<1>20. CASE SetCriticalPowerBehavior
  BY <1>2, <1>3, <1>20, HandleSetCriticalPowerBehaviorKeeps
     DEF SetCriticalPowerBehavior, Handled
<1>21. CASE SetNormalBrightnessValue
  BY <1>2, <1>3, <1>21, HandleSetNormalBrightnessValueKeeps
     DEF SetNormalBrightnessValue, Handled
<1>22. CASE EnableAutobrightness
  BY <1>2, <1>3, <1>22, HandleEnableAutobrightnessKeeps DEF EnableAutobrightness, Handled
<1>23. CASE DisableAutobrightness
  BY <1>2, <1>3, <1>23, HandleDisableAutobrightnessKeeps DEF DisableAutobrightness, Handled
<1>24. CASE AllowSuspend
  BY <1>2, <1>24, AdapterAllowSuspendInv DEF AllowSuspend, Handled
<1>25. CASE DisallowSuspend
  BY <1>2, <1>25, AdapterDisallowSuspendInv DEF DisallowSuspend, Handled
<1>26. CASE TurnOnDisplayRequest
  BY <1>2, <1>3, <1>26, TurnOnDisplayWithNormalTimeoutKeeps
     DEF TurnOnDisplayRequest, Handled, HandleTurnOnDisplay, Reasons
<1>27. CASE TurnOffDisplayRequest
  BY <1>2, <1>3, <1>27, TurnOffDisplayKeeps
     DEF TurnOffDisplayRequest, Handled, HandleTurnOffDisplay, Reasons
<1>28. CASE Notification
  BY <1>2, <1>28, AdapterNotificationInv DEF Notification, Handled
<1>29. CASE NotificationDone
  BY <1>2, <1>29, AdapterNotificationDoneInv DEF NotificationDone, Handled
<1>30. CASE ActiveCall
  BY <1>2, <1>3, <1>30, HandleActiveCallKeeps DEF ActiveCall
<1>31. CASE NoActiveCall
  BY <1>2, <1>3, <1>31, HandleNoActiveCallKeeps DEF NoActiveCall, Handled
<1>32. CASE ProximityReport
  BY <1>2, <1>3, <1>32, HandleProximityNearKeeps, HandleProximityFarKeeps
     DEF ProximityReport, Handled
<1>33. CASE LidMoves
  BY <1>2, <1>3, <1>33, HandleLidClosedKeeps, HandleLidOpenKeeps DEF LidMoves
<1>34. CASE ExternalDisplaysChange
  BY <1>34, ExternalDisplaysChangeInv
<1>35. CASE PowerSourceChange
  BY <1>35, PowerSourceChangeInv
<1>36. CASE PowerSourceCritical
  BY <1>2, <1>3, <1>36, HandlePowerSourceCriticalKeeps DEF PowerSourceCritical, Handled
<1>37. CASE SystemResume
  BY <1>2, <1>3, <1>37, TurnOnDisplayWithNormalTimeoutKeeps
     DEF SystemResume, Handled, HandleSystemResume, Reasons
<1>38. CASE Pause
  BY <1>2, <1>3, <1>38, PauseMachineKeeps DEF Pause, Handled
<1>39. CASE Resume
  BY <1>2, <1>3, <1>39, ResumeMachineKeeps DEF Resume, Handled
<1>40. CASE GoQuiet
  BY <1>2, <1>40 DEF GoQuiet
<1>41. CASE ProximityChange
  BY <1>41, ProximityChangeInv
<1> HIDE DEF b
<1> QED BY <1>4, <1>5, <1>6, <1>7, <1>8, <1>9, <1>10, <1>11, <1>12, <1>13, <1>14, <1>15,
           <1>16, <1>17, <1>18, <1>19, <1>20, <1>21, <1>22, <1>23, <1>24, <1>25, <1>26,
           <1>27, <1>28, <1>29, <1>30, <1>31, <1>32, <1>33, <1>34, <1>35, <1>36, <1>37,
           <1>38, <1>39, <1>40, <1>41
        DEF Next

\* The invariant is inductive.
LEMMA NextInv == IInv /\ [Next]_vars => IInv'
<1> SUFFICES ASSUME IInv, [Next]_vars PROVE IInv'
  OBVIOUS
<1>1. CASE Next
  <2>1. WorldInv(w')
    BY <1>1, NextWorldInv DEF IInv
  <2>2. /\ button' \in {"up", "down"}
        /\ lid' \in {"open", "closed"}
        /\ callListed' \in BOOLEAN
        /\ quiet' \in BOOLEAN
    BY <1>1
       DEF IInv, Next, Handled, Tick, LongPressAlarm, DimAlarm, OffAlarm, SuspendAlarm,
           ProximityAlarm, NotificationAlarm, PowerButtonPress, PowerButtonRelease,
           UserActivityChanging, UserActivityExtending, EnableInactivityTimeout,
           DisableInactivityTimeout, SetInactivityTimeout, SetInactivityBehavior,
           SetLidBehavior, SetCriticalPowerBehavior, SetNormalBrightnessValue,
           EnableAutobrightness, DisableAutobrightness, AllowSuspend, DisallowSuspend,
           TurnOnDisplayRequest, TurnOffDisplayRequest, Notification, NotificationDone,
           ActiveCall, NoActiveCall, ProximityChange, ProximityReport, LidMoves,
           ExternalDisplaysChange, PowerSourceChange, PowerSourceCritical, SystemResume, Pause,
           Resume, GoQuiet
  <2> QED BY <2>1, <2>2 DEF IInv
<1>2. CASE UNCHANGED vars
  BY <1>2 DEF vars, IInv
<1> QED BY <1>1, <1>2

\* The inductive invariant holds in every reachable state of the session.
THEOREM InvariantHolds == Spec => []IInv
BY InitInv, NextInv, PTL DEF Spec

\* Whatever the timeouts, the ids and the sources of events, the machine (every
\* handler of DefaultStateMachine), its adapter and its ports keep their types:
\* no alarm, time point or enumeration leaves its range, and the adapter holds
\* only ids that clients may send.
THEOREM TypeCorrect == Spec => []TypeOK
<1>1. IInv => TypeOK
  BY DEF IInv, WorldInv, Sound, IdsOK, TypeOK
<1> QED BY <1>1, InvariantHolds, PTL

\* In every running session, for any sequence of calls, notifications, far and
\* near events, pauses and resumes, the events of the proximity sensor
\* (enable_proximity, disable_proximity, pause, resume) are on exactly while an
\* enablement is left.
THEOREM ProximityCorrect == Spec => []ProximityFollowsEnablements
<1>1. IInv => ProximityFollowsEnablements
  BY DEF IInv, WorldInv, Sound, WorldOK, PortsOK, SensorNeeded, SensorServed, LockHeld,
         ProximityFollowsEnablements, Running
<1> QED BY <1>1, InvariantHolds, PTL

\* For any sequence of display requests, calls, proximity, client requests,
\* alarms, suspends, pauses and resumes, the one lock behind
\* allow_automatic_suspend and disallow_automatic_suspend is held exactly while
\* a reason for it is left, and a suspend waits only for a client.
THEOREM AutomaticSuspendCorrect == Spec => []AutomaticSuspendHeld
<1>1. IInv => AutomaticSuspendHeld
  BY DEF IInv, WorldInv, Sound, WorldOK, MachineOK, PortsOK, DisplayModes, LockHeld,
         AutomaticSuspendHeld, Running, DisplayOn
<1> QED BY <1>1, InvariantHolds, PTL

\* For any number of ids, sent, ended, repeated or never sent,
\* StateEventAdapter and DefaultStateMachine agree: the machine disallows the
\* inactivity timeout and the suspend exactly while the adapter holds an id of
\* each, and holds a notification's allowance only while a notification is
\* there.
THEOREM AdapterCorrect == Spec => []AdapterAgrees
<1>1. IInv => AdapterAgrees
  BY DEF IInv, WorldInv, Agrees, AdapterAgrees
<1> QED BY <1>1, InvariantHolds, PTL

-----------------------------------------------------------------------------
(* The display, its timer, the notifications and the paused session.  What *)
(* the handlers owe (Timing, Lighting, Expires, Discreet) adds up to the   *)
(* session's invariants and to what its steps may not do.                  *)

\* Every timeout that is configured or asked for is infinite or fits in the
\* range of a GLib delay, some 49.7 days.  A longer one is scheduled modulo the
\* range while the time point keeps it whole.
TimeoutsFit == Fits(NormalDisplayOffTimeout) /\ \A t \in Timeouts : Fits(t)

\* The ends of a notification and of a call, on a display that is on, leave it on
\* for as long as it was to be on: the one by a comparison of time points, that
\* also gives a timer to a display without one before anybody looks for it.
LEMMA HandleNoNotificationLengthens ==
  ASSUME NEW v, Sound(v), Timing(v), v.mode = "on", PostNotificationTimeout > 0
  PROVE  LET u == HandleNoNotification(v)
         IN u.mode = "on" /\ u.offTime >= v.offTime
<1> DEFINE t == PostNotificationTimeout
           s == SchedulePostNotificationAlarm(v)
           a == AllowTimeout(s, "notification")
           e == "until_far_event_or_notification_expiration"
           p == DisableProximity(a, e)
           u == HandleNoNotification(v)
<1>1. u = CancelNotificationExpirationAlarm(p)
  BY DEF HandleNoNotification
<1>2. /\ s.mode = "on" /\ s.offTime >= v.offTime /\ s.timeoutType # "none" /\ Sound(s)
  <2>1. /\ SameDisplay(s, v)
        /\ t > v.offTime => s.offTime = t /\ s.timeoutType = "post_notification"
        /\ ~(t > v.offTime) => s = v
    BY OptionsAssumption, ExtendDisplayOffAlarmDoes DEF SchedulePostNotificationAlarm
  <2>2. Sound(s)
    BY SchedulePostNotificationAlarmKeeps DEF Keeps
  <2> HIDE DEF s
  <2>3. v.offTime \in Int /\ t \in Int
    BY OptionsAssumption DEF Sound, WorldOK, MachineOK
  <2>4. v.timeoutType = "none" => t > v.offTime
    BY <2>3 DEF Timing
  <2> QED BY <2>1, <2>2, <2>3, <2>4 DEF SameDisplay
<1> HIDE DEF s, u
<1>3. SameDisplay(a, s) /\ SameTimer(a, s) /\ Sound(a)
  BY <1>2, AllowTimeoutDoes, AllowTimeoutLifts DEF Lifts, Allowances
<1> HIDE DEF a
<1>4. SameDisplay(p, a) /\ SameTimer(p, a) /\ Sound(p)
  BY <1>3, DisableProximityDoes, DisableProximityKeeps DEF Enablements, Keeps
<1> HIDE DEF p
<1>5. u.mode = p.mode /\ u.offTime = p.offTime
  BY <1>1, <1>4 DEF CancelNotificationExpirationAlarm, Sound, WorldOK, WorldFields, MachineFields
<1> QED BY <1>2, <1>3, <1>4, <1>5 DEF SameDisplay, SameTimer, u

\* The other schedules a reduced timer only where that is later.
LEMMA HandleNoActiveCallLengthens ==
  ASSUME NEW v, Sound(v), v.mode = "on"
  PROVE  LET u == HandleNoActiveCall(v)
         IN u.mode = "on" /\ u.offTime >= v.offTime
<1> DEFINE b == BrightenDisplay(v)
           d == ScheduleReducedAlarm(b)
           u == DisableProximity(d, "until_disabled")
<1>1. SameTimer(b, v) /\ b.mode = "on" /\ Sound(b)
  BY BrightenDisplayDoes, BrightenDisplayKeeps DEF Keeps
<1>2. HandleNoActiveCall(v) = u
  BY DEF HandleNoActiveCall
<1> HIDE DEF b
<1>3. d.mode = "on" /\ d.offTime >= b.offTime /\ Sound(d)
  BY <1>1, ExtendDisplayOffAlarmTidy, ScheduleReducedAlarmKeeps, OptionsAssumption
     DEF Keeps, ScheduleReducedAlarm
<1> HIDE DEF d
<1>4. SameDisplay(u, d) /\ SameTimer(u, d)
  BY <1>3, DisableProximityDoes DEF Enablements
<1> HIDE DEF u
<1> QED BY <1>1, <1>2, <1>3, <1>4 DEF SameDisplay, SameTimer

\* While a client keeps the display on, unless a notification or a call turned it
\* on, the alarms spare it.
LEMMA AlarmsSpareDisplay ==
  ASSUME NEW v, Sound(v), "client" \in v.disallowedTimeouts,
         v.reason \notin {"notification", "call"}
  PROVE  /\ SameDisplay(HandleLongPressAlarm(v), v)
         /\ SameDisplay(HandleDimAlarm(v), v)
         /\ SameDisplay(HandleOffAlarm(v), v)
         /\ SameDisplay(HandleSuspendAlarm(v), v)
         /\ SameDisplay(HandleProximityDisableAlarm(v), v)
         /\ SameDisplay(HandleNotificationExpirationAlarm(v), v)
<1>1. ~TimeoutApplicationAllowed(v)
  BY DEF TimeoutApplicationAllowed, TimeoutAllowed
<1>2. SameDisplay(HandleLongPressAlarm(v), v)
  <2> DEFINE calls == v.calls \cup {"notify_long_press"}
             u == [v EXCEPT !.longPressAlarm = NoAlarm, !.longPressDetected = TRUE,
                            !.calls = calls]
  <2> HIDE DEF calls
  <2>1. SameDisplay(u, v)
    BY DEF Sound, WorldOK, WorldFields, MachineFields, PortFields, SameDisplay
  <2> QED BY <2>1 DEF HandleLongPressAlarm, calls
<1>3. SameDisplay(HandleDimAlarm(v), v)
  <2> DEFINE c == [v EXCEPT !.dimAlarm = NoAlarm]
  <2>1. SameDisplay(c, v) /\ ~TimeoutApplicationAllowed(c)
    BY <1>1 DEF Sound, WorldOK, WorldFields, MachineFields, PortFields, SameDisplay,
                TimeoutApplicationAllowed, TimeoutAllowed
  <2> QED BY <2>1 DEF HandleDimAlarm
<1>4. SameDisplay(HandleOffAlarm(v), v)
  <2> DEFINE c == [v EXCEPT !.offAlarm = NoAlarm]
             u == [c EXCEPT !.timeoutType = "none"]
  <2>1. SameDisplay(u, v) /\ ~TimeoutApplicationAllowed(c)
    BY <1>1 DEF Sound, WorldOK, WorldFields, MachineFields, PortFields, SameDisplay,
                TimeoutApplicationAllowed, TimeoutAllowed
  <2> QED BY <2>1 DEF HandleOffAlarm
<1>5. SameDisplay(HandleSuspendAlarm(v), v)
  <2> DEFINE c == [v EXCEPT !.suspendAlarm = NoAlarm]
  <2>1. SameDisplay(c, v) /\ ~TimeoutApplicationAllowed(c)
    BY <1>1 DEF Sound, WorldOK, WorldFields, MachineFields, PortFields, SameDisplay,
                TimeoutApplicationAllowed, TimeoutAllowed
  <2> QED BY <2>1 DEF HandleSuspendAlarm
<1>6. SameDisplay(HandleProximityDisableAlarm(v), v)
  <2> DEFINE c == [v EXCEPT !.proximityAlarm = NoAlarm]
  <2>1. SameDisplay(c, v) /\ Sound(c)
    BY OptionsAssumption
       DEF Ticks, Sound, WorldOK, MachineOK, PortsOK, SameDisplay,
           WorldFields, MachineFields, PortFields
  <2> HIDE DEF c
  <2>2. SameDisplay(DisableProximity(c, "until_far_event_or_timeout"), c)
    BY <2>1, DisableProximityDoes DEF Enablements
  <2> QED BY <2>1, <2>2 DEF HandleProximityDisableAlarm, SameDisplay, c
<1>7. SameDisplay(HandleNotificationExpirationAlarm(v), v)
  <2> DEFINE c == [v EXCEPT !.notificationAlarm = NoAlarm]
             s == IF c.mode = "on" THEN ScheduleImmediateAlarm(c) ELSE c
             a == AllowTimeout(s, "notification")
             u == DisableProximity(a, "until_far_event_or_notification_expiration")
  <2>1. SameDisplay(c, v) /\ Sound(c) /\ c.disallowedTimeouts = v.disallowedTimeouts
    BY OptionsAssumption
       DEF Ticks, Sound, WorldOK, MachineOK, PortsOK, SameDisplay,
           WorldFields, MachineFields, PortFields
  <2>2. HandleNotificationExpirationAlarm(v) = u
    BY DEF HandleNotificationExpirationAlarm
  <2> HIDE DEF c
  <2>3. SameDisplay(s, c) /\ s.disallowedTimeouts = c.disallowedTimeouts /\ Sound(s)
    <3>1. CASE c.mode = "on"
      BY <2>1, <3>1, ExtendDisplayOffAlarmDoes, ScheduleImmediateAlarmKeeps, OptionsAssumption
         DEF ScheduleImmediateAlarm, Keeps, SameAllowances
    <3>2. CASE c.mode # "on"
      BY <2>1, <3>2 DEF SameDisplay
    <3> QED BY <3>1, <3>2
  <2> HIDE DEF s
  <2>4. SameDisplay(a, s) /\ Sound(a)
    BY <2>1, <2>3, AllowTimeoutDoes, AllowTimeoutLifts DEF Lifts, Allowances
  <2> HIDE DEF a
  <2>5. SameDisplay(u, a)
    BY <2>4, DisableProximityDoes DEF Enablements
  <2> HIDE DEF u
  <2> QED BY <2>1, <2>2, <2>3, <2>4, <2>5 DEF SameDisplay
<1> QED BY <1>2, <1>3, <1>4, <1>5, <1>6, <1>7

\* What every step owes.  The lid and a critical battery suspend without asking
\* clients, and the lid's handlers, pause and resume are steps of no paused
\* session.
Owed(u, v) ==
  /\ TimeoutsFit => Orders(u, v)
  /\ Expires(v) => Expires(u)
  /\ Willing(u) \/ LidMoves \/ PowerSourceCritical
  /\ v.paused /\ u.paused => SameDisplay(u, v) /\ u.calls \cap ActiveCalls = {}

\* The world as a handler finds it differs from the one the last step left only in
\* the calls.
LEMMA BeforeDoes ==
  ASSUME WorldInv(w)
  PROVE  /\ SameDisplay(Before, w) /\ SameTimer(Before, w) /\ SameSensor(Before, w)
         /\ SameCourse(Before, w) /\ Before.calls = {} /\ Before.longPressAlarm = w.longPressAlarm
BY DEF Before, WorldInv, Sound, WorldOK, SameSensor, SameCourse,
         SameTimer, SameDisplay, SameAllowances, WorldFields, MachineFields, PortFields

\* Every action pays: one step for each.
LEMMA NextOwed ==
  ASSUME WorldInv(w), Next
  PROVE  Owed(w', Before)
<1> DEFINE b == Before
<1>1. WorldInv(b) /\ Sound(b)
  BY BeforeInv
<1>2. /\ b.paused = w.paused /\ b.calls = {} /\ Willing(b)
      /\ b.dimAlarm = w.dimAlarm /\ b.offAlarm = w.offAlarm
  BY BeforeDoes DEF SameCourse, SameTimer, Willing
<1> SUFFICES Owed(w', b)
  OBVIOUS
<1> HIDE DEF b
<1>3. ASSUME NEW u, Serves(u, b) PROVE Owed(u, b)
  BY <1>2, <1>3 DEF Serves, Discreet, Owed
<1>4. CASE Tick
  BY <1>1, <1>3, <1>4, PassTimeServes DEF Tick, Handled, b
<1>5. CASE LongPressAlarm
  BY <1>1, <1>3, <1>5, HandleLongPressAlarmServes DEF LongPressAlarm, Handled, b
<1>6. CASE DimAlarm
  BY <1>1, <1>2, <1>3, <1>6, HandleDimAlarmServes DEF DimAlarm, Handled, b
<1>7. CASE OffAlarm
  BY <1>1, <1>2, <1>3, <1>7, HandleOffAlarmServes DEF OffAlarm, Handled, b
<1>8. CASE SuspendAlarm
  BY <1>1, <1>3, <1>8, HandleSuspendAlarmServes DEF SuspendAlarm, Handled, b
<1>9. CASE ProximityAlarm
  BY <1>1, <1>3, <1>9, HandleProximityDisableAlarmServes DEF ProximityAlarm, Handled, b
<1>10. CASE NotificationAlarm
  BY <1>1, <1>3, <1>10, HandleNotificationExpirationAlarmServes
     DEF NotificationAlarm, Handled, b
<1>11. Owed(b, b)
  BY <1>3, NothingIsTidy
<1>12. CASE PowerButtonPress
  BY <1>1, <1>2, <1>3, <1>11, <1>12, HandlePowerButtonPressServes
     DEF PowerButtonPress, Active, b
<1>13. CASE PowerButtonRelease
  BY <1>1, <1>3, <1>11, <1>13, HandlePowerButtonReleaseServes DEF PowerButtonRelease, b
<1>14. CASE UserActivityChanging
  BY <1>1, <1>2, <1>3, <1>14, UserActivityServes DEF UserActivityChanging, Handled, Active, b
<1>15. CASE UserActivityExtending
  BY <1>1, <1>2, <1>3, <1>15, UserActivityServes DEF UserActivityExtending, Handled, Active, b
<1>16. CASE EnableInactivityTimeout
  BY <1>1, <1>3, <1>16, AdapterServes DEF EnableInactivityTimeout, Handled, b
<1>17. CASE DisableInactivityTimeout
  BY <1>1, <1>3, <1>17, AdapterServes DEF DisableInactivityTimeout, Handled, b
<1>18. CASE SetInactivityTimeout
  <2>1. PICK t \in Timeouts :
          w' = HandleSetInactivityBehavior(
                 HandleSetInactivityBehavior(b, "display_off", "battery", t),
                 "display_off", "line_power", t)
    BY <1>18 DEF SetInactivityTimeout, Handled, b
  <2> DEFINE v == HandleSetInactivityBehavior(b, "display_off", "battery", t)
             u == HandleSetInactivityBehavior(v, "display_off", "line_power", t)
  <2>2. t \in TimeoutRange /\ "battery" \in Supplies /\ "line_power" \in Supplies
        /\ (TimeoutsFit => Fits(t))
    BY SessionAssumption DEF TimeoutRange, Supplies, TimeoutsFit
  <2>3. /\ TimeoutsFit => Serves(v, b)
        /\ Discreet(v, b) /\ (Expires(b) => Expires(v)) /\ Sound(v)
    BY <1>1, <2>2, HandleSetInactivityBehaviorServes, HandleSetInactivityBehaviorKeeps DEF Keeps
  <2> HIDE DEF v
  <2>4. /\ TimeoutsFit => Serves(u, v)
        /\ Discreet(u, v) /\ (Expires(v) => Expires(u))
    BY <2>2, <2>3, HandleSetInactivityBehaviorServes
  <2>5. w' = u
    BY <2>1 DEF v
  <2> HIDE DEF u
  <2> QED BY <1>2, <2>3, <2>4, <2>5, OrdersChains, DiscreetChains DEF Owed, Serves, Discreet
<1>19. CASE SetInactivityBehavior
  <2>1. PICK action \in {"none", "display_off", "suspend", "power_off"},
             supply \in Supplies, t \in Timeouts :
          w' = HandleSetInactivityBehavior(b, action, supply, t)
    BY <1>19 DEF SetInactivityBehavior, Handled, b
  <2>2. t \in TimeoutRange /\ (TimeoutsFit => Fits(t))
    BY SessionAssumption DEF TimeoutRange, TimeoutsFit
  <2>3. /\ TimeoutsFit => Serves(w', b)
        /\ Discreet(w', b) /\ (Expires(b) => Expires(w'))
    BY <1>1, <2>1, <2>2, HandleSetInactivityBehaviorServes
  <2> QED BY <1>2, <2>3 DEF Owed, Serves, Discreet
<1>20. CASE SetLidBehavior
  BY <1>1, <1>3, <1>20, SettingsServe DEF SetLidBehavior, Handled, b
<1>21. CASE SetCriticalPowerBehavior
  BY <1>1, <1>3, <1>21, SettingsServe DEF SetCriticalPowerBehavior, Handled, b
<1>22. CASE SetNormalBrightnessValue
  BY <1>1, <1>3, <1>22, SettingsServe DEF SetNormalBrightnessValue, Handled, b
<1>23. CASE EnableAutobrightness
  BY <1>1, <1>3, <1>23, SettingsServe DEF EnableAutobrightness, Handled, b
<1>24. CASE DisableAutobrightness
  BY <1>1, <1>3, <1>24, SettingsServe DEF DisableAutobrightness, Handled, b
<1>25. CASE AllowSuspend
  BY <1>1, <1>3, <1>25, AdapterServes DEF AllowSuspend, Handled, b
<1>26. CASE DisallowSuspend
  BY <1>1, <1>2, <1>3, <1>26, AdapterServes DEF DisallowSuspend, Handled, b
<1>27. CASE TurnOnDisplayRequest
  BY <1>1, <1>3, <1>27, DisplayRequestsServe DEF TurnOnDisplayRequest, Handled, b
<1>28. CASE TurnOffDisplayRequest
  BY <1>1, <1>3, <1>28, DisplayRequestsServe DEF TurnOffDisplayRequest, Handled, b
<1>29. CASE Notification
  BY <1>1, <1>3, <1>29, AdapterServes DEF Notification, Handled, b
<1>30. CASE NotificationDone
  BY <1>1, <1>3, <1>30, AdapterServes DEF NotificationDone, Handled, b
<1>31. CASE ActiveCall
  <2>1. w' = HandleActiveCall(b)
    BY <1>31 DEF ActiveCall, b
  <2> QED BY <1>1, <1>2, <2>1, HandleActiveCallOrders DEF Discreet, Owed
<1>32. CASE NoActiveCall
  BY <1>1, <1>3, <1>32, HandleNoActiveCallServes DEF NoActiveCall, Handled, b
<1>33. CASE ProximityReport
  BY <1>1, <1>3, <1>33, HandleProximityNearServes, HandleProximityFarServes
     DEF ProximityReport, Handled, b
<1>34. CASE LidMoves
  <2>1. ASSUME w.paused PROVE Owed(w', b)
    BY <1>11, <1>34, <2>1 DEF LidMoves, Active, b
  <2>2. ASSUME ~w.paused PROVE Owed(w', b)
    <3>1. w' \in {HandleLidClosed(b), HandleLidOpen(b)} /\ ~b.paused
      BY <1>2, <1>34, <2>2 DEF LidMoves, Active, b
    <3>2. Orders(w', b) /\ (Expires(b) => Expires(w'))
      BY <1>1, <3>1, HandleLidClosedOrders, HandleLidOpenOrders DEF Serves
    <3> QED BY <1>34, <3>1, <3>2 DEF Owed
  <2> QED BY <2>1, <2>2
<1>35. CASE PowerSourceCritical
  <2>1. w' = HandlePowerSourceCritical(b) /\ ~b.paused
    BY <1>2, <1>35 DEF PowerSourceCritical, Handled, Active, b
  <2> QED BY <1>1, <1>35, <2>1, HandlePowerSourceCriticalOrders DEF Owed
<1>36. CASE SystemResume
  BY <1>1, <1>3, <1>36, HandleSystemResumeServes DEF SystemResume, Handled, b
<1>37. CASE Pause
  <2>1. w' = PauseMachine(b) /\ ~b.paused
    BY <1>2, <1>37 DEF Pause, Handled, Active, b
  <2> QED BY <1>1, <1>2, <2>1, PauseMachineOrders DEF Owed
<1>38. CASE Resume
  <2>1. w' = ResumeMachine(b)
    BY <1>38 DEF Resume, Handled, b
  <2> QED BY <1>1, <1>2, <2>1, ResumeMachineOrders DEF Owed
<1>39. CASE GoQuiet
  BY <1>11, <1>39 DEF GoQuiet, b
<1>40. CASE ProximityChange
  <2>1. w' = [b EXCEPT !.near = ~w.near]
    BY <1>40 DEF ProximityChange, Handled, b
  <2>2. /\ SameDisplay(w', b) /\ SameTimer(w', b) /\ SameCourse(w', b) /\ SameSensor(w', b)
        /\ w'.calls = b.calls
    BY <1>1, <2>1 DEF Sound, WorldOK, SameSensor, SameCourse, SameTimer, SameDisplay,
                      SameAllowances, WorldFields, MachineFields, PortFields
  <2> QED BY <1>3, <2>2, ElsewhereServes
<1>41. CASE ExternalDisplaysChange
  <2>1. w' = [b EXCEPT !.externalDisplays = ~w.externalDisplays]
    BY <1>41 DEF ExternalDisplaysChange, Handled, b
  <2>2. /\ SameDisplay(w', b) /\ SameTimer(w', b) /\ SameCourse(w', b) /\ SameSensor(w', b)
        /\ w'.calls = b.calls
    BY <1>1, <2>1 DEF Sound, WorldOK, SameSensor, SameCourse, SameTimer, SameDisplay,
                      SameAllowances, WorldFields, MachineFields, PortFields
  <2> QED BY <1>3, <2>2, ElsewhereServes
<1>42. CASE PowerSourceChange
  <2>1. PICK supply \in Supplies :
          LET v == [b EXCEPT !.powerSupply = supply]
          IN w' = IF ~w.paused THEN HandlePowerSourceChange(v) ELSE v
    BY <1>42 DEF PowerSourceChange, Handled, Active, b
  <2> DEFINE v == [b EXCEPT !.powerSupply = supply]
  <2>2. /\ SameDisplay(v, b) /\ SameTimer(v, b) /\ SameCourse(v, b) /\ SameSensor(v, b)
        /\ v.calls = b.calls /\ Sound(v)
    BY <1>1 DEF Sound, WorldOK, MachineOK, PortsOK, SameSensor, SameCourse,
                SameTimer, SameDisplay, SameAllowances, WorldFields, MachineFields, PortFields
  <2>3. w' = IF ~w.paused THEN HandlePowerSourceChange(v) ELSE v
    BY <2>1
  <2> HIDE DEF v
  <2>4. Serves(v, b)
    BY <2>2, ElsewhereServes
  <2>5. ~w.paused => Serves(HandlePowerSourceChange(v), b)
    BY <1>2, <2>2, <2>4, HandlePowerSourceChangeServes, ServesChains DEF SameCourse
  <2> QED BY <1>3, <2>3, <2>4, <2>5
<1> QED BY <1>4, <1>5, <1>6, <1>7, <1>8, <1>9, <1>10, <1>12, <1>13, <1>14, <1>15,
           <1>16, <1>17, <1>18, <1>19, <1>20, <1>21, <1>22, <1>23, <1>24, <1>25, <1>26,
           <1>27, <1>28, <1>29, <1>30, <1>31, <1>32, <1>33, <1>34, <1>35, <1>36, <1>37,
           <1>38, <1>39, <1>40, <1>41, <1>42
        DEF Next

\* The machine as it is constructed: dark, without timer and notification.
LEMMA InitialWorldIsInOrder ==
  ASSUME NEW supply \in Supplies
  PROVE  LET u == InitialWorld(supply)
         IN (TimeoutsFit => Timing(u)) /\ Lighting(u) /\ Covered(u) /\ Expires(u)
<1> DEFINE b == CHOOSE v \in BrightnessValues : TRUE
           m == ConstructedMachine(b)
           p == InitialPorts(supply)
           u == InitialWorld(supply)
<1>1. \A f \in MachineFields : u[f] = m[f]
  BY DEF InitialWorld, WorldFields
<1>2. \A f \in PortFields : u[f] = p[f]
  BY DEF InitialWorld, WorldFields, MachineFields, PortFields
<1> HIDE DEF u, m, p, b
<1>3. /\ u.disallowedTimeouts = {} /\ u.proximityEnablements = {} /\ u.mode = "off"
      /\ u.dimAlarm = NoAlarm /\ u.offAlarm = NoAlarm /\ u.offTime = Past
      /\ u.notificationAlarm = NoAlarm /\ u.timeoutType = "none" /\ u.lidClosed = FALSE
      /\ u.offTimeout = [s \in Supplies |-> NormalDisplayOffTimeout]
  BY <1>1 DEF MachineFields, m, ConstructedMachine
<1>4. /\ u.internalPanel = "off" /\ u.externalPanel = "off" /\ u.backlight = "off"
  BY <1>2 DEF PortFields, p, InitialPorts
<1>5. TimeoutsFit => Timing(u)
  BY <1>3 DEF Timing, TimeoutsFit
<1>6. Lighting(u) /\ Covered(u)
  BY <1>3, <1>4 DEF Lighting, Covered
<1>7. Expires(u)
  BY <1>3 DEF Expires
<1> QED BY <1>5, <1>6, <1>7 DEF u

\* Timer and display are in order if the timeouts fit, and what notifications and
\* calls leave behind has its alarm.
OrderInv ==
  /\ TimeoutsFit => Timing(w) /\ Lighting(w) /\ Covered(w)
  /\ Expires(w)

\* A machine that has just been started is in order.
LEMMA InitOrder == Init => OrderInv
<1> SUFFICES ASSUME Init PROVE OrderInv
  OBVIOUS
<1>1. PICK supply \in Supplies : w = StartMachine(InitialWorld(supply))
  BY SessionAssumption DEF Init
<1>2. LET u == InitialWorld(supply) IN Orders(w, u) /\ (Expires(u) => Expires(w))
  BY <1>1, InitialWorldInv, StartMachineOrders
<1>3. LET u == InitialWorld(supply)
      IN (TimeoutsFit => Timing(u)) /\ Lighting(u) /\ Covered(u) /\ Expires(u)
  BY InitialWorldIsInOrder
<1> QED BY <1>2, <1>3 DEF Orders, OrderInv

\* What every step owes keeps it so.
LEMMA NextOrder == IInv /\ OrderInv /\ [Next]_vars => OrderInv'
<1> SUFFICES ASSUME IInv, OrderInv, [Next]_vars PROVE OrderInv'
  OBVIOUS
<1>1. CASE Next
  <2> DEFINE b == Before
  <2>1. Owed(w', b) /\ WorldInv(w)
    BY <1>1, NextOwed DEF IInv
  <2>2. Serves(b, w)
    <3>1. /\ SameDisplay(b, w) /\ SameTimer(b, w) /\ SameSensor(b, w) /\ SameCourse(b, w)
          /\ b.calls \cap ActiveCalls \subseteq w.calls
      BY <2>1, BeforeDoes
    <3> HIDE DEF b
    <3> QED BY <3>1, ElsewhereServes
  <2> HIDE DEF b
  <2> QED BY <2>1, <2>2 DEF OrderInv, Owed, Serves, Orders
<1>2. CASE UNCHANGED vars
  BY <1>2 DEF vars, OrderInv
<1> QED BY <1>1, <1>2

\* So it is in every reachable state.
LEMMA OrderHolds == Spec => [](IInv /\ OrderInv)
BY InitInv, NextInv, InitOrder, NextOrder, PTL DEF Spec

-----------------------------------------------------------------------------
\* For any notifications, calls and reports of the sensor, in a running session or
\* a paused one: what handle_notification and handle_no_active_call hold or switch
\* on is bounded by an alarm, whichever of its two ends came first.
THEOREM NotificationsCorrect == Spec => []NotificationsExpire
<1>1. OrderInv => NotificationsExpire
  BY DEF OrderInv, Expires, NotificationsExpire
<1> QED BY <1>1, OrderHolds, PTL

\* For timeouts that fit, any order of activity, requests, notifications, calls,
\* alarms, pauses and resumes leaves the off alarm, the dim alarm, the time point
\* and the timeout type in agreement, and no display on without a timer that
\* nobody keeps on.
THEOREM DisplayOffTimerCorrect ==
  ASSUME TimeoutsFit
  PROVE  Spec => []DisplayOffTimerArmed
<1>1. OrderInv => DisplayOffTimerArmed
  BY DEF OrderInv, Timing, Lighting, DisplayOffTimerArmed, Running, DisplayOn
<1> QED BY <1>1, OrderHolds, PTL

\* For timeouts that fit, whatever turns the display of a running session on, off,
\* dim or bright, the panels, the modem and the backlight are where its power mode
\* says, with the lid open or closed.
THEOREM PanelsCorrect ==
  ASSUME TimeoutsFit
  PROVE  Spec => []PanelsFollowMode
<1>1. OrderInv => PanelsFollowMode
  BY DEF OrderInv, Lighting, Covered, PanelsFollowMode, Running, DisplayOn
<1> QED BY <1>1, OrderHolds, PTL

\* Whatever clients, alarms, notifications and the hardware do, a step that leaves
\* a paused session paused leaves its display as it is and suspends nothing.
THEOREM PausedIsDark == Spec => PausedSessionIsDark
<1> DEFINE A == w.paused /\ w'.paused =>
                  /\ w'.internalPanel = w.internalPanel
                  /\ w'.externalPanel = w.externalPanel
                  /\ w'.backlight = w.backlight
                  /\ w'.modem = w.modem
                  /\ w'.mode = w.mode
                  /\ w'.calls \cap {"suspend", "power_off", "notify_display_on",
                                    "notify_display_off"} = {}
<1>1. IInv /\ [Next]_vars => [A]_vars
  <2> SUFFICES ASSUME IInv, Next PROVE A
    OBVIOUS
  <2>1. Owed(w', Before) /\ SameDisplay(Before, w) /\ Before.paused = w.paused
    BY NextOwed, BeforeDoes DEF IInv, SameCourse
  <2> QED BY <2>1 DEF Owed, SameDisplay, ActiveCalls
<1> QED BY <1>1, InvariantHolds, PTL DEF Spec, PausedSessionIsDark

\* The system is suspended while a client disallows it only by the lid or a
\* critical battery, however many requests wait, come and go.
THEOREM SuspendIsAllowed == Spec => SuspendRespectsClients
<1> DEFINE A == ("suspend" \in w'.calls /\ ~LidMoves /\ ~PowerSourceCritical)
                  => w'.suspendAllowed
<1>1. IInv /\ [Next]_vars => [A]_vars
  <2> SUFFICES ASSUME IInv, Next PROVE A
    OBVIOUS
  <2>1. Owed(w', Before)
    BY NextOwed DEF IInv
  <2> QED BY <2>1 DEF Owed, Willing
<1> QED BY <1>1, InvariantHolds, PTL DEF Spec, SuspendRespectsClients

\* No alarm dims or turns off a display that a client keeps on, unless a
\* notification or a call turned it on.
THEOREM ClientKeepsOn == Spec => ClientKeepsDisplayOn
<1> DEFINE A == (/\ Alarm /\ DisplayOn
                 /\ "client" \in w.disallowedTimeouts
                 /\ w.reason \notin {"notification", "call"})
                  => w'.mode = "on" /\ w'.backlight = w.backlight
<1>1. IInv /\ [Next]_vars => [A]_vars
  <2> SUFFICES ASSUME IInv, Alarm, DisplayOn, "client" \in w.disallowedTimeouts,
                      w.reason \notin {"notification", "call"}
               PROVE  w'.mode = "on" /\ w'.backlight = w.backlight
    OBVIOUS
  <2> DEFINE b == Before
  <2>1. Sound(b)
    BY BeforeInv DEF IInv
  <2>2. SameDisplay(b, w) /\ b.disallowedTimeouts = w.disallowedTimeouts
    BY BeforeDoes DEF IInv, SameCourse, SameAllowances
  <2>3. w' \in {HandleLongPressAlarm(b), HandleDimAlarm(b), HandleOffAlarm(b),
                HandleSuspendAlarm(b), HandleProximityDisableAlarm(b),
                HandleNotificationExpirationAlarm(b)}
    BY DEF Alarm, LongPressAlarm, DimAlarm, OffAlarm, SuspendAlarm, ProximityAlarm,
           NotificationAlarm, Handled
  <2> HIDE DEF b
  <2>4. "client" \in b.disallowedTimeouts /\ b.reason \notin {"notification", "call"}
    BY <2>2 DEF SameDisplay
  <2>5. SameDisplay(w', b)
    BY <2>1, <2>3, <2>4, AlarmsSpareDisplay
  <2> QED BY <2>2, <2>5 DEF SameDisplay, DisplayOn
<1> QED BY <1>1, InvariantHolds, PTL DEF Spec, ClientKeepsDisplayOn

\* The end of a notification or of a call never shortens the time to display off,
\* if the timeouts fit and the one after a notification is not zero: one of zero
\* is no later than a time point that is now.
THEOREM EndsExtend ==
  ASSUME TimeoutsFit, PostNotificationTimeout > 0
  PROVE  Spec => EndsNeverShorten
<1> DEFINE A == (NotificationDone \/ NoActiveCall) /\ DisplayOn
                  => w'.mode = "on" /\ w'.offTime >= w.offTime
<1>1. IInv /\ OrderInv /\ [Next]_vars => [A]_vars
  <2> SUFFICES ASSUME IInv, OrderInv, NotificationDone \/ NoActiveCall, DisplayOn
               PROVE  w'.mode = "on" /\ w'.offTime >= w.offTime
    OBVIOUS
  <2> DEFINE b == Before
  <2>1. Sound(b)
    BY BeforeInv DEF IInv
  <2>2. SameDisplay(b, w) /\ SameTimer(b, w) /\ SameCourse(b, w)
    BY BeforeDoes DEF IInv
  <2> HIDE DEF b
  <2>3. Timing(b) /\ b.mode = "on" /\ b.offTime = w.offTime
    BY <2>2 DEF OrderInv, Timing, SameTimer, SameCourse, SameDisplay, DisplayOn
  <2>4. CASE NoActiveCall
    BY <2>1, <2>3, <2>4, HandleNoActiveCallLengthens DEF NoActiveCall, Handled, b
  <2>5. CASE NotificationDone
    <3>1. PICK id \in NotificationIds : w' = AdapterNotificationDone(b, id)
      BY <2>5 DEF NotificationDone, Handled, b
    <3> DEFINE r == b.notifications \ {id}
               u == [b EXCEPT !.notifications = r]
    <3>2. w' \in {HandleNoNotification(u), u}
      BY <3>1 DEF AdapterNotificationDone
    <3>3. Sound(u) /\ SameTimer(u, b) /\ SameDisplay(u, b) /\ SameCourse(u, b)
      BY <2>1 DEF Sound, WorldOK, MachineOK, PortsOK, SameCourse,
           SameTimer, SameDisplay, SameAllowances, WorldFields, MachineFields, PortFields
    <3> HIDE DEF u
    <3>4. Timing(u) /\ u.mode = "on" /\ u.offTime = w.offTime /\ u.offTime \in Int
      BY <2>3, <3>3 DEF Timing, SameTimer, SameDisplay, SameCourse, Sound, WorldOK, MachineOK
    <3>5. HandleNoNotification(u).mode = "on" /\ HandleNoNotification(u).offTime >= u.offTime
      BY <3>3, <3>4, HandleNoNotificationLengthens
    <3> QED BY <3>2, <3>4, <3>5
  <2> QED BY <2>4, <2>5
<1> QED BY <1>1, OrderHolds, PTL DEF Spec, EndsNeverShorten
=============================================================================
