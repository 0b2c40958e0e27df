------------------------------- MODULE Daemon -------------------------------
(***************************************************************************)
(* The daemon: the sessions it knows, the one that is active, and the      *)
(* routing of every kind of event to the machines of the active session,   *)
(* of the sessions of a client, or of all.  The machines share the ports:  *)
(* one display, one sensor, one lock on the automatic suspend.             *)
(*                                                                         *)
(* The code queues events from many threads and handles them one by one.   *)
(* An event is one action here, at the moment it is handled, and it comes  *)
(* at any time: a report that the queue delays may come after the sensor   *)
(* is off or another session is active.  What is decided when an event is  *)
(* queued, the sessions a client's request goes to, is any set of them;    *)
(* those the daemon does not know (any more) are skipped.                  *)
(***************************************************************************)
EXTENDS StateEventAdapter, SequencesExt

CONSTANTS
  SessionIds,
  NoSession,     \* the session of repowerd-incompatible sessions, a null machine
  Readings,      \* what the sensor and the power source may read
  ActiveEvents,  \* the kinds of events for the active session that occur
  ClientEvents   \* the requests, settings and notifications of clients that occur

AllActiveEvents ==
  {"power_button_press", "power_button_release", "user_activity_changing",
   "user_activity_extending", "proximity_near", "proximity_far",
   "power_source_change", "power_source_critical", "lid_closed", "lid_open",
   "system_resume"}

ClientEventKinds ==
  {"enable_inactivity_timeout", "disable_inactivity_timeout", "set_inactivity_timeout",
   "notification", "notification_done", "set_normal_brightness_value",
   "enable_autobrightness", "disable_autobrightness", "allow_suspend",
   "disallow_suspend", "turn_on_display", "turn_off_display",
   "set_inactivity_behavior", "set_lid_behavior", "set_critical_power_behavior"}

\* Those that carry a timeout, and those that carry a power supply.
TimeoutEventKinds == {"set_inactivity_timeout", "set_inactivity_behavior"}

SupplyEventKinds == {"set_inactivity_behavior", "set_lid_behavior"}

ASSUME DaemonAssumption ==
  /\ NoSession \notin SessionIds
  /\ Readings # {}
  /\ Readings \subseteq [near : BOOLEAN, powerSupply : Supplies]
  /\ ActiveEvents \subseteq AllActiveEvents
  /\ \A e \in ClientEvents :
       /\ e.kind \in ClientEventKinds
       /\ e.kind \in TimeoutEventKinds => e.timeout \in TimeoutRange
       /\ e.kind \in SupplyEventKinds => e.supply \in Supplies
       /\ e.kind = "set_normal_brightness_value" => e.value \in BrightnessValues

\* The id of logind's requests, which no client has.
SystemId == "system"

VARIABLES
  machines,      \* of the sessions the daemon knows, but the null one
  ports,         \* what the machines drive and read, one of each
  active,        \* active_session
  callSessions,  \* sessions_with_active_calls
  callActive,    \* what the telephony knows
  sleepBlock     \* what logind told: sleep is "blocked", "free", or "unknown"

vars == <<machines, ports, active, callSessions, callActive, sleepBlock>>

-----------------------------------------------------------------------------
(* Handlers of a session work on its machine and the shared ports.         *)

World(d, s) ==
  [f \in WorldFields |-> IF f \in MachineFields THEN d.machines[s][f] ELSE d.ports[f]]

\* What a handler of the session s leaves behind is v; a session that the
\* daemon does not know handles nothing.
Handled(d, s, v) ==
  IF s \in DOMAIN d.machines
  THEN [machines |-> [d.machines EXCEPT ![s] = Restrict(v, MachineFields)],
        ports |-> Restrict(v, PortFields)]
  ELSE d

KnownSessions == DOMAIN machines

\* The daemon as a handler finds it: no session called anything yet.
Before ==
  [machines |-> [s \in KnownSessions |-> [machines[s] EXCEPT !.calls = {}]],
   ports |-> ports]

\* And with the sensor and the power source reading r.
BeforeReading(r) ==
  [Before EXCEPT !.ports.near = r.near, !.ports.powerSupply = r.powerSupply]

Becomes(d) == machines' = d.machines /\ ports' = d.ports

Outside == <<callActive, sleepBlock>>

Paused(d, s) == Handled(d, s, PauseMachine(World(d, s)))

Created(d, s) ==
  LET m == ConstructedMachine(CHOOSE v \in BrightnessValues : TRUE)
  IN [machines |-> [t \in DOMAIN d.machines \cup {s} |-> IF t = s THEN m ELSE d.machines[t]],
      ports |-> d.ports]

\* A session the daemon does not know is created and started, a known one is
\* resumed.
Activated(d, s) ==
  IF s \in DOMAIN d.machines THEN Handled(d, s, ResumeMachine(World(d, s)))
  ELSE LET c == Created(d, s)
       IN Handled(c, s, StartMachine(World(c, s)))

Removed(d, s) ==
  [machines |-> Restrict(d.machines, DOMAIN d.machines \ {s}), ports |-> d.ports]

-----------------------------------------------------------------------------
(* Sessions.                                                               *)

InitialPorts(r) ==
  [internalPanel |-> "off", externalPanel |-> "off", backlight |-> "off",
   abActive |-> FALSE, backlightValue |-> CHOOSE v \in BrightnessValues : TRUE,
   modem |-> "normal", interactive |-> FALSE, wakeLock |-> FALSE,
   proximityEvents |-> FALSE, defaultHandlers |-> TRUE,
   near |-> r.near, powerSupply |-> r.powerSupply, externalDisplays |-> FALSE]

Init ==
  /\ machines = [s \in {} |-> {}]
  /\ \E r \in Readings : ports = InitialPorts(r)
  /\ active = NoSession
  /\ callSessions = {}
  /\ callActive = FALSE
  /\ sleepBlock = "unknown"

\* Also when the session is the active one already.
SessionActivated ==
  /\ \E s \in SessionIds, r \in Readings :
       /\ Becomes(Activated(Paused(BeforeReading(r), active), s))
       /\ active' = s
  /\ UNCHANGED <<callSessions, Outside>>

IncompatibleSessionActivated ==
  /\ Becomes(Paused(Before, active))
  /\ active' = NoSession
  /\ UNCHANGED <<callSessions, Outside>>

\* Mutant: the active session stays active when it is removed.
SessionRemovedStaysActive ==
  /\ \E s \in KnownSessions : Becomes(Removed(Before, s))
  /\ UNCHANGED <<active, callSessions, Outside>>

\* The session stays among those with active calls.
SessionRemoved ==
  /\ \E s \in KnownSessions :
       LET d == IF active = s THEN Paused(Before, s) ELSE Before
       IN /\ Becomes(Removed(d, s))
          /\ active' = IF active = s THEN NoSession ELSE active
  /\ UNCHANGED <<callSessions, Outside>>

-----------------------------------------------------------------------------
(* Events for several sessions: the end of a call, and what clients and    *)
(* logind ask for.  The sessions handle them one after the other.          *)

SessionHandler(e, v) ==
  CASE e.kind = "no_active_call" -> HandleNoActiveCall(v)
    [] e.kind = "enable_inactivity_timeout" -> AdapterEnableInactivityTimeout(v, e.id)
    [] e.kind = "disable_inactivity_timeout" -> AdapterDisableInactivityTimeout(v, e.id)
    [] e.kind = "set_inactivity_timeout" ->
         HandleSetInactivityBehavior(
           HandleSetInactivityBehavior(v, "display_off", "battery", e.timeout),
           "display_off", "line_power", e.timeout)
    [] e.kind = "notification" -> AdapterNotification(v, e.id)
    [] e.kind = "notification_done" -> AdapterNotificationDone(v, e.id)
    [] e.kind = "set_normal_brightness_value" -> HandleSetNormalBrightnessValue(v, e.value)
    [] e.kind = "enable_autobrightness" -> HandleEnableAutobrightness(v)
    [] e.kind = "disable_autobrightness" -> HandleDisableAutobrightness(v)
    [] e.kind = "allow_suspend" -> AdapterAllowSuspend(v, e.id)
    [] e.kind = "disallow_suspend" -> AdapterDisallowSuspend(v, e.id)
    [] e.kind = "turn_on_display" -> HandleTurnOnDisplay(v)
    [] e.kind = "turn_off_display" -> HandleTurnOffDisplay(v)
    [] e.kind = "set_inactivity_behavior" ->
         HandleSetInactivityBehavior(v, e.action, e.supply, e.timeout)
    [] e.kind = "set_lid_behavior" -> HandleSetLidBehavior(v, e.action, e.supply)
    [] e.kind = "set_critical_power_behavior" -> HandleSetCriticalPowerBehavior(v, e.action)

HandledBy(d, s, e) == Handled(d, s, SessionHandler(e, World(d, s)))

HandledByEach(d, order, e) ==
  LET after[n \in 0 .. Len(order)] ==
        IF n = 0 THEN d ELSE HandledBy(after[n - 1], order[n], e)
  IN after[Len(order)]

-----------------------------------------------------------------------------
(* Events of the hardware, for the active session.                         *)

ActiveHandler(kind, v) ==
  CASE kind = "power_button_press" -> HandlePowerButtonPress(v)
    [] kind = "power_button_release" -> HandlePowerButtonRelease(v)
    [] kind = "user_activity_changing" -> HandleUserActivityChanging(v)
    [] kind = "user_activity_extending" -> HandleUserActivityExtending(v)
    [] kind = "proximity_near" -> HandleProximityNear(v)
    [] kind = "proximity_far" -> HandleProximityFar(v)
    [] kind = "power_source_change" -> HandlePowerSourceChange(v)
    [] kind = "power_source_critical" -> HandlePowerSourceCritical(v)
    [] kind = "lid_closed" -> HandleLidClosed(v)
    [] kind = "lid_open" -> HandleLidOpen(v)
    [] kind = "system_resume" -> HandleSystemResume(v)

ActiveEvent ==
  /\ \E kind \in ActiveEvents, r \in Readings :
       LET d == BeforeReading(r)
       IN Becomes(Handled(d, active, ActiveHandler(kind, World(d, active))))
  /\ UNCHANGED <<active, callSessions, Outside>>

\* Mutant: the session is not listed, and its end of the call not delivered.
ListNoSession(s) == callSessions

ListedSessions(s) == callSessions \cup {s}

ActiveCall ==
  /\ callSessions' = ListedSessions(active)
  /\ \E r \in Readings :
       LET d == BeforeReading(r)
       IN Becomes(Handled(d, active, HandleActiveCall(World(d, active))))
  /\ callActive' = TRUE
  /\ UNCHANGED <<active, sleepBlock>>

\* In the order in which the sessions were listed: in any order.  None is
\* ever taken off the list.
NoActiveCall ==
  /\ callActive
  /\ \E r \in Readings :
       \E order \in SetToSeqs(callSessions) :
         Becomes(HandledByEach(BeforeReading(r), order, [kind |-> "no_active_call"]))
  /\ callActive' = FALSE
  /\ UNCHANGED <<active, callSessions, sleepBlock>>

-----------------------------------------------------------------------------
(* Clients.  A request goes to the session of its process, or to every     *)
(* session when the process is not given.                                  *)

ClientEvent ==
  /\ \E e \in ClientEvents, targets \in SUBSET KnownSessions, r \in Readings :
       \E order \in SetToSeqs(targets) :
         Becomes(HandledByEach(BeforeReading(r), order, e))
  /\ UNCHANGED <<active, callSessions, Outside>>

SystemRequest(kind) == [kind |-> kind, id |-> SystemId]

\* logind's block of sleep, told at the start and when it changes, for every
\* session known when it is handled.
SystemDisallowSuspend ==
  /\ sleepBlock # "blocked"
  /\ \E order \in SetToSeqs(KnownSessions) :
       Becomes(HandledByEach(Before, order, SystemRequest("disallow_suspend")))
  /\ sleepBlock' = "blocked"
  /\ UNCHANGED <<active, callSessions, callActive>>

SystemAllowSuspend ==
  /\ sleepBlock # "free"
  /\ \E order \in SetToSeqs(KnownSessions) :
       Becomes(HandledByEach(Before, order, SystemRequest("allow_suspend")))
  /\ sleepBlock' = "free"
  /\ UNCHANGED <<active, callSessions, callActive>>

-----------------------------------------------------------------------------
(* Time and alarms.  An alarm goes to all sessions; its id is that of one  *)
(* machine.                                                                *)

Tick ==
  /\ \E s \in KnownSessions : TimeMatters(machines[s])
  /\ Becomes([Before EXCEPT !.machines = [s \in KnownSessions |-> PassTime(@[s])]])
  /\ UNCHANGED <<active, callSessions, Outside>>

AlarmKinds == {"long_press", "dim", "off", "suspend", "proximity", "notification"}

Due(m, kind) ==
  CASE kind = "long_press" -> m.longPressAlarm = 0
    [] kind = "dim" -> m.dimAlarm = 0
    [] kind = "off" -> m.offAlarm = 0 /\ m.dimAlarm # 0
    [] kind = "suspend" -> m.suspendAlarm = 0
    [] kind = "proximity" -> m.proximityAlarm = 0
    [] kind = "notification" -> m.notificationAlarm = 0

AlarmHandler(kind, v) ==
  CASE kind = "long_press" -> HandleLongPressAlarm(v)
    [] kind = "dim" -> HandleDimAlarm(v)
    [] kind = "off" -> HandleOffAlarm(v)
    [] kind = "suspend" -> HandleSuspendAlarm(v)
    [] kind = "proximity" -> HandleProximityDisableAlarm(v)
    [] kind = "notification" -> HandleNotificationExpirationAlarm(v)

Alarm ==
  /\ \E s \in KnownSessions, kind \in AlarmKinds :
       /\ Due(machines[s], kind)
       /\ Becomes(Handled(Before, s, AlarmHandler(kind, World(Before, s))))
  /\ UNCHANGED <<active, callSessions, Outside>>

-----------------------------------------------------------------------------
Next ==
  \/ SessionActivated \/ IncompatibleSessionActivated \/ SessionRemoved
  \/ ActiveEvent \/ ActiveCall \/ NoActiveCall
  \/ ClientEvent \/ SystemDisallowSuspend \/ SystemAllowSuspend
  \/ Tick \/ Alarm

Spec == Init /\ [][Next]_vars

-----------------------------------------------------------------------------
(* Properties.                                                             *)

\* Of handle_session_activated and handle_session_removed: of the sessions
\* the daemon knows exactly the active one runs, the active one is known, and
\* logind handles the lid and idleness itself exactly while none is active.
OnlyActiveRuns ==
  /\ active \in KnownSessions \cup {NoSession}
  /\ \A s \in KnownSessions : machines[s].paused <=> s # active
  /\ ports.defaultHandlers <=> active = NoSession

\* Of add_session_with_active_call and the delivery of the end of a call: a
\* session whose sensor a call holds on is listed for the end of that call,
\* through switches of session and removals, and none outlives the call.
CallsEndEverywhere ==
  \A s \in KnownSessions :
    "until_disabled" \in machines[s].proximityEnablements
      => callActive /\ s \in callSessions

\* Of the paused guards across sessions: the shared display shows what the
\* active machine believes, whatever the other machines handle.
DisplayIsActiveSessions ==
  active \in KnownSessions =>
    LET m == machines[active]
    IN /\ ports.externalPanel = m.mode
       /\ m.lidClosed \/ ports.internalPanel = m.mode
       /\ m.mode = "off" => ports.backlight = "off"
       /\ m.mode = "on" /\ TimeoutAllowed(m) => m.timeoutType # "none"

\* Of the automatic suspend as the machines share it: while the display of
\* the active session is on, the automatic suspend is disallowed.
ActiveDisplayHoldsLock ==
  (active \in KnownSessions /\ machines[active].mode = "on") => ports.wakeLock

\* A handler of the session s suspends the system.
Suspends(s) == s \in KnownSessions' /\ "suspend" \in machines'[s].calls

\* Of logind's block of sleep: while it lasts, inactivity suspends nothing.
BlockPreventsSuspend ==
  [][sleepBlock = "blocked" /\ Alarm => \A s \in SessionIds : ~Suspends(s)]_vars

\* Of suspend_when_allowed, the lid and the critical battery under several
\* machines, whose handlers and alarms go on while they are paused: the system
\* is suspended by a handler of the session that is active, before the step and
\* after it, and by no other, whichever other sessions there are.
OnlyActiveSuspends ==
  [][\A s \in SessionIds : Suspends(s) => s = active /\ active' = active]_vars

=============================================================================
