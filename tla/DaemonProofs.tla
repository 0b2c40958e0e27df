---------------------------- MODULE DaemonProofs ----------------------------
(***************************************************************************)
(* What holds of the daemon however many sessions it knows and in whatever *)
(* order they are activated, removed and given events: the active machine  *)
(* alone runs, the shared display is its, only it suspends the system, and *)
(* no machine waits for the end of a call that it will not be told of.     *)
(*                                                                         *)
(* DefaultStateMachineProofs says what each handler does to the world of   *)
(* its session.  Here a handler of one session is a step of the daemon     *)
(* that the other sessions notice through the ports alone (Follows), an    *)
(* event for several sessions is such steps in a row, and a switch of      *)
(* sessions is a pause followed by a resume or a start.                    *)
(***************************************************************************)
EXTENDS Daemon, DefaultStateMachineProofs, QueueLemmas, FiniteSetTheorems

\* The display timeouts that the daemon's machines may be given are such that
\* an alarm can be scheduled for them.
TimeoutsFit ==
  /\ Fits(NormalDisplayOffTimeout)
  /\ \A e \in ClientEvents : e.kind \in TimeoutEventKinds => Fits(e.timeout)

\* What the display needs of the configuration.
DisplayConfigured == TimeoutsFit /\ TurnOnDisplayAtStartup

\* The daemon's machines and the ports, every field of its type.
DaemonOK(d) ==
  /\ DOMAIN d.machines \subseteq SessionIds /\ IsFiniteSet(DOMAIN d.machines)
  /\ \A s \in DOMAIN d.machines :
       DOMAIN d.machines[s] = MachineFields /\ MachineOK(d.machines[s])
  /\ DOMAIN d.ports = PortFields /\ PortsOK(d.ports)

\* Of the machines the active one alone runs, a.
Steady(d, a) ==
  /\ DaemonOK(d)
  /\ a \in DOMAIN d.machines \cup {NoSession}
  /\ \A s \in DOMAIN d.machines : d.machines[s].paused <=> s # a
  /\ d.ports.defaultHandlers <=> a = NoSession

\* Every display timer is in order, and the display is where the active machine
\* says.
Lit(d, a) ==
  DisplayConfigured =>
    /\ \A s \in DOMAIN d.machines : Timing(World(d, s))
    /\ a \in DOMAIN d.machines => Lighting(World(d, a))

\* No session has suspended the system.
Calm(d) == \A s \in DOMAIN d.machines : "suspend" \notin d.machines[s].calls

\* The active session alone has, if any.
ActiveSuspends(d, a) ==
  \A s \in DOMAIN d.machines : "suspend" \in d.machines[s].calls => s = a

\* No machine of e begins to wait for the end of a call.
NoNewCall(e, d) ==
  \A s \in DOMAIN e.machines :
    CallHolds(e.machines[s]) => s \in DOMAIN d.machines /\ CallHolds(d.machines[s])

\* What a handler of any session does to the daemon while a is active.
Follows(e, d, a) ==
  /\ DOMAIN e.machines = DOMAIN d.machines
  /\ Steady(e, a)
  /\ Lit(d, a) => Lit(e, a)
  /\ ActiveSuspends(d, a) => ActiveSuspends(e, a)

\* What a handler does to its session's world, whether it runs or is paused.
Attends(u, v) ==
  /\ Sound(u)
  /\ u.paused = v.paused /\ u.defaultHandlers = v.defaultHandlers
  /\ v.paused => SameDisplay(u, v) /\ ("suspend" \in u.calls => "suspend" \in v.calls)
  /\ DisplayConfigured => Orders(u, v)

-----------------------------------------------------------------------------
(* The worlds of the sessions.                                             *)

\* A session's world is its machine and the ports.
LEMMA WorldIs ==
  ASSUME NEW d, NEW s
  PROVE  /\ DOMAIN World(d, s) = WorldFields
         /\ \A f \in MachineFields : World(d, s)[f] = d.machines[s][f]
         /\ \A f \in PortFields : World(d, s)[f] = d.ports[f]
<1>1. \A f \in PortFields : f \notin MachineFields
  BY DEF PortFields, MachineFields
<1> QED BY <1>1 DEF World, WorldFields

\* The world of a known session is one that its handlers may be given.
LEMMA WorldIsSound ==
  ASSUME NEW d, DaemonOK(d), NEW s \in DOMAIN d.machines
  PROVE  /\ Sound(World(d, s))
         /\ World(d, s).paused = d.machines[s].paused
         /\ World(d, s).defaultHandlers = d.ports.defaultHandlers
         /\ World(d, s).calls = d.machines[s].calls
         /\ World(d, s).proximityEnablements = d.machines[s].proximityEnablements
<1> DEFINE v == World(d, s)
           m == d.machines[s]
           p == d.ports
<1>1. /\ DOMAIN v = WorldFields
      /\ \A f \in MachineFields : v[f] = m[f]
      /\ \A f \in PortFields : v[f] = p[f]
  BY WorldIs
<1>2. MachineOK(m) /\ PortsOK(p)
  BY DEF DaemonOK
<1> HIDE DEF v, m, p
<1>3. MachineOK(v)
  BY <1>1, <1>2 DEF MachineOK, MachineFields
<1>4. PortsOK(v)
  BY <1>1, <1>2 DEF PortsOK, PortFields
<1>5. /\ v.paused = m.paused /\ v.proximityEnablements = m.proximityEnablements
      /\ v.defaultHandlers = p.defaultHandlers /\ v.calls = m.calls
  BY <1>1 DEF MachineFields, PortFields
<1> QED BY <1>1, <1>3, <1>4, <1>5 DEF Sound, WorldOK, v, m, p

\* The display timer is the machine's own.
LEMMA TimingIsMachines ==
  ASSUME NEW x, NEW y, \A f \in MachineFields \ {"calls"} : x[f] = y[f], Timing(y)
  PROVE  Timing(x)
<1>1. /\ x.offTimeout = y.offTimeout /\ x.timeoutType = y.timeoutType
      /\ x.offAlarm = y.offAlarm /\ x.dimAlarm = y.dimAlarm /\ x.offTime = y.offTime
  BY DEF MachineFields
<1> QED BY <1>1 DEF Timing

\* The display is the machine's and four of the ports'.
LEMMA LightingIsPanels ==
  ASSUME NEW x, NEW y, \A f \in MachineFields \ {"calls"} : x[f] = y[f], Lighting(y),
         x.internalPanel = y.internalPanel, x.externalPanel = y.externalPanel,
         x.backlight = y.backlight, x.modem = y.modem
  PROVE  Lighting(x)
<1>1. /\ x.paused = y.paused /\ x.mode = y.mode /\ x.lidClosed = y.lidClosed
      /\ x.dimAlarm = y.dimAlarm /\ x.offAlarm = y.offAlarm /\ x.offTime = y.offTime
      /\ x.timeoutType = y.timeoutType /\ x.disallowedTimeouts = y.disallowedTimeouts
      /\ x.reason = y.reason
  BY DEF MachineFields
<1> QED BY <1>1 DEF Lighting, TimeoutAllowed, TimeoutApplicationAllowed

-----------------------------------------------------------------------------
(* A handler as a step of the daemon.                                      *)

\* A handler's result is its session's world, the other machines are as they
\* were.
LEMMA HandledIs ==
  ASSUME NEW d, DaemonOK(d), NEW s \in DOMAIN d.machines, NEW v, Sound(v)
  PROVE  LET e == Handled(d, s, v)
         IN /\ DaemonOK(e) /\ DOMAIN e.machines = DOMAIN d.machines
            /\ \A f \in MachineFields : e.machines[s][f] = v[f]
            /\ \A t \in DOMAIN d.machines : t # s => e.machines[t] = d.machines[t]
            /\ \A f \in PortFields : e.ports[f] = v[f]
            /\ \A f \in WorldFields : World(e, s)[f] = v[f]
<1> DEFINE m == Restrict(v, MachineFields)
           p == Restrict(v, PortFields)
           e == Handled(d, s, v)
<1>1. /\ DOMAIN m = MachineFields /\ \A f \in MachineFields : m[f] = v[f]
      /\ DOMAIN p = PortFields /\ \A f \in PortFields : p[f] = v[f]
  BY DEF Restrict
<1>2. e.machines = [d.machines EXCEPT ![s] = m] /\ e.ports = p
  BY DEF Handled
<1>3. MachineOK(v) /\ PortsOK(v)
  BY DEF Sound, WorldOK
<1> HIDE DEF m, p, e
<1>4. MachineOK(m)
  BY <1>1, <1>3 DEF MachineOK, MachineFields
<1>5. PortsOK(p)
  BY <1>1, <1>3 DEF PortsOK, PortFields
<1>6. /\ DOMAIN e.machines = DOMAIN d.machines /\ e.machines[s] = m
      /\ \A t \in DOMAIN d.machines : t # s => e.machines[t] = d.machines[t]
  BY <1>2
<1>7. DaemonOK(e)
  BY <1>1, <1>2, <1>4, <1>5, <1>6 DEF DaemonOK
<1>8. \A f \in WorldFields : World(e, s)[f] = v[f]
  BY <1>1, <1>2, <1>6, WorldIs DEF WorldFields
<1> QED BY <1>1, <1>2, <1>6, <1>7, <1>8 DEF e

\* A handler that attends to its session leaves the daemon steady, its displays
\* in order, and the suspend to the active session.
LEMMA AttendedFollows ==
  ASSUME NEW d, NEW a, Steady(d, a), NEW s \in DOMAIN d.machines,
         NEW v, Attends(v, World(d, s))
  PROVE  Follows(Handled(d, s, v), d, a)
<1> DEFINE e == Handled(d, s, v)
           w == World(d, s)
<1>1. DaemonOK(d) /\ Sound(v)
  BY DEF Steady, Attends
<1>2. /\ DaemonOK(e) /\ DOMAIN e.machines = DOMAIN d.machines
      /\ \A f \in MachineFields : e.machines[s][f] = v[f]
      /\ \A t \in DOMAIN d.machines : t # s => e.machines[t] = d.machines[t]
      /\ \A f \in PortFields : e.ports[f] = v[f]
      /\ \A f \in WorldFields : World(e, s)[f] = v[f]
  BY <1>1, HandledIs
<1>3. /\ Sound(w) /\ w.paused = d.machines[s].paused
      /\ w.defaultHandlers = d.ports.defaultHandlers /\ w.calls = d.machines[s].calls
  BY <1>1, WorldIsSound
<1>4. /\ v.paused = w.paused /\ v.defaultHandlers = w.defaultHandlers
      /\ w.paused => SameDisplay(v, w) /\ ("suspend" \in v.calls => "suspend" \in w.calls)
      /\ DisplayConfigured => Orders(v, w)
  BY DEF Attends
<1> HIDE DEF e, w
<1>5. /\ e.machines[s].paused = v.paused /\ e.ports.defaultHandlers = v.defaultHandlers
      /\ e.machines[s].calls = v.calls
  BY <1>2 DEF MachineFields, PortFields
<1>6. \A t \in DOMAIN e.machines : e.machines[t].paused = d.machines[t].paused
  BY <1>2, <1>3, <1>4, <1>5
<1>7. Steady(e, a)
  BY <1>2, <1>3, <1>4, <1>5, <1>6 DEF Steady
<1>8. ASSUME ActiveSuspends(d, a) PROVE ActiveSuspends(e, a)
  <2>1. CASE w.paused
    BY <1>2, <1>3, <1>4, <1>5, <1>8, <2>1 DEF ActiveSuspends
  <2>2. CASE ~w.paused
    <3>1. s = a
      BY <1>3, <2>2 DEF Steady
    <3> QED BY <3>1, <1>2, <1>8 DEF ActiveSuspends
  <2> QED BY <2>1, <2>2
<1>9. ASSUME Lit(d, a), DisplayConfigured PROVE Lit(e, a)
  <2>1. /\ \A t \in DOMAIN d.machines : Timing(World(d, t))
        /\ a \in DOMAIN d.machines => Lighting(World(d, a))
        /\ Orders(v, w)
    BY <1>4, <1>9 DEF Lit
  <2>2. \A t \in DOMAIN d.machines : t # s =>
          \A f \in MachineFields : World(e, t)[f] = World(d, t)[f]
    BY <1>2, WorldIs
  <2>3. \A f \in MachineFields : World(e, s)[f] = v[f]
    BY <1>2 DEF WorldFields
  <2>4. Timing(v)
    BY <2>1 DEF Orders, w
  <2>5. \A t \in DOMAIN e.machines : Timing(World(e, t))
    BY <1>2, <2>1, <2>2, <2>3, <2>4, TimingIsMachines
  <2>6. ASSUME a \in DOMAIN d.machines PROVE Lighting(World(e, a))
    <3>1. CASE s = a
      <4>1. Lighting(v)
        BY <2>1, <2>6, <3>1 DEF Orders, w
      <4>2. /\ World(e, a).internalPanel = v.internalPanel
            /\ World(e, a).externalPanel = v.externalPanel
            /\ World(e, a).backlight = v.backlight /\ World(e, a).modem = v.modem
        BY <1>2, <3>1 DEF WorldFields, PortFields
      <4> QED BY <2>3, <3>1, <4>1, <4>2, LightingIsPanels
    <3>2. CASE s # a
      <4>1. SameDisplay(v, w)
        BY <1>3, <1>4, <3>2 DEF Steady
      <4>2. /\ \A f \in PortFields : World(e, a)[f] = v[f]
            /\ \A f \in PortFields : World(d, a)[f] = w[f]
        BY <1>2, WorldIs DEF w
      <4>3. /\ World(e, a).internalPanel = World(d, a).internalPanel
            /\ World(e, a).externalPanel = World(d, a).externalPanel
            /\ World(e, a).backlight = World(d, a).backlight
            /\ World(e, a).modem = World(d, a).modem
        BY <4>1, <4>2 DEF PortFields, SameDisplay
      <4> QED BY <2>1, <2>2, <2>6, <3>2, <4>3, LightingIsPanels
    <3> QED BY <3>1, <3>2
  <2> QED BY <1>2, <2>5, <2>6 DEF Lit
<1> QED BY <1>2, <1>7, <1>8, <1>9 DEF Follows, Lit, e

\* A call is held by the machine of the handler alone.
LEMMA HandledCalls ==
  ASSUME NEW d, DaemonOK(d), NEW s \in DOMAIN d.machines, NEW v, Sound(v)
  PROVE  LET e == Handled(d, s, v)
         IN /\ CallHolds(e.machines[s]) <=> CallHolds(v)
            /\ \A t \in DOMAIN d.machines :
                 t # s => (CallHolds(e.machines[t]) <=> CallHolds(d.machines[t]))
<1> DEFINE e == Handled(d, s, v)
<1>1. /\ \A f \in MachineFields : e.machines[s][f] = v[f]
      /\ \A t \in DOMAIN d.machines : t # s => e.machines[t] = d.machines[t]
  BY HandledIs
<1> HIDE DEF e
<1>2. e.machines[s].proximityEnablements = v.proximityEnablements
  BY <1>1 DEF MachineFields
<1> QED BY <1>1, <1>2 DEF CallHolds, e

\* A handler that begins no call leaves no new one.
LEMMA QuietlyHandled ==
  ASSUME NEW d, DaemonOK(d), NEW s \in DOMAIN d.machines, NEW v, Sound(v),
         CallHolds(v) => CallHolds(World(d, s))
  PROVE  NoNewCall(Handled(d, s, v), d)
<1>1. CallHolds(World(d, s)) <=> CallHolds(d.machines[s])
  BY WorldIsSound DEF CallHolds
<1>2. DOMAIN Handled(d, s, v).machines = DOMAIN d.machines
  BY HandledIs
<1> QED BY <1>1, <1>2, HandledCalls DEF NoNewCall

\* Nothing done is nothing disturbed, and one step follows another.
LEMMA FollowsChains ==
  /\ \A d, a : Steady(d, a) => Follows(d, d, a) /\ NoNewCall(d, d)
  /\ \A c, d, e, a : Follows(e, d, a) /\ Follows(d, c, a) => Follows(e, c, a)
  /\ \A c, d, e : NoNewCall(e, d) /\ NoNewCall(d, c) => NoNewCall(e, c)
BY DEF Follows, NoNewCall

-----------------------------------------------------------------------------
(* The handlers of events for several sessions.                            *)

\* A handler that serves attends to its session, and begins no call.
LEMMA ServedIsAttended ==
  ASSUME NEW u, NEW v, Sound(u), Serves(u, v)
  PROVE  Attends(u, v) /\ (CallHolds(u) => CallHolds(v))
BY DEF Serves, Discreet, Attends, ActiveCalls

\* What is delivered to sessions: the end of a call, or a client's or logind's
\* request.
Deliverable(e) ==
  /\ e.kind \in ClientEventKinds \cup {"no_active_call"}
  /\ e.kind \in TimeoutEventKinds =>
       e.timeout \in TimeoutRange /\ (TimeoutsFit => Fits(e.timeout))
  /\ e.kind \in SupplyEventKinds => e.supply \in Supplies
  /\ e.kind = "set_normal_brightness_value" => e.value \in BrightnessValues

\* So are all the requests of clients, the requests of logind, and the end of a
\* call.
LEMMA EventsAreDeliverable ==
  /\ \A e \in ClientEvents : Deliverable(e)
  /\ Deliverable(SystemRequest("disallow_suspend"))
  /\ Deliverable(SystemRequest("allow_suspend"))
  /\ Deliverable([kind |-> "no_active_call"])
<1>1. \A e \in ClientEvents : Deliverable(e)
  BY DaemonAssumption DEF Deliverable, TimeoutsFit
<1>2. ASSUME NEW e, e.kind \in {"disallow_suspend", "allow_suspend", "no_active_call"}
      PROVE  Deliverable(e)
  BY <1>2 DEF Deliverable, ClientEventKinds, TimeoutEventKinds, SupplyEventKinds
<1>3. /\ SystemRequest("disallow_suspend").kind = "disallow_suspend"
      /\ SystemRequest("allow_suspend").kind = "allow_suspend"
      /\ [kind |-> "no_active_call"].kind = "no_active_call"
  BY DEF SystemRequest
<1> QED BY <1>1, <1>2, <1>3

\* A new inactivity timeout attends to the session, paused or not.
LEMMA InactivityBehaviorAttends ==
  ASSUME NEW v, Sound(v), NEW action, NEW supply \in Supplies, NEW t \in TimeoutRange,
         TimeoutsFit => Fits(t)
  PROVE  LET u == HandleSetInactivityBehavior(v, action, supply, t)
         IN Attends(u, v) /\ (CallHolds(u) => CallHolds(v))
<1> DEFINE u == HandleSetInactivityBehavior(v, action, supply, t)
<1>1. Sound(u)
  BY HandleSetInactivityBehaviorKeeps DEF Keeps
<1>2. /\ Fits(t) => Serves(u, v)
      /\ Discreet(u, v) /\ (CallHolds(u) => CallHolds(v))
  BY HandleSetInactivityBehaviorServes
<1> HIDE DEF u
<1>3. Attends(u, v)
  BY <1>1, <1>2 DEF Attends, Serves, Discreet, ActiveCalls, DisplayConfigured
<1> QED BY <1>2, <1>3 DEF u

\* One handler attends after another.
LEMMA AttendsChains ==
  ASSUME NEW t, NEW u, NEW v, Attends(t, u), Attends(u, v)
  PROVE  Attends(t, v)
BY OrdersChains DEF Attends, SameDisplay

\* Every handler of an event for several sessions attends to its session; the
\* end of a call leaves none that holds the sensor on.
LEMMA SessionHandlerAttends ==
  ASSUME NEW v, Sound(v), NEW e, Deliverable(e)
  PROVE  LET u == SessionHandler(e, v)
         IN /\ Attends(u, v) /\ (CallHolds(u) => CallHolds(v))
            /\ e.kind = "no_active_call" => ~CallHolds(u)
<1> DEFINE u == SessionHandler(e, v)
<1>1. CASE e.kind = "no_active_call"
  <2>1. u = HandleNoActiveCall(v)
    BY <1>1 DEF SessionHandler
  <2>2. Sound(u) /\ Serves(u, v) /\ ~CallHolds(u)
    BY <2>1, HandleNoActiveCallKeeps, HandleNoActiveCallServes DEF Keeps
  <2> QED BY <2>2, ServedIsAttended
<1>2. CASE e.kind \in {"enable_inactivity_timeout", "disable_inactivity_timeout",
                       "notification", "notification_done", "allow_suspend"}
  <2>1. u \in {AdapterEnableInactivityTimeout(v, e.id),
               AdapterDisableInactivityTimeout(v, e.id), AdapterNotification(v, e.id),
               AdapterNotificationDone(v, e.id), AdapterAllowSuspend(v, e.id)}
    BY <1>2 DEF SessionHandler
  <2>2. Sound(u) /\ Serves(u, v)
    BY <2>1, AdapterServes
  <2> QED BY <1>2, <2>2, ServedIsAttended
<1>3. CASE e.kind = "disallow_suspend"
  <2>1. u = AdapterDisallowSuspend(v, e.id)
    BY <1>3 DEF SessionHandler
  <2>2. /\ Sound(u) /\ Orders(u, v) /\ SameDisplay(u, v) /\ SameSensor(u, v)
        /\ u.paused = v.paused /\ u.defaultHandlers = v.defaultHandlers
        /\ u.calls = v.calls
    BY <2>1, AdapterServes
  <2> HIDE DEF u
  <2> QED BY <1>3, <2>2 DEF Attends, SameSensor, CallHolds, u
<1>4. CASE e.kind = "set_inactivity_timeout"
  <2> DEFINE b == HandleSetInactivityBehavior(v, "display_off", "battery", e.timeout)
  <2>1. u = HandleSetInactivityBehavior(b, "display_off", "line_power", e.timeout)
    BY <1>4 DEF SessionHandler
  <2>2. e.timeout \in TimeoutRange /\ (TimeoutsFit => Fits(e.timeout))
    BY <1>4 DEF Deliverable, TimeoutEventKinds
  <2>3. Attends(b, v) /\ (CallHolds(b) => CallHolds(v))
    BY <2>2, InactivityBehaviorAttends DEF Supplies
  <2> HIDE DEF b
  <2>4. Attends(u, b) /\ (CallHolds(u) => CallHolds(b))
    BY <2>1, <2>2, <2>3, InactivityBehaviorAttends DEF Supplies, Attends
  <2> QED BY <1>4, <2>3, <2>4, AttendsChains
<1>5. CASE e.kind = "set_inactivity_behavior"
  <2>1. u = HandleSetInactivityBehavior(v, e.action, e.supply, e.timeout)
    BY <1>5 DEF SessionHandler
  <2>2. /\ e.timeout \in TimeoutRange /\ (TimeoutsFit => Fits(e.timeout))
        /\ e.supply \in Supplies
    BY <1>5 DEF Deliverable, TimeoutEventKinds, SupplyEventKinds
  <2> QED BY <1>5, <2>1, <2>2, InactivityBehaviorAttends
<1>6. CASE e.kind \in {"set_normal_brightness_value", "enable_autobrightness",
                       "disable_autobrightness", "set_lid_behavior",
                       "set_critical_power_behavior"}
  <2>1. u \in {HandleSetNormalBrightnessValue(v, e.value), HandleEnableAutobrightness(v),
               HandleDisableAutobrightness(v), HandleSetLidBehavior(v, e.action, e.supply),
               HandleSetCriticalPowerBehavior(v, e.action)}
    BY <1>6 DEF SessionHandler
  <2>2. Serves(u, v)
    BY <2>1, SettingsServe
  <2>3. Sound(u)
    <3>1. CASE e.kind = "set_normal_brightness_value"
      <4>1. u = HandleSetNormalBrightnessValue(v, e.value) /\ e.value \in BrightnessValues
        BY <3>1 DEF SessionHandler, Deliverable
      <4> QED BY <4>1, HandleSetNormalBrightnessValueKeeps DEF Keeps
    <3>2. CASE e.kind = "enable_autobrightness"
      BY <3>2, HandleEnableAutobrightnessKeeps DEF Keeps, SessionHandler
    <3>3. CASE e.kind = "disable_autobrightness"
      BY <3>3, HandleDisableAutobrightnessKeeps DEF Keeps, SessionHandler
    <3>4. CASE e.kind = "set_lid_behavior"
      <4>1. u = HandleSetLidBehavior(v, e.action, e.supply) /\ e.supply \in Supplies
        BY <3>4 DEF SessionHandler, Deliverable, SupplyEventKinds
      <4> QED BY <4>1, HandleSetLidBehaviorKeeps DEF Keeps
    <3>5. CASE e.kind = "set_critical_power_behavior"
      BY <3>5, HandleSetCriticalPowerBehaviorKeeps DEF Keeps, SessionHandler
    <3> QED BY <1>6, <3>1, <3>2, <3>3, <3>4, <3>5
  <2> QED BY <1>6, <2>2, <2>3, ServedIsAttended
<1>7. CASE e.kind = "turn_on_display"
  <2>1. u = HandleTurnOnDisplay(v)
    BY <1>7 DEF SessionHandler
  <2>2. Sound(u)
    BY <2>1, TurnOnDisplayWithNormalTimeoutKeeps DEF HandleTurnOnDisplay, Keeps, Reasons
  <2> QED BY <1>7, <2>1, <2>2, DisplayRequestsServe, ServedIsAttended
<1>8. CASE e.kind = "turn_off_display"
  <2>1. u = HandleTurnOffDisplay(v)
    BY <1>8 DEF SessionHandler
  <2>2. Sound(u)
    BY <2>1, TurnOffDisplayKeeps DEF HandleTurnOffDisplay, Keeps, Reasons
  <2> QED BY <1>8, <2>1, <2>2, DisplayRequestsServe, ServedIsAttended
<1> HIDE DEF u
<1>9. \/ e.kind = "no_active_call"
      \/ e.kind \in {"enable_inactivity_timeout", "disable_inactivity_timeout",
                     "notification", "notification_done", "allow_suspend"}
      \/ e.kind \in {"disallow_suspend", "set_inactivity_timeout", "set_inactivity_behavior"}
      \/ e.kind \in {"set_normal_brightness_value", "enable_autobrightness",
                     "disable_autobrightness", "set_lid_behavior",
                     "set_critical_power_behavior"}
      \/ e.kind \in {"turn_on_display", "turn_off_display"}
  BY DEF Deliverable, ClientEventKinds
<1> QED BY <1>1, <1>2, <1>3, <1>4, <1>5, <1>6, <1>7, <1>8, <1>9 DEF u

-----------------------------------------------------------------------------
(* Sessions that handle an event one after the other.                      *)

\* Induction over the naturals, of a set.
LEMMA SetInduction ==
  ASSUME NEW T, 0 \in T, \A n \in Nat : n \in T => n + 1 \in T
  PROVE  Nat \subseteq T
<1> SUFFICES ASSUME ~(Nat \subseteq T) PROVE FALSE
  OBVIOUS
<1> DEFINE N == Nat \ T
<1>1. PICK x \in N : \A y \in N : x <= y
  BY NatMinimum
<1>2. x # 0 /\ x - 1 \in Nat
  BY <1>1
<1>3. x - 1 \in T
  BY <1>1, <1>2
<1> QED BY <1>1, <1>2, <1>3

\* For each session in turn: the recursion has a solution, the daemon after each
\* of the sessions.
LEMMA HandledInTurn ==
  ASSUME NEW d, NEW e, NEW order, Len(order) \in Nat
  PROVE  \E after : /\ after[0] = d
                    /\ \A n \in 1 .. Len(order) :
                         after[n] = HandledBy(after[n - 1], order[n], e)
                    /\ HandledByEach(d, order, e) = after[Len(order)]
<1> DEFINE Chain(f, m) == f = [n \in 0 .. m |-> IF n = 0 THEN d
                                                ELSE HandledBy(f[n - 1], order[n], e)]
           T == {m \in Nat : \E f : Chain(f, m)}
           after == CHOOSE f : Chain(f, Len(order))
<1>1. 0 \in T
  <2>1. Chain([n \in 0 .. 0 |-> d], 0)
    OBVIOUS
  <2> QED BY <2>1
<1>2. ASSUME NEW m \in Nat, m \in T PROVE m + 1 \in T
  <2>1. PICK f : Chain(f, m)
    BY <1>2
  <2> DEFINE g == [n \in 0 .. m + 1 |-> IF n = m + 1 THEN HandledBy(f[m], order[m + 1], e)
                                        ELSE f[n]]
             h == [n \in 0 .. m + 1 |-> IF n = 0 THEN d ELSE HandledBy(g[n - 1], order[n], e)]
  <2>2. \A n \in 0 .. m + 1 : g[n] = IF n = 0 THEN d ELSE HandledBy(g[n - 1], order[n], e)
    <3>1. ASSUME NEW n \in 0 .. m, n # 0 PROVE g[n] = HandledBy(g[n - 1], order[n], e)
      <4>1. /\ n \in 0 .. m + 1 /\ n # m + 1
            /\ n - 1 \in 0 .. m + 1 /\ n - 1 # m + 1 /\ n - 1 \in 0 .. m
        BY <3>1
      <4>2. f[n] = HandledBy(f[n - 1], order[n], e)
        BY <2>1, <3>1
      <4> QED BY <4>1, <4>2
    <3>2. g[0] = d
      BY <2>1
    <3>3. g[m + 1] = HandledBy(g[m], order[m + 1], e)
      OBVIOUS
    <3>4. \A n \in 0 .. m + 1 : n = 0 \/ n \in 0 .. m \/ n = m + 1
      OBVIOUS
    <3>5. m + 1 # 0 /\ (m + 1) - 1 = m
      OBVIOUS
    <3> HIDE DEF g
    <3> QED BY <3>1, <3>2, <3>3, <3>4, <3>5
  <2>3. g = h
    BY <2>2, Zenon
  <2>4. Chain(g, m + 1)
    BY <2>3, Zenon
  <2>5. m + 1 \in Nat
    OBVIOUS
  <2> HIDE DEF g
  <2> QED BY <2>4, <2>5
<1>3. \E f : Chain(f, Len(order))
  <2> HIDE DEF T
  <2>1. Nat \subseteq T
    BY <1>1, <1>2, SetInduction
  <2> QED BY <2>1 DEF T
<1>4. Chain(after, Len(order))
  BY <1>3
<1>5. HandledByEach(d, order, e) = after[Len(order)]
  BY DEF HandledByEach
<1> HIDE DEF after
<1>6. /\ after[0] = d
      /\ \A n \in 1 .. Len(order) : after[n] = HandledBy(after[n - 1], order[n], e)
  BY <1>4
<1> QED BY <1>5, <1>6

\* One of them: the daemon stays in order, no call begins, and after the end of
\* a call the session waits for none.
LEMMA OneHandles ==
  ASSUME NEW c, NEW a, Steady(c, a), NEW s, NEW e, Deliverable(e)
  PROVE  LET d == HandledBy(c, s, e)
         IN /\ Follows(d, c, a) /\ NoNewCall(d, c)
            /\ e.kind = "no_active_call" /\ s \in DOMAIN c.machines
                 => ~CallHolds(d.machines[s])
<1> DEFINE v == World(c, s)
           u == SessionHandler(e, v)
           d == HandledBy(c, s, e)
<1>1. CASE s \in DOMAIN c.machines
  <2>1. DaemonOK(c) /\ Sound(v)
    BY <1>1, WorldIsSound DEF Steady
  <2> HIDE DEF v
  <2>2. /\ Attends(u, v) /\ (CallHolds(u) => CallHolds(v))
        /\ e.kind = "no_active_call" => ~CallHolds(u)
    BY <2>1, SessionHandlerAttends
  <2> HIDE DEF u
  <2>3. d = Handled(c, s, u) /\ Sound(u)
    BY <2>2 DEF HandledBy, Attends, u, v
  <2>4. Follows(d, c, a)
    BY <1>1, <2>2, <2>3, AttendedFollows DEF v
  <2>5. NoNewCall(d, c)
    BY <1>1, <2>1, <2>2, <2>3, QuietlyHandled DEF v
  <2>6. CallHolds(d.machines[s]) <=> CallHolds(u)
    BY <1>1, <2>1, <2>3, HandledCalls
  <2> QED BY <2>2, <2>4, <2>5, <2>6
<1>2. CASE s \notin DOMAIN c.machines
  <2>1. d = c
    BY <1>2 DEF HandledBy, Handled
  <2> QED BY <1>2, <2>1, FollowsChains
<1> QED BY <1>1, <1>2

\* All of them, in any order.
LEMMA EachHandles ==
  ASSUME NEW d, NEW a, Steady(d, a), NEW order, Len(order) \in Nat, NEW e, Deliverable(e)
  PROVE  LET c == HandledByEach(d, order, e)
         IN /\ Follows(c, d, a) /\ NoNewCall(c, d)
            /\ e.kind = "no_active_call" =>
                 \A n \in 1 .. Len(order) :
                   order[n] \in DOMAIN d.machines => ~CallHolds(c.machines[order[n]])
<1>1. PICK after : /\ after[0] = d
                   /\ \A n \in 1 .. Len(order) : after[n] = HandledBy(after[n - 1], order[n], e)
                   /\ HandledByEach(d, order, e) = after[Len(order)]
  BY HandledInTurn
<1> DEFINE Done(m) == /\ Follows(after[m], d, a) /\ NoNewCall(after[m], d)
                      /\ e.kind = "no_active_call" =>
                           \A n \in 1 .. m : order[n] \in DOMAIN d.machines
                                               => ~CallHolds(after[m].machines[order[n]])
           T == {m \in Nat : m <= Len(order) => Done(m)}
<1>2. 0 \in T
  BY <1>1, FollowsChains
<1>3. ASSUME NEW m \in Nat, m \in T PROVE m + 1 \in T
  <2> SUFFICES ASSUME m + 1 <= Len(order) PROVE Done(m + 1)
    OBVIOUS
  <2> DEFINE c == after[m]
             b == after[m + 1]
             s == order[m + 1]
  <2>1. m <= Len(order) /\ m + 1 \in 1 .. Len(order) /\ (m + 1) - 1 = m
    OBVIOUS
  <2>2. Done(m)
    BY <1>3, <2>1
  <2>3. b = HandledBy(c, s, e)
    BY <1>1, <2>1
  <2>4. /\ Follows(c, d, a) /\ NoNewCall(c, d)
        /\ e.kind = "no_active_call" =>
             \A n \in 1 .. m : order[n] \in DOMAIN d.machines
                                 => ~CallHolds(c.machines[order[n]])
    BY <2>2
  <2>5. Steady(c, a) /\ DOMAIN c.machines = DOMAIN d.machines
    BY <2>4 DEF Follows
  <2>6. /\ Follows(b, c, a) /\ NoNewCall(b, c)
        /\ e.kind = "no_active_call" /\ s \in DOMAIN c.machines => ~CallHolds(b.machines[s])
    BY <2>3, <2>5, OneHandles
  <2>7. \A n \in 1 .. m + 1 : n \in 1 .. m \/ n = m + 1
    OBVIOUS
  <2> HIDE DEF c, b
  <2>8. Follows(b, d, a) /\ NoNewCall(b, d)
    BY <2>4, <2>6, FollowsChains
  <2>9. ASSUME e.kind = "no_active_call", NEW n \in 1 .. m + 1,
               order[n] \in DOMAIN d.machines
        PROVE  ~CallHolds(b.machines[order[n]])
    <3>1. CASE n = m + 1
      BY <2>5, <2>6, <2>9, <3>1
    <3>2. CASE n \in 1 .. m
      <4>1. ~CallHolds(c.machines[order[n]])
        BY <2>4, <2>9, <3>2
      <4>2. order[n] \in DOMAIN b.machines
        BY <2>8, <2>9 DEF Follows
      <4> QED BY <2>6, <4>1, <4>2 DEF NoNewCall
    <3> QED BY <2>7, <3>1, <3>2
  <2> QED BY <2>8, <2>9 DEF b
<1>4. Len(order) \in T
  <2> HIDE DEF T
  <2> QED BY <1>2, <1>3, SetInduction
<1>5. Done(Len(order))
  BY <1>4
<1> QED BY <1>1, <1>5

\* An enumeration of a finite set leaves none out.
LEMMA OrderCovers ==
  ASSUME NEW S, IsFiniteSet(S), NEW order \in SetToSeqs(S)
  PROVE  /\ Len(order) \in Nat
         /\ \A x \in S : \E n \in 1 .. Len(order) : order[n] = x
<1> DEFINE N == Cardinality(S)
<1>1. N \in Nat
  BY FS_CardinalityType
<1>2. order \in [1 .. N -> S] /\ \A i, j \in 1 .. N : i # j => order[i] # order[j]
  BY DEF SetToSeqs
<1> HIDE DEF N
<1>3. Len(order) = N
  BY <1>1, <1>2
<1>4. order \in Injection(1 .. N, S)
  BY <1>2 DEF Injection, IsInjective
<1>5. Cardinality(1 .. N) = N
  BY <1>1, FS_Interval
<1>6. order \in Surjection(1 .. N, S)
  BY <1>4, <1>5, FS_Injection DEF N
<1> QED BY <1>1, <1>3, <1>6 DEF Surjection

-----------------------------------------------------------------------------
(* The handlers of the active session's events and of the alarms.          *)

\* Every handler of a hardware event attends to the active session, and begins
\* no call.
LEMMA ActiveHandlerAttends ==
  ASSUME NEW v, Sound(v), ~v.paused, NEW kind \in AllActiveEvents
  PROVE  LET u == ActiveHandler(kind, v)
         IN Attends(u, v) /\ (CallHolds(u) => CallHolds(v))
<1> DEFINE u == ActiveHandler(kind, v)
<1>1. CASE kind = "power_button_press"
  <2>1. u = HandlePowerButtonPress(v)
    BY <1>1 DEF ActiveHandler
  <2> QED BY <2>1, HandlePowerButtonPressKeeps, HandlePowerButtonPressServes, ServedIsAttended
          DEF Keeps
<1>2. CASE kind = "power_button_release"
  <2>1. u = HandlePowerButtonRelease(v)
    BY <1>2 DEF ActiveHandler
  <2> QED BY <2>1, HandlePowerButtonReleaseKeeps, HandlePowerButtonReleaseServes,
             ServedIsAttended DEF Keeps
<1>3. CASE kind = "user_activity_changing"
  <2>1. u = HandleUserActivityChanging(v)
    BY <1>3 DEF ActiveHandler
  <2> QED BY <2>1, HandleUserActivityChangingKeeps, UserActivityServes, ServedIsAttended
          DEF Keeps
<1>4. CASE kind = "user_activity_extending"
  <2>1. u = HandleUserActivityExtending(v)
    BY <1>4 DEF ActiveHandler
  <2> QED BY <2>1, HandleUserActivityExtendingKeeps, UserActivityServes, ServedIsAttended
          DEF Keeps
<1>5. CASE kind = "proximity_near"
  <2>1. u = HandleProximityNear(v)
    BY <1>5 DEF ActiveHandler
  <2> QED BY <2>1, HandleProximityNearKeeps, HandleProximityNearServes, ServedIsAttended
          DEF Keeps
<1>6. CASE kind = "proximity_far"
  <2>1. u = HandleProximityFar(v)
    BY <1>6 DEF ActiveHandler
  <2> QED BY <2>1, HandleProximityFarKeeps, HandleProximityFarServes, ServedIsAttended
          DEF Keeps
<1>7. CASE kind = "power_source_change"
  <2>1. u = HandlePowerSourceChange(v)
    BY <1>7 DEF ActiveHandler
  <2> QED BY <2>1, HandlePowerSourceChangeKeeps, HandlePowerSourceChangeServes,
             ServedIsAttended DEF Keeps
<1>8. CASE kind = "power_source_critical"
  <2>1. u = HandlePowerSourceCritical(v)
    BY <1>8 DEF ActiveHandler
  <2>2. Sound(u)
    BY <2>1, HandlePowerSourceCriticalKeeps DEF Keeps
  <2>3. /\ Orders(u, v) /\ (CallHolds(u) => CallHolds(v))
        /\ u.paused = v.paused /\ u.defaultHandlers = v.defaultHandlers
    BY <2>1, HandlePowerSourceCriticalOrders
  <2> HIDE DEF u
  <2> QED BY <2>2, <2>3 DEF Attends, u
<1>9. CASE kind = "lid_closed"
  <2>1. u = HandleLidClosed(v)
    BY <1>9 DEF ActiveHandler
  <2>2. Sound(u)
    BY <2>1, HandleLidClosedKeeps DEF Keeps
  <2>3. /\ Orders(u, v) /\ (CallHolds(u) => CallHolds(v))
        /\ u.paused = v.paused /\ u.defaultHandlers = v.defaultHandlers
    BY <2>1, HandleLidClosedOrders
  <2> HIDE DEF u
  <2> QED BY <2>2, <2>3 DEF Attends, u
<1>10. CASE kind = "lid_open"
  <2>1. u = HandleLidOpen(v)
    BY <1>10 DEF ActiveHandler
  <2> QED BY <2>1, HandleLidOpenKeeps, HandleLidOpenOrders, ServedIsAttended DEF Keeps
<1>11. CASE kind = "system_resume"
  <2>1. u = HandleSystemResume(v)
    BY <1>11 DEF ActiveHandler
  <2>2. Sound(u)
    BY <2>1, TurnOnDisplayWithNormalTimeoutKeeps DEF HandleSystemResume, Keeps, Reasons
  <2> QED BY <2>1, <2>2, HandleSystemResumeServes, ServedIsAttended
<1> QED BY <1>1, <1>2, <1>3, <1>4, <1>5, <1>6, <1>7, <1>8, <1>9, <1>10, <1>11
        DEF AllActiveEvents

\* An alarm that is due attends to the session of its machine, running or not.
LEMMA AlarmHandlerAttends ==
  ASSUME NEW v, Sound(v), NEW kind \in AlarmKinds, Due(v, kind)
  PROVE  LET u == AlarmHandler(kind, v)
         IN Attends(u, v) /\ (CallHolds(u) => CallHolds(v))
<1> DEFINE u == AlarmHandler(kind, v)
<1>1. CASE kind = "long_press"
  <2>1. u = HandleLongPressAlarm(v)
    BY <1>1 DEF AlarmHandler
  <2> QED BY <2>1, HandleLongPressAlarmKeeps, HandleLongPressAlarmServes, ServedIsAttended
          DEF Keeps
<1>2. CASE kind = "dim"
  <2>1. u = HandleDimAlarm(v) /\ v.dimAlarm = 0
    BY <1>2 DEF AlarmHandler, Due
  <2> QED BY <2>1, HandleDimAlarmKeeps, HandleDimAlarmServes, ServedIsAttended DEF Keeps
<1>3. CASE kind = "off"
  <2>1. u = HandleOffAlarm(v) /\ v.offAlarm = 0 /\ v.dimAlarm # 0
    BY <1>3 DEF AlarmHandler, Due
  <2> QED BY <2>1, HandleOffAlarmKeeps, HandleOffAlarmServes, ServedIsAttended DEF Keeps
<1>4. CASE kind = "suspend"
  <2>1. u = HandleSuspendAlarm(v)
    BY <1>4 DEF AlarmHandler
  <2> QED BY <2>1, HandleSuspendAlarmKeeps, HandleSuspendAlarmServes, ServedIsAttended
          DEF Keeps
<1>5. CASE kind = "proximity"
  <2>1. u = HandleProximityDisableAlarm(v)
    BY <1>5 DEF AlarmHandler
  <2> QED BY <2>1, HandleProximityDisableAlarmKeeps, HandleProximityDisableAlarmServes,
             ServedIsAttended DEF Keeps
<1>6. CASE kind = "notification"
  <2>1. u = HandleNotificationExpirationAlarm(v)
    BY <1>6 DEF AlarmHandler
  <2> QED BY <2>1, HandleNotificationExpirationAlarmLifts,
             HandleNotificationExpirationAlarmServes, ServedIsAttended DEF Lifts
<1> QED BY <1>1, <1>2, <1>3, <1>4, <1>5, <1>6 DEF AlarmKinds

-----------------------------------------------------------------------------
(* Switches of sessions.                                                   *)

\* The active session is paused: none runs.
LEMMA PausedIs ==
  ASSUME NEW d, NEW a, Steady(d, a), Calm(d)
  PROVE  LET e == Paused(d, a)
         IN /\ Steady(e, NoSession) /\ DOMAIN e.machines = DOMAIN d.machines
            /\ Calm(e)
            /\ Lit(d, a) => Lit(e, NoSession)
            /\ NoNewCall(e, d)
<1> DEFINE v == World(d, a)
           u == PauseMachine(v)
           e == Paused(d, a)
<1>1. NoSession \notin DOMAIN d.machines
  BY DaemonAssumption DEF Steady, DaemonOK
<1>2. CASE a \notin DOMAIN d.machines
  <2>1. a = NoSession /\ e = d
    BY <1>2 DEF Steady, Paused, Handled
  <2> QED BY <2>1, FollowsChains
<1>3. CASE a \in DOMAIN d.machines
  <2>1. /\ DaemonOK(d) /\ Sound(v) /\ v.calls = d.machines[a].calls
        /\ v.proximityEnablements = d.machines[a].proximityEnablements
    BY <1>3, WorldIsSound DEF Steady
  <2> HIDE DEF v
  <2>2. Sound(u)
    BY <2>1, PauseMachineKeeps DEF Keeps
  <2>3. /\ Orders(u, v) /\ u.paused /\ u.defaultHandlers /\ u.calls = v.calls
        /\ SameSensor(u, v)
    BY <2>1, PauseMachineOrders
  <2> HIDE DEF u
  <2>4. e = Handled(d, a, u)
    BY DEF Paused, u, v
  <2> HIDE DEF e
  <2>5. /\ DaemonOK(e) /\ DOMAIN e.machines = DOMAIN d.machines
        /\ \A f \in MachineFields : e.machines[a][f] = u[f]
        /\ \A t \in DOMAIN d.machines : t # a => e.machines[t] = d.machines[t]
        /\ \A f \in PortFields : e.ports[f] = u[f]
    BY <1>3, <2>1, <2>2, <2>4, HandledIs
  <2>6. /\ e.machines[a].paused /\ e.ports.defaultHandlers
        /\ e.machines[a].calls = d.machines[a].calls
    BY <2>1, <2>3, <2>5 DEF MachineFields, PortFields
  <2>7. Steady(e, NoSession)
    BY <1>1, <2>5, <2>6 DEF Steady
  <2>8. ASSUME Lit(d, a) PROVE Lit(e, NoSession)
    <3> SUFFICES ASSUME DisplayConfigured, NEW t \in DOMAIN e.machines
                 PROVE  Timing(World(e, t))
      BY <1>1, <2>5 DEF Lit
    <3>1. Timing(World(d, t))
      BY <2>5, <2>8 DEF Lit
    <3>2. CASE t = a
      <4>1. Timing(u)
        BY <2>3, <3>1, <3>2 DEF Orders, v
      <4>2. \A f \in MachineFields : World(e, a)[f] = u[f]
        BY <2>5, WorldIs
      <4> QED BY <3>2, <4>1, <4>2, TimingIsMachines
    <3>3. CASE t # a
      <4>1. \A f \in MachineFields : World(e, t)[f] = World(d, t)[f]
        BY <2>5, <3>3, WorldIs
      <4> QED BY <3>1, <4>1, TimingIsMachines
    <3> QED BY <3>2, <3>3
  <2>9. NoNewCall(e, d)
    BY <1>3, <2>1, <2>2, <2>3, <2>4, QuietlyHandled DEF SameSensor, CallHolds, v
  <2>10. Calm(e)
    BY <2>5, <2>6 DEF Calm
  <2> QED BY <2>5, <2>7, <2>8, <2>9, <2>10 DEF e
<1> QED BY <1>2, <1>3

\* What a machine is made of when it is constructed.
LEMMA ConstructedIs ==
  LET m == ConstructedMachine(CHOOSE v \in BrightnessValues : TRUE)
  IN /\ DOMAIN m = MachineFields /\ MachineOK(m)
     /\ ~m.paused /\ ~CallHolds(m) /\ m.calls = {}
     /\ Fits(NormalDisplayOffTimeout) => Timing(m)
<1> DEFINE b == CHOOSE v \in BrightnessValues : TRUE
           m == ConstructedMachine(b)
           off == [s \in Supplies |-> NormalDisplayOffTimeout]
           susp == [s \in Supplies |-> NormalSuspendTimeout]
           lids == [s \in Supplies |-> "suspend"]
<1>1. b \in BrightnessValues
  BY OptionsAssumption
<1>2. /\ off \in [Supplies -> TimeoutRange] /\ susp \in [Supplies -> TimeoutRange]
      /\ lids \in [Supplies -> LidActions]
      /\ NoAlarm \in Ticks /\ Past \in Past .. Infinite
  BY OptionsAssumption DEF TimeoutRange, LidActions, Ticks, NoAlarm, Past
<1>3. /\ m.offTimeout = off /\ m.suspendTimeout = susp /\ m.lidAction = lids
      /\ m.longPressAlarm = NoAlarm /\ m.dimAlarm = NoAlarm /\ m.offAlarm = NoAlarm
      /\ m.suspendAlarm = NoAlarm /\ m.proximityAlarm = NoAlarm
      /\ m.notificationAlarm = NoAlarm /\ m.offTime = Past
      /\ m.mode = "off" /\ m.modeAtPress = "unknown" /\ m.reason = "unknown"
      /\ m.supply = "battery" /\ m.timeoutType = "none" /\ m.criticalAction = "power_off"
      /\ m.disallowedTimeouts = {} /\ m.proximityEnablements = {}
      /\ m.longPressDetected = FALSE /\ m.paused = FALSE /\ m.autobrightness = FALSE
      /\ m.brightnessValue = b /\ m.lidClosed = FALSE
      /\ m.suspendAllowed = TRUE /\ m.suspendPending = FALSE /\ m.calls = {}
  BY DEF ConstructedMachine
<1>4. DOMAIN m = MachineFields
  BY DEF ConstructedMachine, MachineFields
<1>5. \A s \in Supplies : off[s] = NormalDisplayOffTimeout
  OBVIOUS
<1> HIDE DEF b, m, off, susp, lids
<1>6. MachineOK(m)
  BY <1>1, <1>2, <1>3
     DEF MachineOK, DisplayModes, Reasons, Supplies, TimeoutTypes, CriticalActions
<1>7. Fits(NormalDisplayOffTimeout) => Timing(m)
  BY <1>3, <1>5 DEF Timing, NoAlarm, Past
<1> QED BY <1>3, <1>4, <1>6, <1>7 DEF CallHolds, m, b

\* A machine that is made stands beside the others.
LEMMA CreatedIs ==
  ASSUME NEW d, DaemonOK(d), NEW s \in SessionIds, s \notin DOMAIN d.machines
  PROVE  LET c == Created(d, s)
         IN /\ DaemonOK(c) /\ DOMAIN c.machines = DOMAIN d.machines \cup {s}
            /\ \A t \in DOMAIN d.machines : c.machines[t] = d.machines[t]
            /\ c.ports = d.ports
            /\ ~c.machines[s].paused /\ ~CallHolds(c.machines[s])
            /\ c.machines[s].calls = {}
            /\ DisplayConfigured => Timing(World(c, s))
<1> DEFINE m == ConstructedMachine(CHOOSE v \in BrightnessValues : TRUE)
           c == Created(d, s)
<1>1. /\ DOMAIN m = MachineFields /\ MachineOK(m) /\ ~m.paused /\ ~CallHolds(m)
      /\ m.calls = {}
      /\ Fits(NormalDisplayOffTimeout) => Timing(m)
  BY ConstructedIs
<1> HIDE DEF m
<1>2. /\ c.machines = [t \in DOMAIN d.machines \cup {s} |-> IF t = s THEN m ELSE d.machines[t]]
      /\ c.ports = d.ports
  BY DEF Created, m
<1> HIDE DEF c
<1>3. /\ DOMAIN c.machines = DOMAIN d.machines \cup {s} /\ c.machines[s] = m
      /\ \A t \in DOMAIN d.machines : c.machines[t] = d.machines[t]
  BY <1>2
<1>4. IsFiniteSet(DOMAIN d.machines \cup {s})
  BY FS_AddElement DEF DaemonOK
<1>5. DaemonOK(c)
  BY <1>1, <1>2, <1>3, <1>4 DEF DaemonOK
<1>6. ASSUME DisplayConfigured PROVE Timing(World(c, s))
  <2>1. Timing(m)
    BY <1>1, <1>6 DEF DisplayConfigured, TimeoutsFit
  <2>2. \A f \in MachineFields : World(c, s)[f] = m[f]
    BY <1>3, WorldIs
  <2> QED BY <2>1, <2>2, TimingIsMachines
<1> QED BY <1>1, <1>2, <1>3, <1>5, <1>6 DEF c

\* A session whose machine runs and whose display is in order becomes the active
\* one beside paused sessions.
LEMMA RunningIsActive ==
  ASSUME NEW d, DaemonOK(d), NEW s \in DOMAIN d.machines,
         \A t \in DOMAIN d.machines : t # s => d.machines[t].paused,
         Calm(d),
         DisplayConfigured => \A t \in DOMAIN d.machines : Timing(World(d, t)),
         NEW u, Sound(u), ~u.paused, ~u.defaultHandlers, "suspend" \notin u.calls,
         DisplayConfigured => Lighting(u),
         Orders(u, World(d, s))
  PROVE  LET e == Handled(d, s, u)
         IN /\ Steady(e, s) /\ Lit(e, s) /\ Calm(e)
<1> DEFINE e == Handled(d, s, u)
<1>1. /\ DaemonOK(e) /\ DOMAIN e.machines = DOMAIN d.machines
      /\ \A f \in MachineFields : e.machines[s][f] = u[f]
      /\ \A t \in DOMAIN d.machines : t # s => e.machines[t] = d.machines[t]
      /\ \A f \in PortFields : e.ports[f] = u[f]
      /\ \A f \in WorldFields : World(e, s)[f] = u[f]
  BY HandledIs
<1> HIDE DEF e
<1>2. /\ ~e.machines[s].paused /\ ~e.ports.defaultHandlers /\ Calm(e)
  <2>1. e.machines[s].paused = u.paused /\ e.machines[s].calls = u.calls
    BY <1>1 DEF MachineFields
  <2>2. e.ports.defaultHandlers = u.defaultHandlers
    BY <1>1 DEF PortFields
  <2>3. Calm(e)
    BY <1>1, <2>1 DEF Calm
  <2> QED BY <2>1, <2>2, <2>3
<1>3. s # NoSession
  BY DaemonAssumption DEF DaemonOK
<1>4. Steady(e, s)
  BY <1>1, <1>2, <1>3 DEF Steady
<1>5. ASSUME DisplayConfigured PROVE Lighting(World(e, s))
  <2>1. \A f \in MachineFields : World(e, s)[f] = u[f]
    BY <1>1 DEF WorldFields
  <2>2. /\ World(e, s).internalPanel = u.internalPanel
        /\ World(e, s).externalPanel = u.externalPanel
        /\ World(e, s).backlight = u.backlight /\ World(e, s).modem = u.modem
    BY <1>1 DEF WorldFields, PortFields
  <2> QED BY <1>5, <2>1, <2>2, LightingIsPanels
<1>6. ASSUME DisplayConfigured, NEW t \in DOMAIN e.machines PROVE Timing(World(e, t))
  <2>1. Timing(World(d, t))
    BY <1>1, <1>6
  <2>2. CASE t = s
    <3>1. Timing(u)
      BY <2>1, <2>2 DEF Orders
    <3>2. \A f \in MachineFields : World(e, s)[f] = u[f]
      BY <1>1 DEF WorldFields
    <3> QED BY <2>2, <3>1, <3>2, TimingIsMachines
  <2>3. CASE t # s
    <3>1. \A f \in MachineFields : World(e, t)[f] = World(d, t)[f]
      BY <1>1, <2>3, WorldIs
    <3> QED BY <2>1, <3>1, TimingIsMachines
  <2> QED BY <2>2, <2>3
<1> QED BY <1>2, <1>4, <1>5, <1>6 DEF Lit, e

\* A session is activated while none runs: it runs, and its display is lit.
LEMMA ActivatedIs ==
  ASSUME NEW d, Steady(d, NoSession), Lit(d, NoSession), Calm(d),
         NEW s \in SessionIds
  PROVE  LET e == Activated(d, s)
         IN /\ Steady(e, s) /\ Lit(e, s) /\ Calm(e)
            /\ NoNewCall(e, d)
            /\ DOMAIN e.machines = DOMAIN d.machines \cup {s}
<1> DEFINE e == Activated(d, s)
<1>1. /\ DaemonOK(d)
      /\ \A t \in DOMAIN d.machines : t # NoSession /\ d.machines[t].paused
      /\ DisplayConfigured => \A t \in DOMAIN d.machines : Timing(World(d, t))
  BY DaemonAssumption DEF Steady, Lit, DaemonOK
<1>2. CASE s \in DOMAIN d.machines
  <2> DEFINE v == World(d, s)
             u == ResumeMachine(v)
  <2>1. Sound(v) /\ v.calls = d.machines[s].calls
    BY <1>1, <1>2, WorldIsSound
  <2> HIDE DEF v
  <2>2. Sound(u)
    BY <2>1, ResumeMachineKeeps DEF Keeps
  <2>3. /\ Orders(u, v) /\ Lighting(u) /\ ~u.paused /\ ~u.defaultHandlers
        /\ SameSensor(u, v) /\ u.calls \subseteq v.calls \cup {"notify_display_on"}
    BY <2>1, ResumeMachineOrders
  <2> HIDE DEF u
  <2>4. e = Handled(d, s, u)
    BY <1>2 DEF Activated, u, v
  <2> HIDE DEF e
  <2>5. "suspend" \notin u.calls
    BY <1>2, <2>1, <2>3 DEF Calm
  <2>6. Steady(e, s) /\ Lit(e, s) /\ Calm(e)
    BY <1>1, <1>2, <2>2, <2>3, <2>4, <2>5, RunningIsActive DEF v
  <2>7. NoNewCall(e, d)
    BY <1>1, <1>2, <2>2, <2>3, <2>4, QuietlyHandled DEF SameSensor, CallHolds, v
  <2>8. DOMAIN e.machines = DOMAIN d.machines
    BY <1>1, <1>2, <2>2, <2>4, HandledIs
  <2>9. DOMAIN d.machines = DOMAIN d.machines \cup {s}
    BY <1>2
  <2> QED BY <2>6, <2>7, <2>8, <2>9 DEF e
<1>3. CASE s \notin DOMAIN d.machines
  <2> DEFINE c == Created(d, s)
             v == World(c, s)
             u == StartMachine(v)
  <2>1. /\ DaemonOK(c) /\ DOMAIN c.machines = DOMAIN d.machines \cup {s}
        /\ \A t \in DOMAIN d.machines : c.machines[t] = d.machines[t]
        /\ c.ports = d.ports
        /\ ~c.machines[s].paused /\ ~CallHolds(c.machines[s])
        /\ c.machines[s].calls = {}
        /\ DisplayConfigured => Timing(World(c, s))
    BY <1>1, <1>3, CreatedIs
  <2>2. e = Handled(c, s, u)
    BY <1>3 DEF Activated
  <2> HIDE DEF e, c
  <2>3. /\ Sound(v) /\ v.calls = {} /\ ~v.paused
        /\ v.proximityEnablements = c.machines[s].proximityEnablements
    BY <2>1, WorldIsSound
  <2>4. ASSUME DisplayConfigured, NEW t \in DOMAIN c.machines PROVE Timing(World(c, t))
    <3>1. CASE t = s
      BY <2>1, <2>4, <3>1
    <3>2. CASE t # s
      <4>1. Timing(World(d, t)) /\ t \in DOMAIN d.machines
        BY <1>1, <2>1, <2>4, <3>2
      <4>2. \A f \in MachineFields : World(c, t)[f] = World(d, t)[f]
        BY <2>1, <4>1, WorldIs
      <4> QED BY <4>1, <4>2, TimingIsMachines
    <3> QED BY <3>1, <3>2
  <2> HIDE DEF v
  <2>5. Sound(u)
    BY <2>3, StartMachineKeeps DEF Keeps
  <2>6. /\ Orders(u, v) /\ u.paused = v.paused /\ ~u.defaultHandlers /\ SameSensor(u, v)
        /\ TurnOnDisplayAtStartup /\ ~v.paused => Lighting(u)
        /\ u.calls \subseteq v.calls \cup {"notify_display_on"}
    BY <2>3, StartMachineOrders
  <2> HIDE DEF u
  <2>7. "suspend" \notin u.calls
    BY <2>3, <2>6
  <2>8. DisplayConfigured => Lighting(u)
    BY <2>3, <2>6 DEF DisplayConfigured
  <2>9. /\ s \in DOMAIN c.machines /\ Calm(c)
        /\ \A t \in DOMAIN c.machines : t # s => c.machines[t].paused
    BY <1>1, <2>1 DEF Calm
  <2>10. Steady(e, s) /\ Lit(e, s) /\ Calm(e)
    BY <2>1, <2>2, <2>3, <2>4, <2>5, <2>6, <2>7, <2>8, <2>9, RunningIsActive DEF v
  <2>11. DOMAIN e.machines = DOMAIN c.machines
    BY <2>1, <2>2, <2>5, <2>9, HandledIs
  <2>12. CallHolds(u) => CallHolds(v)
    BY <2>6 DEF SameSensor, CallHolds
  <2>13. NoNewCall(e, c)
    BY <2>1, <2>2, <2>5, <2>9, <2>12, QuietlyHandled DEF v
  <2>14. NoNewCall(c, d)
    BY <2>1 DEF NoNewCall
  <2> QED BY <2>1, <2>10, <2>11, <2>13, <2>14, FollowsChains DEF e
<1> QED BY <1>2, <1>3

\* A session that does not run is removed.
LEMMA RemovedIs ==
  ASSUME NEW d, NEW a, Steady(d, a), NEW s, s # a
  PROVE  LET e == Removed(d, s)
         IN /\ DOMAIN e.machines = DOMAIN d.machines \ {s} /\ e.ports = d.ports
            /\ Steady(e, a) /\ (Lit(d, a) => Lit(e, a)) /\ NoNewCall(e, d)
            /\ Calm(d) => Calm(e)
<1> DEFINE left == DOMAIN d.machines \ {s}
           e == Removed(d, s)
<1>1. e.machines = [t \in left |-> d.machines[t]] /\ e.ports = d.ports
  BY DEF Removed, Restrict
<1> HIDE DEF e
<1>2. /\ DOMAIN e.machines = left /\ \A t \in left : e.machines[t] = d.machines[t]
      /\ left \subseteq DOMAIN d.machines
  BY <1>1
<1>3. IsFiniteSet(left)
  BY FS_RemoveElement DEF Steady, DaemonOK
<1>4. DaemonOK(e)
  BY <1>1, <1>2, <1>3 DEF Steady, DaemonOK
<1>5. Steady(e, a)
  BY <1>1, <1>2, <1>4 DEF Steady
<1>6. \A t \in left : World(e, t) = World(d, t)
  BY <1>1, <1>2 DEF World
<1>7. Lit(d, a) => Lit(e, a)
  BY <1>2, <1>6 DEF Lit
<1>8. NoNewCall(e, d) /\ (Calm(d) => Calm(e))
  BY <1>2 DEF NoNewCall, Calm
<1> QED BY <1>1, <1>2, <1>5, <1>7, <1>8 DEF e

-----------------------------------------------------------------------------
(* Time, and what the daemon is like before a handler.                     *)

\* Time passes for every machine and changes no display.
LEMMA TimePasses ==
  ASSUME NEW d, NEW a, Steady(d, a), NEW e, e.ports = d.ports,
         e.machines = [s \in DOMAIN d.machines |-> PassTime(d.machines[s])]
  PROVE  Follows(e, d, a) /\ NoNewCall(e, d)
<1>1. DaemonOK(d)
  BY DEF Steady
<1>2. /\ DOMAIN e.machines = DOMAIN d.machines
      /\ \A s \in DOMAIN d.machines : e.machines[s] = PassTime(d.machines[s])
  OBVIOUS
<1>3. ASSUME NEW s \in DOMAIN d.machines
      PROVE  /\ DOMAIN e.machines[s] = MachineFields /\ MachineOK(e.machines[s])
             /\ e.machines[s].paused = d.machines[s].paused
             /\ e.machines[s].calls = d.machines[s].calls
             /\ CallHolds(e.machines[s]) <=> CallHolds(d.machines[s])
             /\ Orders(World(e, s), World(d, s))
  <2> DEFINE m == d.machines[s]
             n == PassTime(m)
             v == World(d, s)
             u == PassTime(v)
             x == World(e, s)
  <2>1. Sound(v) /\ DOMAIN v = WorldFields
    BY <1>1, WorldIsSound, WorldIs
  <2>2. \A f \in MachineFields : v[f] = m[f]
    BY WorldIs
  <2>3. DOMAIN m = MachineFields
    BY <1>1 DEF DaemonOK
  <2>4. e.machines[s] = n
    BY <1>2
  <2>5. (\A f \in MachineFields : x[f] = n[f]) /\ \A f \in PortFields : x[f] = v[f]
    BY <2>4, WorldIs
  <2>6. Sound(u) /\ Orders(u, v) /\ MachineOK(u)
    <3>1. Keeps(u, v) /\ Serves(u, v)
      BY <2>1, PassTimeKeeps, PassTimeServes
    <3> QED BY <3>1 DEF Keeps, Serves, Sound, WorldOK
  <2>7. /\ m.longPressAlarm = v.longPressAlarm /\ m.dimAlarm = v.dimAlarm
        /\ m.offAlarm = v.offAlarm /\ m.suspendAlarm = v.suspendAlarm
        /\ m.proximityAlarm = v.proximityAlarm /\ m.notificationAlarm = v.notificationAlarm
        /\ m.offTime = v.offTime
    BY <2>2 DEF MachineFields
  <2> DEFINE offTime == IF v.offTime \in 0 .. Infinite - 1 THEN v.offTime - 1 ELSE v.offTime
  <2>8. n = [m EXCEPT !.longPressAlarm = Elapsed(v.longPressAlarm),
                      !.dimAlarm = Elapsed(v.dimAlarm),
                      !.offAlarm = Elapsed(v.offAlarm),
                      !.suspendAlarm = Elapsed(v.suspendAlarm),
                      !.proximityAlarm = Elapsed(v.proximityAlarm),
                      !.notificationAlarm = Elapsed(v.notificationAlarm),
                      !.offTime = offTime]
    BY <2>7 DEF PassTime
  <2>9. u = [v EXCEPT !.longPressAlarm = Elapsed(v.longPressAlarm),
                      !.dimAlarm = Elapsed(v.dimAlarm),
                      !.offAlarm = Elapsed(v.offAlarm),
                      !.suspendAlarm = Elapsed(v.suspendAlarm),
                      !.proximityAlarm = Elapsed(v.proximityAlarm),
                      !.notificationAlarm = Elapsed(v.notificationAlarm),
                      !.offTime = offTime]
    BY DEF PassTime
  <2>10. DOMAIN n = MachineFields
    BY <2>3, <2>8
  <2> HIDE DEF m, n, u, v, x, offTime
  <2>11. \A f \in MachineFields : n[f] = u[f]
    BY <2>1, <2>2, <2>3, <2>8, <2>9 DEF WorldFields, MachineFields
  <2>12. \A f \in PortFields : u[f] = v[f]
    BY <2>1, <2>9 DEF WorldFields, PortFields
  <2>13. MachineOK(n)
    BY <2>6, <2>11 DEF MachineOK, MachineFields
  <2>14. /\ n.paused = m.paused /\ n.proximityEnablements = m.proximityEnablements
         /\ n.calls = m.calls
    BY <2>3, <2>8 DEF MachineFields
  <2>15. \A f \in MachineFields : x[f] = u[f]
    BY <2>5, <2>11
  <2>16. /\ x.internalPanel = u.internalPanel /\ x.externalPanel = u.externalPanel
         /\ x.backlight = u.backlight /\ x.modem = u.modem
    BY <2>5, <2>12 DEF PortFields
  <2>17. Orders(x, v)
    <3>1. Timing(u) => Timing(x)
      BY <2>15, TimingIsMachines
    <3>2. Lighting(u) => Lighting(x)
      BY <2>15, <2>16, LightingIsPanels
    <3>3. Covered(u) => Covered(x)
      BY <2>15, <2>16 DEF Covered, MachineFields
    <3> QED BY <2>6, <3>1, <3>2, <3>3 DEF Orders
  <2> QED BY <2>4, <2>10, <2>13, <2>14, <2>17 DEF CallHolds, m, n, v, x
<1>4. Steady(e, a)
  BY <1>2, <1>3 DEF Steady, DaemonOK
<1>5. Lit(d, a) => Lit(e, a)
  BY <1>2, <1>3 DEF Lit, Orders
<1>6. ActiveSuspends(d, a) => ActiveSuspends(e, a)
  BY <1>2, <1>3 DEF ActiveSuspends
<1>7. NoNewCall(e, d)
  BY <1>2, <1>3 DEF NoNewCall
<1> QED BY <1>2, <1>4, <1>5, <1>6, <1>7 DEF Follows

\* The daemon as it is, and as a handler finds it: nothing called yet, the
\* sensor and the power source reading what they may.
Now == [machines |-> machines, ports |-> ports]

\* What a handler may find: the sessions there are, no new call, no suspend.
Found(d) == DOMAIN d.machines = KnownSessions /\ NoNewCall(d, Now) /\ Calm(d)

\* What a handler finds is what there is but for the calls of the last step, and
\* is in order if that is.
LEMMA BeforeIs ==
  ASSUME Steady(Now, active)
  PROVE  /\ Steady(Before, active) /\ Found(Before)
         /\ Lit(Now, active) => Lit(Before, active)
         /\ \A r \in Readings :
              LET d == BeforeReading(r)
              IN /\ Steady(d, active) /\ Found(d)
                 /\ Lit(Now, active) => Lit(d, active)
         /\ \A s \in KnownSessions : \A f \in MachineFields \ {"calls"} :
              Before.machines[s][f] = machines[s][f]
<1> DEFINE found == [s \in KnownSessions |-> [machines[s] EXCEPT !.calls = {}]]
<1>1. /\ Now.machines = machines /\ Now.ports = ports
      /\ DOMAIN ports = PortFields /\ PortsOK(ports)
      /\ \A s \in KnownSessions : DOMAIN machines[s] = MachineFields /\ MachineOK(machines[s])
  BY DEF Now, Steady, DaemonOK, KnownSessions
<1>2. /\ DOMAIN found = KnownSessions
      /\ \A s \in KnownSessions :
           /\ DOMAIN found[s] = MachineFields /\ found[s].calls = {}
           /\ \A f \in MachineFields \ {"calls"} : found[s][f] = machines[s][f]
  BY <1>1 DEF MachineFields
<1> HIDE DEF found
<1>3. ASSUME NEW s \in KnownSessions
      PROVE  /\ MachineOK(found[s]) /\ found[s].paused = machines[s].paused
             /\ CallHolds(found[s]) <=> CallHolds(machines[s])
  BY <1>1, <1>2 DEF MachineOK, MachineFields, CallHolds
<1>4. ASSUME NEW d, d.machines = found,
             DOMAIN d.ports = PortFields, PortsOK(d.ports),
             d.ports.internalPanel = ports.internalPanel,
             d.ports.externalPanel = ports.externalPanel,
             d.ports.backlight = ports.backlight, d.ports.modem = ports.modem,
             d.ports.defaultHandlers = ports.defaultHandlers
      PROVE  Steady(d, active) /\ Found(d) /\ (Lit(Now, active) => Lit(d, active))
  <2>1. Steady(d, active)
    BY <1>1, <1>2, <1>3, <1>4 DEF Steady, DaemonOK, KnownSessions
  <2>2. \A s \in KnownSessions : \A f \in MachineFields \ {"calls"} :
          World(d, s)[f] = World(Now, s)[f]
    BY <1>1, <1>2, <1>4, WorldIs
  <2>3. \A s \in KnownSessions : Timing(World(Now, s)) => Timing(World(d, s))
    BY <2>2, TimingIsMachines
  <2>4. \A s : /\ World(d, s).internalPanel = World(Now, s).internalPanel
               /\ World(d, s).externalPanel = World(Now, s).externalPanel
               /\ World(d, s).backlight = World(Now, s).backlight
               /\ World(d, s).modem = World(Now, s).modem
    <3> TAKE s
    <3>1. \A f \in PortFields : World(d, s)[f] = d.ports[f] /\ World(Now, s)[f] = ports[f]
      BY <1>1, WorldIs
    <3> QED BY <1>4, <3>1 DEF PortFields
  <2>5. \A s \in KnownSessions : Lighting(World(Now, s)) => Lighting(World(d, s))
    BY <2>2, <2>4, LightingIsPanels
  <2>6. DOMAIN d.machines = KnownSessions /\ DOMAIN Now.machines = KnownSessions
    BY <1>1, <1>2, <1>4 DEF KnownSessions
  <2>7. Lit(Now, active) => Lit(d, active)
    BY <2>3, <2>5, <2>6 DEF Lit
  <2>8. NoNewCall(d, Now) /\ Calm(d)
    BY <1>1, <1>2, <1>3, <1>4, <2>6 DEF NoNewCall, Calm
  <2> QED BY <2>1, <2>6, <2>7, <2>8 DEF Found
<1>5. Before.machines = found /\ Before.ports = ports
  BY DEF Before, found
<1>6. ASSUME NEW r \in Readings
      PROVE  /\ BeforeReading(r).machines = found
             /\ BeforeReading(r).ports =
                  [ports EXCEPT !.near = r.near, !.powerSupply = r.powerSupply]
             /\ r.near \in BOOLEAN /\ r.powerSupply \in Supplies
  <2>1. BeforeReading(r).machines = Before.machines
    BY DEF BeforeReading, Before
  <2>2. BeforeReading(r).ports =
          [Before.ports EXCEPT !.near = r.near, !.powerSupply = r.powerSupply]
    BY DEF BeforeReading, Before
  <2>3. r \in [near : BOOLEAN, powerSupply : Supplies]
    BY DaemonAssumption
  <2> QED BY <1>5, <2>1, <2>2, <2>3
<1>7. Steady(Before, active) /\ Found(Before) /\ (Lit(Now, active) => Lit(Before, active))
  BY <1>1, <1>4, <1>5
<1>8. ASSUME NEW r \in Readings
      PROVE  LET d == BeforeReading(r)
             IN Steady(d, active) /\ Found(d) /\ (Lit(Now, active) => Lit(d, active))
  <2> DEFINE p == BeforeReading(r).ports
  <2>1. /\ p = [ports EXCEPT !.near = r.near, !.powerSupply = r.powerSupply]
        /\ r.near \in BOOLEAN /\ r.powerSupply \in Supplies
    BY <1>6
  <2> HIDE DEF p
  <2>2. DOMAIN p = PortFields /\ PortsOK(p)
    BY <1>1, <2>1 DEF PortsOK, PortFields
  <2>3. /\ p.internalPanel = ports.internalPanel
        /\ p.externalPanel = ports.externalPanel /\ p.backlight = ports.backlight
        /\ p.modem = ports.modem /\ p.defaultHandlers = ports.defaultHandlers
    BY <1>1, <2>1 DEF PortFields
  <2> QED BY <1>4, <1>6, <2>2, <2>3 DEF p
<1> QED BY <1>2, <1>5, <1>7, <1>8

-----------------------------------------------------------------------------
(* The invariant.                                                          *)

\* Besides what the three invariants say, the machines and the ports have their
\* types, the timers of the paused sessions are in order (they are resumed with
\* them), and the sessions with active calls are finitely many.
DaemonInv ==
  /\ Steady(Now, active)
  /\ Lit(Now, active)
  /\ CallsEndEverywhere
  /\ IsFiniteSet(callSessions)

\* What OnlyActiveSuspends says of a step.
SuspendsForActive ==
  \A s \in SessionIds : Suspends(s) => s = active /\ active' = active

\* A step after which the daemon is like d.
LEMMA BecomesInv ==
  ASSUME NEW d, Becomes(d), Steady(d, active'), Lit(d, active'), IsFiniteSet(callSessions'),
         \A s \in DOMAIN d.machines :
           CallHolds(d.machines[s]) => callActive' /\ s \in callSessions'
  PROVE  DaemonInv'
<1> DEFINE n == [machines |-> machines', ports |-> ports']
<1>1. n.machines = d.machines /\ n.ports = d.ports
  BY DEF Becomes
<1>2. Now' = n
  BY DEF Now
<1> HIDE DEF n
<1>3. Steady(n, active')
  BY <1>1 DEF Steady, DaemonOK
<1>4. \A s : World(n, s) = World(d, s)
  BY <1>1 DEF World
<1>5. Lit(n, active')
  BY <1>1, <1>4 DEF Lit
<1>6. CallsEndEverywhere'
  BY DEF CallsEndEverywhere, KnownSessions, Becomes, CallHolds
<1> QED BY <1>2, <1>3, <1>5, <1>6 DEF DaemonInv

\* A step that a handler takes from c, the daemon as the handler found it.
LEMMA FollowsInv ==
  ASSUME DaemonInv, NEW c, Found(c),
         Lit(c, active), NEW d, Follows(d, c, active), Becomes(d), active' = active,
         IsFiniteSet(callSessions'),
         \A s \in DOMAIN d.machines :
           CallHolds(d.machines[s]) => callActive' /\ s \in callSessions'
  PROVE  DaemonInv' /\ SuspendsForActive
<1>1. Steady(d, active') /\ Lit(d, active')
  BY DEF Follows
<1>2. ActiveSuspends(d, active)
  BY DEF Follows, ActiveSuspends, Found, Calm
<1>3. SuspendsForActive
  BY <1>2 DEF ActiveSuspends, SuspendsForActive, Suspends, Becomes, KnownSessions
<1> QED BY <1>1, <1>3, BecomesInv

\* No call is held that was not held before, and the list of sessions stands.
LEMMA QuietInv ==
  ASSUME DaemonInv, NEW c, Found(c), NEW d, NoNewCall(d, c)
  PROVE  \A s \in DOMAIN d.machines :
           CallHolds(d.machines[s]) => s \in KnownSessions /\ callActive /\ s \in callSessions
BY DEF DaemonInv, NoNewCall, Found, Now, CallsEndEverywhere, KnownSessions, CallHolds

\* At the start the daemon knows no session.
LEMMA InitDaemonInv == Init => DaemonInv
<1> SUFFICES ASSUME Init PROVE DaemonInv
  OBVIOUS
<1>1. PICK r \in Readings : ports = InitialPorts(r)
  BY DEF Init
<1>2. r.near \in BOOLEAN /\ r.powerSupply \in Supplies
  BY DaemonAssumption
<1>3. (CHOOSE v \in BrightnessValues : TRUE) \in BrightnessValues
  BY OptionsAssumption
<1>4. DOMAIN ports = PortFields /\ PortsOK(ports) /\ ports.defaultHandlers
  BY <1>1, <1>2, <1>3 DEF InitialPorts, PortsOK, PortFields, DisplayModes
<1>5. DOMAIN machines = {} /\ Now.machines = machines /\ Now.ports = ports
  BY DEF Init, Now
<1>6. IsFiniteSet({})
  BY FS_EmptySet
<1>7. Steady(Now, active)
  BY <1>4, <1>5, <1>6 DEF Init, Steady, DaemonOK
<1>8. Lit(Now, active)
  BY <1>5 DEF Init, Lit
<1> QED BY <1>5, <1>6, <1>7, <1>8 DEF DaemonInv, CallsEndEverywhere, KnownSessions, Init

-----------------------------------------------------------------------------
(* The steps.                                                              *)

\* A session is activated: the one that was active is paused first.
LEMMA SessionActivatedInv ==
  ASSUME DaemonInv, SessionActivated
  PROVE  DaemonInv' /\ SuspendsForActive
<1>1. PICK s \in SessionIds, r \in Readings :
        /\ Becomes(Activated(Paused(BeforeReading(r), active), s))
        /\ active' = s
  BY DEF SessionActivated
<1>2. callSessions' = callSessions /\ callActive' = callActive
  BY DEF SessionActivated, Outside
<1> DEFINE b == BeforeReading(r)
           c == Paused(b, active)
           d == Activated(c, s)
<1>3. /\ Steady(b, active) /\ Found(b) /\ Lit(b, active)
  BY BeforeIs DEF DaemonInv
<1> HIDE DEF b
<1>4. /\ Steady(c, NoSession) /\ Lit(c, NoSession) /\ Calm(c)
      /\ NoNewCall(c, b)
  BY <1>3, PausedIs DEF Found
<1> HIDE DEF c
<1>5. /\ Steady(d, s) /\ Lit(d, s) /\ Calm(d) /\ NoNewCall(d, c)
  BY <1>4, ActivatedIs
<1>6. Becomes(d)
  BY <1>1 DEF b, c
<1> HIDE DEF d
<1>7. NoNewCall(d, b)
  BY <1>4, <1>5, FollowsChains
<1>8. \A t \in DOMAIN d.machines : CallHolds(d.machines[t]) => callActive /\ t \in callSessions
  BY <1>3, <1>7, QuietInv
<1>9. DaemonInv'
  BY <1>1, <1>2, <1>5, <1>6, <1>8, BecomesInv DEF DaemonInv
<1> QED BY <1>5, <1>6, <1>9 DEF SuspendsForActive, Suspends, Calm, Becomes, KnownSessions

\* A session that repowerd does not handle is activated: none runs.
LEMMA IncompatibleSessionActivatedInv ==
  ASSUME DaemonInv, IncompatibleSessionActivated
  PROVE  DaemonInv' /\ SuspendsForActive
<1> DEFINE d == Paused(Before, active)
<1>1. Becomes(d) /\ active' = NoSession /\ callSessions' = callSessions /\ callActive' = callActive
  BY DEF IncompatibleSessionActivated, Outside
<1>2. /\ Steady(Before, active) /\ Found(Before) /\ Lit(Before, active)
  BY BeforeIs DEF DaemonInv
<1>3. /\ Steady(d, NoSession) /\ Lit(d, NoSession) /\ Calm(d)
      /\ NoNewCall(d, Before)
  BY <1>2, PausedIs DEF Found
<1> HIDE DEF d
<1>4. \A t \in DOMAIN d.machines : CallHolds(d.machines[t]) => callActive /\ t \in callSessions
  BY <1>2, <1>3, QuietInv
<1>5. DaemonInv'
  BY <1>1, <1>3, <1>4, BecomesInv DEF DaemonInv
<1> QED BY <1>1, <1>3, <1>5 DEF SuspendsForActive, Suspends, Calm, Becomes, KnownSessions

\* A session is removed, paused first when it is the active one.
LEMMA SessionRemovedInv ==
  ASSUME DaemonInv, SessionRemoved
  PROVE  DaemonInv' /\ SuspendsForActive
<1>1. PICK s \in KnownSessions :
        LET d == IF active = s THEN Paused(Before, s) ELSE Before
        IN /\ Becomes(Removed(d, s))
           /\ active' = IF active = s THEN NoSession ELSE active
  BY DEF SessionRemoved
<1>2. callSessions' = callSessions /\ callActive' = callActive
  BY DEF SessionRemoved, Outside
<1> DEFINE c == IF active = s THEN Paused(Before, s) ELSE Before
           a == IF active = s THEN NoSession ELSE active
           d == Removed(c, s)
<1>3. /\ Steady(Before, active) /\ Found(Before) /\ Lit(Before, active)
  BY BeforeIs DEF DaemonInv
<1>4. s # NoSession
  BY <1>3, DaemonAssumption DEF Steady, DaemonOK, KnownSessions, Found
<1>5. /\ Steady(c, a) /\ Lit(c, a) /\ Calm(c)
      /\ NoNewCall(c, Before) /\ s # a
  <2>1. CASE active = s
    BY <1>3, <1>4, <2>1, PausedIs DEF Found
  <2>2. CASE active # s
    BY <1>3, <2>2, FollowsChains DEF Found
  <2> QED BY <2>1, <2>2
<1>6. Becomes(d) /\ active' = a
  BY <1>1
<1> HIDE DEF a, c
<1>7. /\ Steady(d, a) /\ Lit(d, a) /\ Calm(d) /\ NoNewCall(d, c)
  BY <1>5, RemovedIs
<1> HIDE DEF d
<1>8. NoNewCall(d, Before)
  BY <1>5, <1>7, FollowsChains
<1>9. \A t \in DOMAIN d.machines : CallHolds(d.machines[t]) => callActive /\ t \in callSessions
  BY <1>3, <1>8, QuietInv
<1>10. DaemonInv'
  BY <1>2, <1>6, <1>7, <1>9, BecomesInv DEF DaemonInv
<1> QED BY <1>5, <1>6, <1>7, <1>10 DEF SuspendsForActive, Suspends, Calm, Becomes, KnownSessions

\* A handler that attends to its session and begins no call, or no handler at
\* all when the session is not known.
LEMMA AttendedInv ==
  ASSUME DaemonInv, NEW c, Found(c), Steady(c, active), Lit(c, active),
         NEW s, NEW u,
         s \in KnownSessions =>
           Attends(u, World(c, s)) /\ (CallHolds(u) => CallHolds(World(c, s))),
         Becomes(Handled(c, s, u)),
         active' = active, callSessions' = callSessions, callActive' = callActive
  PROVE  DaemonInv' /\ SuspendsForActive
<1> DEFINE d == Handled(c, s, u)
<1>1. Follows(d, c, active) /\ NoNewCall(d, c)
  <2>1. CASE s \in DOMAIN c.machines
    <3>1. Attends(u, World(c, s)) /\ (CallHolds(u) => CallHolds(World(c, s)))
      BY <2>1 DEF Found
    <3>2. Sound(u) /\ DaemonOK(c)
      BY <3>1 DEF Attends, Steady
    <3> QED BY <2>1, <3>1, <3>2, AttendedFollows, QuietlyHandled
  <2>2. CASE s \notin DOMAIN c.machines
    <3>1. d = c
      BY <2>2 DEF Handled
    <3> QED BY <3>1, FollowsChains
  <2> QED BY <2>1, <2>2
<1> HIDE DEF d
<1>2. \A t \in DOMAIN d.machines : CallHolds(d.machines[t]) => callActive /\ t \in callSessions
  BY <1>1, QuietInv
<1>3. IsFiniteSet(callSessions') /\ Becomes(d)
  BY DEF DaemonInv, d
<1> QED BY <1>1, <1>2, <1>3, FollowsInv

\* An event of the hardware.
LEMMA ActiveEventInv ==
  ASSUME DaemonInv, ActiveEvent
  PROVE  DaemonInv' /\ SuspendsForActive
<1>1. PICK kind \in ActiveEvents, r \in Readings :
        LET d == BeforeReading(r)
        IN Becomes(Handled(d, active, ActiveHandler(kind, World(d, active))))
  BY DEF ActiveEvent
<1> DEFINE c == BeforeReading(r)
           v == World(c, active)
           u == ActiveHandler(kind, v)
<1>2. active' = active /\ callSessions' = callSessions /\ callActive' = callActive
  BY DEF ActiveEvent, Outside
<1>3. /\ Steady(c, active) /\ Found(c) /\ Lit(c, active)
  BY BeforeIs DEF DaemonInv
<1>4. Becomes(Handled(c, active, u))
  BY <1>1
<1> HIDE DEF c
<1>5. ASSUME active \in KnownSessions
      PROVE  Attends(u, v) /\ (CallHolds(u) => CallHolds(v))
  <2>1. active \in DOMAIN c.machines /\ ~c.machines[active].paused /\ DaemonOK(c)
    BY <1>3, <1>5 DEF Steady, Found
  <2>2. Sound(v) /\ ~v.paused
    BY <2>1, WorldIsSound
  <2>3. kind \in AllActiveEvents
    BY DaemonAssumption
  <2> HIDE DEF v
  <2> QED BY <2>2, <2>3, ActiveHandlerAttends
<1> HIDE DEF u
<1> QED BY <1>2, <1>3, <1>4, <1>5, AttendedInv DEF v

\* An alarm of a known session, active or not.
LEMMA AlarmInv ==
  ASSUME DaemonInv, Alarm
  PROVE  DaemonInv' /\ SuspendsForActive
<1>1. PICK s \in KnownSessions, kind \in AlarmKinds :
        /\ Due(machines[s], kind)
        /\ Becomes(Handled(Before, s, AlarmHandler(kind, World(Before, s))))
  BY DEF Alarm
<1> DEFINE v == World(Before, s)
           u == AlarmHandler(kind, v)
<1>2. active' = active /\ callSessions' = callSessions /\ callActive' = callActive
  BY DEF Alarm, Outside
<1>3. /\ Steady(Before, active) /\ Found(Before) /\ Lit(Before, active)
  BY BeforeIs DEF DaemonInv
<1>4. Becomes(Handled(Before, s, u))
  BY <1>1
<1>5. Attends(u, v) /\ (CallHolds(u) => CallHolds(v))
  <2>1. Sound(v)
    BY <1>3, WorldIsSound DEF Found, Steady
  <2>2. \A f \in MachineFields \ {"calls"} : v[f] = machines[s][f]
    BY BeforeIs, WorldIs DEF DaemonInv
  <2> DEFINE m == machines[s]
  <2>3. /\ v.longPressAlarm = m.longPressAlarm /\ v.dimAlarm = m.dimAlarm
        /\ v.offAlarm = m.offAlarm /\ v.suspendAlarm = m.suspendAlarm
        /\ v.proximityAlarm = m.proximityAlarm /\ v.notificationAlarm = m.notificationAlarm
    BY <2>2 DEF MachineFields
  <2>4. Due(v, kind)
    BY <1>1, <2>3 DEF Due
  <2> HIDE DEF v
  <2> QED BY <2>1, <2>4, AlarmHandlerAttends
<1> HIDE DEF u
<1> QED BY <1>2, <1>3, <1>4, <1>5, AttendedInv DEF v

\* A call begins: the active session is listed and its sensor held on.
LEMMA ActiveCallInv ==
  ASSUME DaemonInv, ActiveCall
  PROVE  DaemonInv' /\ SuspendsForActive
<1>1. PICK r \in Readings :
        LET d == BeforeReading(r)
        IN Becomes(Handled(d, active, HandleActiveCall(World(d, active))))
  BY DEF ActiveCall
<1> DEFINE c == BeforeReading(r)
           v == World(c, active)
           u == HandleActiveCall(v)
           d == Handled(c, active, u)
<1>2. /\ active' = active /\ callActive' = TRUE
      /\ callSessions' = callSessions \cup {active}
  BY DEF ActiveCall, ListedSessions
<1>3. /\ Steady(c, active) /\ Found(c) /\ Lit(c, active)
  BY BeforeIs DEF DaemonInv
<1>4. Becomes(d)
  BY <1>1
<1> HIDE DEF c
<1>5. IsFiniteSet(callSessions')
  BY <1>2, FS_AddElement DEF DaemonInv
<1>6. \A t \in DOMAIN c.machines : CallHolds(c.machines[t]) => t \in callSessions
  BY <1>3, QuietInv, FollowsChains
<1>7. /\ Follows(d, c, active)
      /\ \A t \in DOMAIN d.machines : CallHolds(d.machines[t]) => t \in callSessions'
  <2>1. CASE active \in DOMAIN c.machines
    <3>1. Sound(v) /\ DaemonOK(c)
      BY <1>3, <2>1, WorldIsSound DEF Steady
    <3> HIDE DEF v
    <3>2. Sound(u) /\ Orders(u, v) /\ Discreet(u, v)
      BY <3>1, HandleActiveCallKeeps, HandleActiveCallOrders DEF Keeps
    <3> HIDE DEF u
    <3>3. Attends(u, v)
      BY <3>2 DEF Attends, Discreet, ActiveCalls
    <3>4. Follows(d, c, active)
      BY <1>3, <2>1, <3>3, AttendedFollows DEF v
    <3>5. \A t \in DOMAIN c.machines :
            t # active => (CallHolds(d.machines[t]) <=> CallHolds(c.machines[t]))
      BY <2>1, <3>1, <3>2, HandledCalls
    <3> HIDE DEF d
    <3> QED BY <1>2, <1>6, <3>4, <3>5 DEF Follows
  <2>2. CASE active \notin DOMAIN c.machines
    <3>1. d = c
      BY <2>2 DEF Handled
    <3> HIDE DEF d
    <3> QED BY <1>2, <1>3, <1>6, <3>1, FollowsChains
  <2> QED BY <2>1, <2>2
<1> HIDE DEF d
<1> QED BY <1>2, <1>3, <1>4, <1>5, <1>7, FollowsInv

\* A call ends, for every session that is listed: none waits for its end any
\* more.
LEMMA NoActiveCallInv ==
  ASSUME DaemonInv, NoActiveCall
  PROVE  DaemonInv' /\ SuspendsForActive
<1> DEFINE e == [kind |-> "no_active_call"]
<1>1. PICK r \in Readings, order \in SetToSeqs(callSessions) :
        Becomes(HandledByEach(BeforeReading(r), order, e))
  BY DEF NoActiveCall
<1> DEFINE c == BeforeReading(r)
           d == HandledByEach(c, order, e)
<1>2. /\ active' = active /\ callSessions' = callSessions
  BY DEF NoActiveCall
<1>3. /\ Steady(c, active) /\ Found(c) /\ Lit(c, active)
  BY BeforeIs DEF DaemonInv
<1>4. Becomes(d)
  BY <1>1
<1>5. e.kind = "no_active_call" /\ Deliverable(e)
  BY EventsAreDeliverable
<1> HIDE DEF c, e
<1>6. IsFiniteSet(callSessions)
  BY DEF DaemonInv
<1>7. /\ Len(order) \in Nat
      /\ \A t \in callSessions : \E n \in 1 .. Len(order) : order[n] = t
  BY <1>6, OrderCovers
<1>8. /\ Follows(d, c, active) /\ NoNewCall(d, c)
      /\ \A n \in 1 .. Len(order) :
           order[n] \in DOMAIN c.machines => ~CallHolds(d.machines[order[n]])
  BY <1>3, <1>5, <1>7, EachHandles
<1> HIDE DEF d
<1>9. \A t \in DOMAIN d.machines : ~CallHolds(d.machines[t])
  <2>1. \A t \in DOMAIN d.machines : CallHolds(d.machines[t]) => t \in callSessions
    BY <1>3, <1>8, QuietInv
  <2>2. DOMAIN d.machines = DOMAIN c.machines
    BY <1>8 DEF Follows
  <2> QED BY <1>7, <1>8, <2>1, <2>2
<1> QED BY <1>2, <1>3, <1>4, <1>6, <1>8, <1>9, FollowsInv

\* A request is delivered to some sessions.
LEMMA DeliveredInv ==
  ASSUME DaemonInv, NEW c, Found(c), Steady(c, active), Lit(c, active),
         NEW targets \in SUBSET KnownSessions,
         NEW order \in SetToSeqs(targets), NEW e, Deliverable(e),
         Becomes(HandledByEach(c, order, e)),
         active' = active, callSessions' = callSessions, callActive' = callActive
  PROVE  DaemonInv' /\ SuspendsForActive
<1> DEFINE d == HandledByEach(c, order, e)
<1>1. IsFiniteSet(targets)
  BY FS_Subset DEF Steady, DaemonOK, Found
<1>2. Len(order) \in Nat
  BY <1>1, OrderCovers
<1>3. Follows(d, c, active) /\ NoNewCall(d, c)
  BY <1>2, EachHandles
<1>4. \A t \in DOMAIN d.machines : CallHolds(d.machines[t]) => callActive /\ t \in callSessions
  BY <1>3, QuietInv
<1>5. IsFiniteSet(callSessions') /\ Becomes(d)
  BY DEF DaemonInv
<1> HIDE DEF d
<1> QED BY <1>3, <1>4, <1>5, FollowsInv

\* What clients and logind ask for.
LEMMA RequestsInv ==
  ASSUME DaemonInv, ClientEvent \/ SystemDisallowSuspend \/ SystemAllowSuspend
  PROVE  DaemonInv' /\ SuspendsForActive
<1>1. active' = active /\ callSessions' = callSessions /\ callActive' = callActive
  BY DEF ClientEvent, SystemDisallowSuspend, SystemAllowSuspend, Outside
<1>2. /\ Steady(Before, active) /\ Found(Before) /\ Lit(Before, active)
  BY BeforeIs DEF DaemonInv
<1>3. CASE ClientEvent
  <2>1. PICK e \in ClientEvents, targets \in SUBSET KnownSessions, r \in Readings :
          \E order \in SetToSeqs(targets) :
            Becomes(HandledByEach(BeforeReading(r), order, e))
    BY <1>3 DEF ClientEvent
  <2>2. PICK order \in SetToSeqs(targets) :
          Becomes(HandledByEach(BeforeReading(r), order, e))
    BY <2>1
  <2>3. /\ Steady(BeforeReading(r), active) /\ Found(BeforeReading(r))
        /\ Lit(BeforeReading(r), active)
    BY BeforeIs DEF DaemonInv
  <2> QED BY <1>1, <2>2, <2>3, EventsAreDeliverable, DeliveredInv
<1>4. CASE SystemDisallowSuspend
  <2>1. PICK order \in SetToSeqs(KnownSessions) :
          Becomes(HandledByEach(Before, order, SystemRequest("disallow_suspend")))
    BY <1>4 DEF SystemDisallowSuspend
  <2> QED BY <1>1, <1>2, <2>1, EventsAreDeliverable, DeliveredInv
<1>5. CASE SystemAllowSuspend
  <2>1. PICK order \in SetToSeqs(KnownSessions) :
          Becomes(HandledByEach(Before, order, SystemRequest("allow_suspend")))
    BY <1>5 DEF SystemAllowSuspend
  <2> QED BY <1>1, <1>2, <2>1, EventsAreDeliverable, DeliveredInv
<1> QED BY <1>3, <1>4, <1>5

\* Time passes.
LEMMA TickInv ==
  ASSUME DaemonInv, Tick
  PROVE  DaemonInv' /\ SuspendsForActive
<1> DEFINE d == [Before EXCEPT !.machines = [s \in KnownSessions |-> PassTime(@[s])]]
<1>1. /\ Becomes(d) /\ active' = active /\ callSessions' = callSessions
      /\ callActive' = callActive
  BY DEF Tick, Outside
<1>2. /\ Steady(Before, active) /\ Found(Before) /\ Lit(Before, active)
  BY BeforeIs DEF DaemonInv
<1>3. /\ d.ports = Before.ports
      /\ d.machines = [s \in DOMAIN Before.machines |-> PassTime(Before.machines[s])]
  BY DEF Before, KnownSessions
<1> HIDE DEF d
<1>4. Follows(d, Before, active) /\ NoNewCall(d, Before)
  BY <1>2, <1>3, TimePasses
<1>5. \A t \in DOMAIN d.machines : CallHolds(d.machines[t]) => callActive /\ t \in callSessions
  BY <1>2, <1>4, QuietInv
<1> QED BY <1>1, <1>2, <1>4, <1>5, FollowsInv DEF DaemonInv

\* The invariant holds at the start and after every step, and a step suspends
\* the system for the active session alone.
LEMMA NextDaemonInv ==
  ASSUME DaemonInv, [Next]_vars
  PROVE  DaemonInv' /\ [SuspendsForActive]_vars
<1>1. CASE Next
  <2>1. \/ SessionActivated \/ IncompatibleSessionActivated \/ SessionRemoved
        \/ ActiveEvent \/ ActiveCall \/ NoActiveCall
        \/ (ClientEvent \/ SystemDisallowSuspend \/ SystemAllowSuspend)
        \/ Tick \/ Alarm
    BY <1>1 DEF Next
  <2> QED BY <2>1, SessionActivatedInv, IncompatibleSessionActivatedInv, SessionRemovedInv,
             ActiveEventInv, ActiveCallInv, NoActiveCallInv, RequestsInv, TickInv, AlarmInv
<1>2. CASE UNCHANGED vars
  <2>1. /\ machines' = machines /\ ports' = ports /\ active' = active
        /\ callSessions' = callSessions /\ callActive' = callActive
    BY <1>2 DEF vars
  <2>2. Now' = Now
    BY <2>1 DEF Now
  <2>3. CallsEndEverywhere'
    BY <2>1 DEF DaemonInv, CallsEndEverywhere, KnownSessions
  <2> QED BY <1>2, <2>1, <2>2, <2>3 DEF DaemonInv
<1> QED BY <1>1, <1>2

-----------------------------------------------------------------------------
(* What holds of every behaviour.                                          *)

\* The invariant is one.
THEOREM DaemonInvariant == Spec => []DaemonInv
<1>1. Init => DaemonInv
  BY InitDaemonInv
<1>2. DaemonInv /\ [Next]_vars => DaemonInv'
  BY NextDaemonInv
<1> QED BY <1>1, <1>2, PTL DEF Spec

\* Of handle_session_activated and handle_session_removed: of the sessions the
\* daemon knows exactly the active one runs, and logind handles the lid and
\* idleness itself exactly while none is active.
THEOREM ActiveRuns == Spec => []OnlyActiveRuns
<1>1. DaemonInv => OnlyActiveRuns
  BY DEF DaemonInv, Steady, Now, OnlyActiveRuns, KnownSessions
<1> QED BY <1>1, DaemonInvariant, PTL

\* Of add_session_with_active_call and the delivery of the end of a call: a
\* session whose sensor a call holds on is told of the end of that call, however
\* many sessions come and go meanwhile.
THEOREM CallsEnd == Spec => []CallsEndEverywhere
<1>1. DaemonInv => CallsEndEverywhere
  BY DEF DaemonInv
<1> QED BY <1>1, DaemonInvariant, PTL

\* Of the paused guards of the handlers: the shared display shows what the
\* active machine believes, and its timer runs, whatever the other sessions
\* handle.  The timeouts must fit the delay of an alarm, and the display must be
\* turned on when a session starts: without that the display of the session
\* before stays on while the new machine believes it off.
THEOREM DisplayIsActives ==
  ASSUME TimeoutsFit, TurnOnDisplayAtStartup
  PROVE  Spec => []DisplayIsActiveSessions
<1>1. DaemonInv => DisplayIsActiveSessions
  <2> SUFFICES ASSUME DaemonInv, active \in KnownSessions
               PROVE  LET m == machines[active]
                      IN /\ ports.externalPanel = m.mode
                         /\ m.lidClosed \/ ports.internalPanel = m.mode
                         /\ m.mode = "off" => ports.backlight = "off"
                         /\ m.mode = "on" /\ TimeoutAllowed(m) => m.timeoutType # "none"
    BY DEF DisplayIsActiveSessions
  <2> DEFINE v == World(Now, active)
             m == machines[active]
  <2>1. /\ Now.machines = machines /\ Now.ports = ports /\ DaemonOK(Now)
        /\ ~m.paused
    BY DEF DaemonInv, Steady, Now, KnownSessions
  <2>2. Lighting(v)
    BY <2>1 DEF DaemonInv, Lit, DisplayConfigured, KnownSessions
  <2>3. /\ \A f \in MachineFields : v[f] = m[f]
        /\ \A f \in PortFields : v[f] = ports[f]
    BY <2>1, WorldIs
  <2>4. m.mode \in DisplayModes
    BY <2>1 DEF DaemonOK, MachineOK, KnownSessions
  <2> HIDE DEF v, m
  <2>5. /\ v.paused = m.paused /\ v.mode = m.mode /\ v.lidClosed = m.lidClosed
        /\ v.timeoutType = m.timeoutType /\ v.disallowedTimeouts = m.disallowedTimeouts
    BY <2>3 DEF MachineFields
  <2>6. /\ v.internalPanel = ports.internalPanel /\ v.externalPanel = ports.externalPanel
        /\ v.backlight = ports.backlight
    BY <2>3 DEF PortFields
  <2>7. /\ ports.externalPanel = m.mode
        /\ m.lidClosed \/ ports.internalPanel = m.mode
        /\ m.mode = "off" => ports.backlight = "off"
        /\ m.mode = "on" /\ TimeoutAllowed(m) => m.timeoutType # "none"
    BY <2>1, <2>2, <2>4, <2>5, <2>6 DEF Lighting, TimeoutAllowed, DisplayModes
  <2> QED BY <2>7 DEF m
<1> QED BY <1>1, DaemonInvariant, PTL

\* Of suspend_when_allowed, the lid and the critical battery under several
\* machines: whichever session an event or an alarm is for, it is the active
\* session's handler that suspends the system, and no other session's.
THEOREM ActiveSuspendsAlone == Spec => OnlyActiveSuspends
<1>1. DaemonInv /\ [Next]_vars => [SuspendsForActive]_vars
  BY NextDaemonInv
<1>2. Spec => [][SuspendsForActive]_vars
  BY <1>1, DaemonInvariant, PTL DEF Spec
<1> QED BY <1>2, PTL DEF OnlyActiveSuspends, SuspendsForActive

=============================================================================
