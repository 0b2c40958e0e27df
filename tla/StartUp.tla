------------------------------ MODULE StartUp ------------------------------
(***************************************************************************)
(* How DefaultDaemonConfig builds the objects behind the daemon's ports:   *)
(* each when it is first asked for, after those it needs itself, once, and *)
(* with what to fall back on when a constructor throws.  An exception that *)
(* no getter on the way catches ends the process.  The daemon asks for its *)
(* ports before it runs; the state machines ask for theirs on the daemon's *)
(* thread, when the first session is activated.                            *)
(***************************************************************************)
EXTENDS SequencesExt, Tables

VARIABLES
  startPhase,   \* "daemon", "starting", "running", "machine", "ready", or "terminated"
  portsAsked,   \* how many ports of this phase have been asked for
  building,     \* getters that have been called: object and alternative, outermost first
  built,        \* by object, what it is
  constructed,  \* by implementation, how many were made
  failed,       \* implementations whose constructor throws
  threw         \* history: objects whose getter ended with an exception

startVars == <<startPhase, portsAsked, building, built, constructed, failed, threw>>

\* An implementation, the objects it needs, and whether its constructor may
\* throw, for want of the bus or of a device.
Impl(name, needs, mayThrow) == [name |-> name, needs |-> needs, mayThrow |-> mayThrow]
Sure(name) == Impl(name, {}, FALSE)
OnBus(name) == Impl(name, {}, TRUE)
Null == Sure("Null")

\* In the order in which each getter tries them.
FirstObjects ==
  [brightness_control |-> <<Impl("Backlit", {"backlight_brightness_control"}, FALSE), Null>>,
   client_settings |-> <<OnBus("RepowerdService")>>,
   performance_booster |-> <<OnBus("UbuntuPerformanceBooster"), Null>>,
   proximity_sensor |-> <<OnBus("UbuntuProximitySensor"), Null>>,
   session_tracker |-> <<OnBus("LogindSessionTracker")>>,
   state_machine_factory |-> <<Sure("DefaultStateMachineFactory")>>,
   state_machine_options |-> <<Sure("DefaultStateMachineOptions")>>]

PowerObjects ==
  [system_power_control |-> <<OnBus("Logind"), Impl("Libsuspend", {}, TRUE), Null>>,
   timer |-> <<Sure("EventLoopTimer")>>,
   user_activity |-> <<OnBus("JingosUserActivity")>>,
   backlight |-> <<Impl("AndroidBacklight", {}, TRUE), Impl("SysfsBacklight", {}, TRUE)>>]

BrightnessObjects ==
  [backlight_brightness_control |->
     <<Impl("BacklightBrightnessControl", {"backlight", "light_sensor", "device_config"}, FALSE)>>,
   brightness_notification |-> <<Impl("Backlit", {"backlight_brightness_control"}, FALSE), Null>>,
   device_config |-> <<Sure("AndroidDeviceConfig")>>]

ServiceObjects ==
  [light_sensor |-> <<OnBus("UbuntuLightSensor"), Null>>,
   ofono_voice_call_service |-> <<OnBus("OfonoVoiceCallService")>>,
   temporary_suspend_inhibition |-> <<Impl("Real", {"system_power_control"}, FALSE)>>,
   jingos_display |-> <<OnBus("JingosDisplay")>>,
   jingos_screen_service |->
     <<Impl("JingosScreenService", {"wakeup_service", "brightness_notification",
                                    "temporary_suspend_inhibition", "device_config"}, TRUE)>>,
   jingos_power_button |-> <<OnBus("JingosPowerButton")>>,
   upower_power_source_and_lid |->
     <<Impl("UPower", {"temporary_suspend_inhibition", "device_config"}, TRUE)>>,
   wakeup_service |-> <<Impl("DevAlarm", {}, TRUE), Impl("Timerfd", {}, TRUE)>>]

Objects == Over(Over(FirstObjects, PowerObjects), Over(BrightnessObjects, ServiceObjects))

\* The ports in the order in which the daemon's constructor asks for them,
\* and the other ones that a state machine has.
DaemonPorts ==
  <<"brightness_control", "jingos_screen_service", "client_settings",
    "upower_power_source_and_lid", "jingos_power_button", "proximity_sensor", "session_tracker",
    "state_machine_factory", "system_power_control", "timer", "user_activity",
    "ofono_voice_call_service">>
MachinePorts ==
  <<"jingos_display", "brightness_control", "jingos_screen_service", "ofono_voice_call_service",
    "performance_booster", "jingos_power_button", "upower_power_source_and_lid",
    "proximity_sensor", "system_power_control", "timer", "state_machine_options">>
PortsOf(phase) == IF phase = "daemon" THEN DaemonPorts ELSE MachinePorts
AfterPhase(phase) == IF phase = "daemon" THEN "starting" ELSE "ready"

StartInit ==
  /\ startPhase = "daemon" /\ portsAsked = 0 /\ building = <<>>
  /\ built = [o \in {} |-> ""] /\ constructed = [i \in {} |-> 0]
  /\ failed = {} /\ threw = {}

IsBuilt(o) == o \in DOMAIN built
Getter(o) == [object |-> o, try |-> 1]

\* The next port, unless it is there already.
AskForPort ==
  /\ startPhase \in {"daemon", "machine"} /\ building = <<>>
  /\ IF portsAsked = Len(PortsOf(startPhase))
     THEN startPhase' = AfterPhase(startPhase) /\ portsAsked' = 0 /\ UNCHANGED building
     ELSE LET o == PortsOf(startPhase)[portsAsked + 1] IN
          /\ portsAsked' = portsAsked + 1
          /\ building' = IF IsBuilt(o) THEN <<>> ELSE <<Getter(o)>>
          /\ UNCHANGED startPhase
  /\ UNCHANGED <<built, constructed, failed, threw>>

Trying(frame) == Objects[frame.object][frame.try]

\* The arguments of a constructor are evaluated in any order.
AskForNeeded ==
  /\ building # <<>>
  /\ \E o \in Trying(Last(building)).needs : ~IsBuilt(o) /\ building' = Append(building, Getter(o))
  /\ UNCHANGED <<startPhase, portsAsked, built, constructed, failed, threw>>

NeedsAreBuilt == building # <<>> /\ \A o \in Trying(Last(building)).needs : IsBuilt(o)

ConstructorReturns ==
  /\ NeedsAreBuilt
  /\ LET f == Last(building)
         i == Trying(f).name
     IN /\ i \notin failed
        /\ built' = With(built, f.object, i)
        /\ constructed' = IF i \in {"Backlit", "Null"} THEN constructed
                          ELSE With(constructed, i, IF i \in DOMAIN constructed THEN constructed[i] + 1 ELSE 1)
  /\ building' = Front(building)
  /\ UNCHANGED <<startPhase, portsAsked, failed, threw>>

\* The calls that catch an exception have something else to try.
Catching(calls) == {n \in DOMAIN calls : calls[n].try < Len(Objects[calls[n].object])}

\* Mutant: the getter that was called first catches every exception.
CaughtByFirst(calls) ==
  LET n == Min(Catching(calls)) IN [SubSeq(calls, 1, n) EXCEPT ![n].try = @ + 1]

Caught(calls) ==
  LET n == Max(Catching(calls)) IN [SubSeq(calls, 1, n) EXCEPT ![n].try = @ + 1]

\* What has failed once fails again: devices and the bus do not come and go
\* while the daemon starts.
ConstructorThrows ==
  /\ NeedsAreBuilt /\ Trying(Last(building)).mayThrow
  /\ failed' = failed \cup {Trying(Last(building)).name}
  /\ IF Catching(building) # {} THEN building' = Caught(building) /\ UNCHANGED startPhase
     ELSE building' = <<>> /\ startPhase' = "terminated"
  /\ threw' = threw \cup {building[n].object :
                            n \in {k \in DOMAIN building : \A c \in Catching(building) : k > c}}
  /\ UNCHANGED <<portsAsked, built, constructed>>

\* Daemon::run starts the ports; a service whose name is taken throws.
StartPorts ==
  /\ startPhase = "starting"
  /\ startPhase' \in {"running", "terminated"}
  /\ UNCHANGED <<portsAsked, building, built, constructed, failed, threw>>

\* The first session: create_state_machine asks for the machine's ports.
FirstSession ==
  /\ startPhase = "running" /\ startPhase' = "machine"
  /\ UNCHANGED <<portsAsked, building, built, constructed, failed, threw>>

StartNext ==
  \/ AskForPort \/ AskForNeeded \/ ConstructorReturns \/ ConstructorThrows
  \/ StartPorts \/ FirstSession

StartSpec == StartInit /\ [][StartNext]_startVars

-----------------------------------------------------------------------------
StartTypeOK ==
  /\ startPhase \in {"daemon", "starting", "running", "machine", "ready", "terminated"}
  /\ DOMAIN built \subseteq DOMAIN Objects
  /\ \A o \in DOMAIN built : \E a \in Range(Objects[o]) : a.name = built[o]
  /\ \A n \in DOMAIN building : building[n].try \in DOMAIN Objects[building[n].object]

\* Every port that the daemon and the machines call is there: an exception
\* that some getter catches never leaves a port without an object.
NoPortIsMissing ==
  /\ startPhase \in {"starting", "running", "machine", "ready"} => Range(DaemonPorts) \subseteq DOMAIN built
  /\ startPhase = "ready" => Range(MachinePorts) \subseteq DOMAIN built

\* The ports that share an object share it: nothing is made twice, whichever
\* way it is asked for and whatever was thrown in between.
NothingIsBuiltTwice == \A i \in DOMAIN constructed : constructed[i] = 1

\* An object is a fallback only if all that comes before it cannot be had:
\* its constructor throws, or the getter of something it needs does.
FallbackIsLast ==
  \A o \in DOMAIN built : \A n \in DOMAIN Objects[o] :
    (\A m \in 1 .. n : Objects[o][m].name # built[o]) =>
       Objects[o][n].name \in failed \/ Objects[o][n].needs \cap threw # {}

=============================================================================
