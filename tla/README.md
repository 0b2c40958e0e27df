# A formal model of repowerd

repowerd is the power daemon of a phone or tablet: it decides when the display,
the modem, the proximity sensor and the automatic suspend are on, from the power
button, user activity, the lid, the power source, voice calls, notifications and
the requests of client processes, for each login session separately.

This directory holds TLA+ modules translated from its source, TLC configurations
that check them on small instances, and TLAPS proofs of theorems about them for
every value of their constants. `PROJECT.json` maps each definition to its source
lines and lists runs, mutants, findings, hazards and theorems.

## The system

One thread, the daemon's, runs every handler. Adapters (D-Bus services, a timer,
sensors) have threads or event loops of their own; each registers handlers with
the daemon that push a closure on its queue. The daemon pops a closure and runs
it to its end: on the machine of the active session, of the sessions of a
process, or of all sessions. The machine calls back into the adapters (ports)
synchronously.

    sources --handler--> queue --> Daemon --> StateEventAdapter --> DefaultStateMachine --> ports
    button, lid,                   sessions,   ids of requests       mode, timers,          display, backlight,
    calls, D-Bus,                  active one                        allowances             modem, sensor, timer,
    logind, timer                                                                           suspend

| Component (source under `src/src/`) | State | Operations | Hard behaviour | What makes it correct |
|---|---|---|---|---|
| Session state machine, `core/default_state_machine.cpp` | display mode and the reason of its last change, timeout allowances, proximity enablements, six alarms, the time point of display off, settings per supply, paused, pending suspend | 28 handlers, start, pause, resume | one display-off timer shared by clients, notifications, calls and activity; alarms that fire while a client objects; handlers that go on while paused | the display never stays on for lack of a timer, never goes off while a client keeps it on; sensor, lock and panels follow the members; a paused machine touches no port of the display |
| State event adapter, `core/state_event_adapter.cpp` | three sets of ids | six operations | ids that end twice, or never began | it tells the machine exactly of first beginnings and last ends |
| Daemon, `core/daemon.cpp` | sessions, active session, sessions with active calls, queue | registration, routing, activation, removal | events queued before and handled after a switch or a removal; shared ports | exactly the active session runs; what a call switched on ends with it in every session |
| Timer, `adapters/event_loop*.cpp` | alarm table with cancellations | schedule, cancel, fire | a cancellation against an alarm in flight | a cancelled alarm does nothing, one that is not is handled |
| System power control, `adapters/logind_system_power_control.cpp`, `libsuspend*` | inhibition lock, wake locks by id, block of sleep | suspend, power off, allow, disallow | libsuspend's thread, which takes none of the locks; a block that changes while it is asked for | no sleep while an id is disallowed |
| Temporary suspend inhibition, `adapters/real_temporary_suspend_inhibition.cpp` | ids in use | inhibit for a time | overlaps | each holds to its own end |
| Screen service, `adapters/jingos_screen_service.cpp` | requests by sender, cookies, notifications | keep display on, set timeouts, request suspend locks | a client that leaves the bus; removal from another session or in another's name; a lookup that fails | no request outlives its client, none is lost |
| Session tracker, `adapters/logind_session_tracker.cpp` | tracked sessions, active id | signals of logind | D-Bus calls between two signals | it announces the session that is active |
| Power source and lid, `adapters/upower_power_source_and_lid.cpp` | devices, a percentage seen | add, remove, change | several devices merged into one; changes told to one machine | a change and a critical state are announced once, and to whom they matter |
| Voice calls, `adapters/ofono_voice_call_service.cpp` | calls by path and state | added, changed, removed | two calls at once | active while one is active |
| Brightness control, `adapters/backlight_brightness_control.cpp` | type, values, autobrightness | dim, normal, off, light | a light event during a transition | the backlight follows the type |
| Wakeups, `adapters/dev_alarm_wakeup_service.cpp`, `timerfd_wakeup_service.cpp` | wakeups by time, cookies, the thread or the loop | schedule, cancel, fire | requests between the alarm and the mutex; a destructor that joins a thread which waits | each is given in the end, cookies are not lost, the join returns |
| Repowerd service, `adapters/repowerd_service.cpp`, settings of the screen service | settings of a session, parameters for everybody | set what inactivity, lid and battery do, timeouts, brightness | two loops and the daemon's thread write one setting | what a service answers as set is what the machine goes by |
| Display and backlights, `adapters/jingos_display.cpp`, `sysfs_backlight.cpp`, `android_backlight.cpp` | active outputs; last brightness set | signal, answer; set, get, transition | a signal older than an answer; others that write to the device | the outputs are known; a transition arrives |
| Device configuration, `adapters/android_device_config.cpp` | values by name | parse two files | an array in the second file | the last element of a name holds |
| Wiring and run, `default_daemon_config.cpp`, `main.cpp`, `core/daemon.cpp`, `adapters/dbus_event_loop.cpp` | objects made, registrations, action queue, stop | getters with fallbacks; register, start, run, stop, unregister | exceptions in constructors; a signal at any moment; loops that wait for loops | no port is missing or made twice; no handler runs after `run` |
| Booster, button, activity, logs, tools | handles of devices | | | I/O with no behaviour over time of its own |

`PROJECT.json` has them all with their status.

## The modules

* `DefaultStateMachine` - every handler of the machine as an operator from a
  *world* to the world it leaves. A world is one record: the members of the
  object (`MachineFields`) and the state of the ports it drives (`PortFields`).
  A handler of the code runs to its end on one thread, so composition of operators
  is the order of its calls, and an early return is a disjunct or an `IF`.
  Alarms are ticks left (`NoAlarm` for the invalid id); the time point of
  display off is a distance from now. A delay is taken modulo `DelayRange` because
  `event_loop.cpp` hands it to GLib as a `guint` of milliseconds. `calls`, a member
  of the machine's record, holds the calls of its last handler that leave no state in a
  port (suspend, power off, notifications of the event sink): so it is known whose they are.
* `StateEventAdapter` - the six operations on the three id sets, around the
  handlers they call.
* `DefaultStateMachineOptions` - the shipped options, in seconds.
* `Session` - one session as the daemon runs it: a variable for the world, the
  position of button and lid, one action per event. The other sessions appear as
  `Pause` and `Resume`. Events of the hardware reach it only while active, requests
  and alarms always. `Sources` says which sources are present, so that a run takes
  those whose handlers touch the state it asks about.
* `Daemon` - several sessions that share one set of ports: activation (creation
  or resume), incompatible sessions (the null machine), removal, the routing of
  every registered handler, sessions with active calls, logind's block of sleep.
* `MCSession`, `MCDaemon`, `MCAdapters` - the values of the constants for TLC.
* `Tables` - functions with an entry set, for the tables that components keep.
* `DefaultStateMachineProofs`, `SessionProofs`, `DaemonProofs` - the proofs about machines and
  daemon; `LifecycleProofs` about the run, the start and the configuration files; `PortProofs` about timer,
  suspend locks, wakeups, light sensor, backlight and settings; `ScreenServiceProofs` about seat, sessions
  and clients; `ServiceProofs` about logind's block, oFono, UPower and the display outputs, and, since
  it has all the others, about everything around the machines in one behaviour. `QueueLemmas` - what appending
  to, taking from and joining a queue does to what it holds and to the last of a kind in it.

Around the machines, one module for each way in which a component and its
neighbours (threads, loops, services, clients, the kernel) run side by side:

* `Timer` - what the port promises: an alarm goes off at most once and never after
  its cancellation has returned. `AlarmTable` - the timer on its event loop: ids that
  wrap, timeout sources against the idle tasks that store and run cancellations, and
  ids that wait on the daemon's queue. It implements `Timer` (`ImplementsTimer`).
* `SuspendLocks` - what the port promises: no sleep while an id is disallowed.
  `PowerLocks` - both controls' wake locks, libsuspend's thread with its lockout and the
  kernel's wakeup count, and the temporary inhibitions. It implements `SuspendLocks`
  (`ImplementsSuspendLocks`).
* `LogindPower` - blocks of sleep, resumes and the idle and lid inhibitor.
* `SessionTracker` - logind's seat and its signals, the tracker, the queue and the
  daemon's session map. `ScreenService` extends it with clients on the bus, their
  requests, notifications and departures, and what each session's adapter holds. Calls may name
  another sender and process than the caller's, lookups may fail.
* `ClientSettings` - the settings of both D-Bus services on their two loops, and the
  machine that takes them and tells the control while it is in front. `Wakeups` - both wakeup services. `VoiceCalls` - oFono's calls
  and modems, with its crash. `PowerSource` - UPower's devices, the critical battery, the
  supply and a machine that starts, pauses and resumes. `Display` - active outputs.
* `Brightness` - the brightness control, the autobrightness algorithm and the light
  sensor, four threads. `Backlights` - both devices and the steps of a transition.
* `Lifecycle` - `Daemon::run`: registration on the ports' loops, start, the queue, stop by
  signal, unregistration. `StartUp` - the getters of `DefaultDaemonConfig` with their
  needs, alternatives and fallbacks. `DeviceFiles` - the parser of the device's files.

These components share no variables with each other beyond what `ScreenService` takes
from `SessionTracker`: what a module needs of a neighbour it models itself (the daemon's
queue, say), and `Session` takes every event at any time. So `MCAdapters` explores one of
them in each behaviour (`part`) rather than their product, which would only multiply
independent steps.

In `Session` and `Daemon` an event is one action at the moment it is handled. The queue is not a variable:
events come at any time, so any delay and order of the queue is an order of the
actions. Where the state at the time of queueing matters the model is explicit: a
report of the proximity sensor may be handled after its events are off; the
targets of a client's request are any set of sessions, known or not. An alarm that
is cancelled after it fired but before its event is handled has an id that matches
none of the machine's: the model drops it with its alarm.

Left out of the machine: log lines, the device name, and floating-point brightness
(a member of `BrightnessValues`). Members that the code always assigns together
(`is_on_battery` in three `ConfigurableValue`s) are one field.

## What TLC checks

All configurations are small so that every interleaving of the chosen sources is
explored. Timeouts of one to three ticks are enough to have every order of two
alarms, and of an alarm and an event at the same instant; `Infinite = 1000` and
`DelayRange = 500` keep the infinite timeout and the GLib wrap apart from them.

| Run | Module | What it asks | Properties |
|---|---|---|---|
| `session_display` | Session | Button, activity, two client requests, timeouts (finite and infinite), brightness and session switches against the dim and off alarms | `DisplayOffTimerArmed` (a display that nobody keeps on has a timer), `AdapterAgrees`, `PausedSessionIsDark` |
| `session_calls` | Session | Notifications, calls, the sensor, clients, switches | `NotificationsExpire`, `ProximityFollowsEnablements`, `ClientKeepsDisplayOn`, `EndsNeverShorten` |
| `session_power` | Session | Lid, external displays, both supplies, critical battery, suspend requests, settings, switches | `TypeOK`, `PanelsFollowMode`, `AutomaticSuspendHeld`, `SuspendRespectsClients` |
| `session_idle` | Session | Fair alarms and time, after which nothing more happens | `DisplayGoesOff`, `IdleSensorGoesOff`, `IdleSystemSuspends` |
| `daemon_sessions` | Daemon | Two sessions created, switched, removed and created again under calls, alarms, resumes, requests and blocks of sleep | `OnlyActiveRuns`, `CallsEndEverywhere`, `DisplayIsActiveSessions`, `OnlyActiveSuspends` |
| `adapters` | MCAdapters | The components around the machines, clients among them: see below | 15 invariants |
| `adapters_live` | MCAdapters | The two refinements, and what must happen in the end | 7 properties |

`CHECK_DEADLOCK FALSE` everywhere: with no event and no alarm the daemon waits.
In `daemon_sessions` the sessions are symmetric (no temporal property), the sensor
reads far and the display-off timeout is infinite, so the timers there are the
suspend alarm and the reduced timeout after a call; two sessions and the null one
give every kind of switch (first activation, resume, activation of the active one,
none). A machine's record keeps the calls of its last handler, so that `OnlyActiveSuspends` says
of each step whose machine suspends (100,422 states). `session_idle` has no session switches: a paused session is not asked to go
dark, and a supply of battery, since the supply matters only when it changes.

Fairness (`session_idle` only): weak fairness of `Tick` and of each alarm. The
timer thread runs as long as the daemon and the daemon's loop takes every action
of its queue; the six alarms are separate because each has its own source in the
event loop. Nothing is assumed of clients or hardware; the action `GoQuiet` ends
what they do, and the properties start there.

### The components around the machines

`adapters` (1,484,146 states, three minutes) takes all fourteen parts, more than half of the states with clients,
`adapters_live` (47,952) the five with a temporal property. A property that is a conjunction asks one
question of several components or of several sides of one; most parts
have a mutant of their own beside the definition it changes (marked "Mutant:"), and
`PROJECT.json` names one for each property.

| Property | What it asks | Bounds that matter |
|---|---|---|
| `AlarmsAreSound` | `OnlyDueAlarmsHandled`: a queued id of a cancelled alarm matches nothing, also after the ids wrap; `CancellationsRunOnce` | 4 alarms, ids modulo 3, two held at once: an id comes again while an older alarm's is queued |
| `DaemonFollowsSeat` | at rest the daemon's session is the one in front | 2 sessions, one incompatible, 2 changes of the seat, either value of the quirk |
| `RequestsEndWithClient`, `RequestsAreNotLost` | no request outlives a client that is served well, none is dropped before, whatever others do | a client with a session that calls all but what names others; root, which names a third client, itself and every process; that third, in the session of the first; lookups fail for both; 2 calls, 3 steps of clients and logind together |
| `InhibitionsHold` | overlapping inhibitions each hold to their end | 2 inhibitions of one name (the id must tell them apart) |
| `ServicesAreKnown` | at rest oFono's calls and modems, UPower's batteries, the outputs and logind's block are what the daemon believes | 2 calls, 1 modem, 4 changes, 2 or 3 signals waiting: a change in front of, during and after each question |
| `WakeupsAreSound` | cookies and table agree; the timerfd is never early | 2 wakeups, 3 points of time |
| `LightIsCurrent` | no light of an earlier period, one valid debounce | 2 readings, 4 calls, 2 debounces: off and on again with a reading on its way |
| `BacklightFollows` | the backlight ends as the last call set it; a transition starts from what is lit and arrives | as above, either quirk; 3 transitions, 2 writes by others, 4 levels of 12 units |
| `SupplyIsKnown`, `EmptyBatteryIsKnown` | a change of supply and an empty battery are told, the latter once | 1 battery, percentages 0 to 2, 2 types, "charging", "discharging" and "pending_discharge", 3 changes of any kind, also of another device, at any point of the start and between pauses; the type of the device begins with one of the two, which the code only compares |
| `SettingsAreReported` | what is answered and reported is what the machine keeps, and the control goes by it while the session that set it is in front, but for autobrightness under a later brightness (`BrightnessIsCarriedOut`) | 2 sessions and the null one, 2 calls on two loops, 2 changes of the session in front |
| `RunIsOrderly` | no handler runs in a daemon whose run has returned; the first event is the active session | 3 ports, 2 signals from the world, a stop at any point on any thread |
| `StartIsComplete` | no port is missing, made twice, or a needless fallback; no value of the default file mixes with the device's | every constructor may throw; 3 texts, files that end anywhere |

| Property of `adapters_live` | What it asks |
|---|---|
| `ImplementsTimer`, `ImplementsSuspendLocks` | refinement of the two ports |
| `AlarmsAreHandled` | an alarm that a machine waits for is handled or cancelled |
| `InhibitionsEnd` | no inhibition outlasts its time |
| `WakeupsGoOn` | every wakeup is given, unless it is cancelled or the service stops; the thread that is joined ends |
| `BrightnessCallsReturn` | the daemon's calls return, though two loops and a thread wait for each other |
| `RunStops` | a stop overtakes what is queued, and the run ends |

Fairness of `adapters_live`, stated in each module and again in `MCAdapters` for the part
explored: a loop's thread runs its tasks and due timeouts, a joined thread runs, the
kernel ends its writes, timeouts elapse, a system that is asleep is woken. Weak fairness
except for the end of an inhibition and the readable timerfd, which calls on the same
mutex or loop can disable for a moment again and again; both are due for good once
due, and the loop serves them in turn. Nothing is assumed of clients, sensors, signals or services.

Assumptions of these models. Every one narrows what is asked, and none is of the code:

* `WellServed`, in `RequestsEndWithClient`: a client is served well if it waits for an answer before
  it leaves (`PatientClients`), bus and logind answer of it in time (`AnsweredClients`), no
  other client calls in its name (`NamedByItself`), it names no other process for itself, and the daemon handles an
  activation before the next call (`DaemonKeepsUp`). One client of `adapters` is, and the two others are not:
  without any of these a request may stay for ever (two findings, `NothingOutlivesClients` below). `RequestsAreNotLost` needs `NamedByItself` alone, and that only
  of requests that are in the tables no more. `OwnSession`: both speak of
  what was begun always and only in the session of its client's process; a request whose lookup failed was begun nowhere,
  one that `keepDisplayOn` made for every process in all sessions.
* `UPowerAnswers`, `LogindAnswers`: questions are answered in time; no answer is taken by the
  code for "no". UPower's state and `OnBattery` change together, and percentages are
  constant while the service subscribes and asks. `SupplyIsKnown` is of a machine that has missed no change
  (`supplyMissed`): one told while it was paused, or between two states neither of which is "discharging".
  It and `EmptyBatteryIsKnown` are of runs in which no other device has signalled (`othersSignalled`), since
  the code merges its changes into those of the display device. Without these they do not hold (two findings, below).
* A call that is there before the voice service listens counts from its next change on
  (`HeardCalls`): the service asks for modems, and not for calls.
* An element of a configuration file that the file cuts off has any values (`unfinished`): errors of the parser are
  not looked at. Elements with a name are not nested in each other.
* `ClientSettings` has sessions that have been in front before: the first activation starts a machine, which
  tells the control nothing of brightness.
* No wakeup is for the epoch itself, which disarms the timerfd. A modem that appears while
  power is low is not told so, and a crash of oFono leaves its calls active, as in the code.
* Failures at start are permanent: a constructor that throws once throws again.
* Brightness of the curve and averages of light are abstract values; `Backlights` has
  brightness exactly, as multiples of the device's levels. The kernel refuses levels beyond the range of a
  sysfs device; Android's HAL is not asked.
* Device quirks that come from the environment take either value at the start.

### What the code does otherwise

Five runs look for the violation of something a test or a document of the repository states.
Each is a finding in `PROJECT.json` with its quotation.

| Run | Property | What TLC finds |
|---|---|---|
| `session_long_press` | `ShortPressTurnsOff` | `pause()` cancels the long-press alarm and keeps `power_button_long_press_detected`: the next short press after `resume()` is swallowed |
| `session_lid` | `LidKeepsPanelOff` | a session that was paused while the lid closed turns the internal panel on when it is resumed |
| `session_shipped_options` | `NotificationExpiresInTime` | with the shipped display-off timeout of -1 s the expiration alarm is a negative delay, 2^32 ms as a `guint` |
| `daemon_block` | `BlockPreventsSuspend` | a session created while logind blocks sleep has not heard of the block and suspends on inactivity |
| `daemon_lock` | `ActiveDisplayHoldsLock` | the machines share one lock id: a paused session's client releases what the active display holds |

Nine more findings have no run of their own. Five of them are seen with a claim that the modules
state and that does not hold. Give TLC `Adapters.cfg` with the part, the changes and the one claim named here:

| Claim | Configuration | What TLC finds |
|---|---|---|
| `NothingOutlivesClients` (`ScreenService`): once no client is left on the bus, of any session, nothing is held | `"clients"`; `MaxDepartures = 3`, `MaxSwitches = 1`, `PatientClients = {}`, `AnsweredClients` all clients, `NamesOf <- MCNoNames` | a client takes its request back and leaves before the service asks for its process: the end goes to no session, and the request has left the table |
| the same | `"clients"`; `MaxDepartures = 3`, `PatientClients` and `AnsweredClients` all clients | `keepDisplayOff` names a client's request and another process: the request leaves the table and ends where it is not held |
| `LowBatteryIsTold` (`PowerSource`) | `"battery"`; `Percentages = {0, 2, 3}`, `NonCriticalPercentage = 1` | the critical percentage is 0 in the code and 2 in its tests: a battery that falls to 2 % is not told |
| `ActiveMachineKnowsSupply` (`PowerSource`) | `"battery"`; `PluggedStates = {"charging", "fully_charged"}` | a session that was paused while the charger was plugged in goes by the battery when it is resumed: `resume()` does not ask, and changes go to the active session only |
| `EmptyBatteryIsToldOnce` (`PowerSource`) | `"battery"` | a device that is not the display device runs empty, and the system is powered off: `is_display_device` is always true |

The other four are the temperature that is
never looked at (`upower_power_source_and_lid.cpp:405`), `keepDisplayOn` that is called without the
arguments it demands (`tools/cli.cpp:136`), the autobrightness that is "supported" when it was last enabled
(`jingos_screen_service.cpp:694`), and the quirk that is true for every device (`android_device_quirks.cpp:135`).

Seen while modelling, with no document that says otherwise:

* `dev_alarm_wakeup_service.cpp:87`: the thread takes the first wakeup after the alarm; if the
  one that was due was cancelled before it gets the mutex, the next one is given early.
* `main.cpp:53`: the signal's handler locks the mutex of the action queue. A signal that
  interrupts the thread which holds it waits for itself (`SignalIsStuck`, left out of `StopIsHeeded`).
* `dbus_event_loop.cpp:107`: `done.wait()` where an exception of the task needs `get()`: a
  failed registration of an object goes unnoticed.
* `event_loop_timer.h:44`: the loop is destroyed after the table and mutex its tasks use.
* `backlight_brightness_control.cpp:238`: a transition's step is the whole range, so it is
  one write, against the tests' "transitions_smoothly"
  (`tests/adapter-tests/test_backlight_brightness_control.cpp`).
* `event_loop_timer.cpp`: the entry of an alarm that fired before its cancellation was stored
  stays in the table; it is harmless (`CancellationsRunOnce`).
* `brightness_params` and the signals of changed settings are shared by all sessions.
* `default_state_machine.cpp:550`: a brightness turns autobrightness off at the control, while the machine
  and what is reported have it on, and the next resume turns it on again (`overruled` in `ClientSettings`).
* `android_device_config.cpp:120`: the name of an element that the default file cuts off is not reset, so that text between
  the elements of the device's file is taken for its value.
* `default_state_machine.cpp:288`, `:305`: behind a closed lid a display may stay dimmed without
  any timer. A call or a notification turns it on for an external display, the dim alarm dims
  it, a client's request makes another reason of its mode while the lid is closed (which
  brightens nothing), and the off alarm then finds the display not its to turn off. Nobody sees it,
  and opening the lid brightens the panel; a proof attempt of `PanelsFollowMode` met it, so the
  property speaks of open panels.
* `default_state_machine.cpp:626`: if displays are not turned on at startup, the first activation
  of a session leaves the display of the session before it as it is: lit, under a machine that
  believes it off and has no timer for it. With `TurnOnDisplayAtStartup = FALSE` in
  `DaemonSessions.cfg` TLC reports `DisplayIsActiveSessions` violated; a proof attempt met it.
  The shipped options turn it on.

## What is proved

Every theorem holds for every value of the constants that satisfies the assumptions named
with it, with no bound but those the modules themselves name. The lemmas have one case for
each action; the last step of each theorem is temporal.

### A session

For every value of the options, ids, timeouts and sources that satisfies the two
assumptions below, and with no bound on time or on the number of requests:

| Theorem (`SessionProofs`) | Statement |
|---|---|
| `TypeCorrect` | `Spec => []TypeOK` |
| `ProximityCorrect` | `Spec => []ProximityFollowsEnablements` |
| `AutomaticSuspendCorrect` | `Spec => []AutomaticSuspendHeld` |
| `AdapterCorrect` | `Spec => []AdapterAgrees` |
| `InvariantHolds` | `Spec => []IInv`, of which the four follow |
| `NotificationsCorrect` | `Spec => []NotificationsExpire` |
| `DisplayOffTimerCorrect` | `Spec => []DisplayOffTimerArmed`, if the timeouts fit |
| `PanelsCorrect` | `Spec => []PanelsFollowMode`, if the timeouts fit |
| `PausedIsDark` | `Spec => PausedSessionIsDark` |
| `SuspendIsAllowed` | `Spec => SuspendRespectsClients` |
| `ClientKeepsOn` | `Spec => ClientKeepsDisplayOn` |
| `EndsExtend` | `Spec => EndsNeverShorten`, if the timeouts fit and the one after a notification is positive |

So every safety property that the three session runs check is a theorem.

The argument. `DefaultStateMachineProofs` shows of every helper and handler that it
`Keeps` a world: from a world that is `Sound` (typed) it leaves a sound world, keeps what is
true of the sensor's events (`SensorKept`), changes none of the adapter's sets, and changes no
allowance the adapter answers for. A handler's lemma follows from the
lemmas of the helpers it calls, in their order. The lemmas of the adapter then show
that its operations keep its sets and the machine's allowances in agreement.
`SessionProofs` has one case for each action of `Next`.

Why the strengthening: `ProximityFollowsEnablements` speaks of running sessions only
and is not inductive. `disable_proximity` switches the events off only at the last
enablement and `enable_proximity` on only at the first, so `IInv` also needs that
events which are on have an enablement, in a paused session too
(`SensorNeeded`); the converse (`SensorServed`) holds of running sessions, is carried
through every handler and restored by `resume`. `AutomaticSuspendHeld` needs to know
of every path that turns the display on or off which of the three reasons (display,
proximity, client) is left when it releases the lock: `LockHeld` is carried through
every handler, running or paused, and only a display that is on is ever turned off
because of proximity. `AdapterAgrees` needs that no handler called
from elsewhere (alarms, the lid, a call) changes the client's allowance, which is what
`Keeps` carries; and `TypeOK` needs the ids in the sets to be ids clients send.

A second family of lemmas carries what the display and its timer need. `Timing` ties
the dim alarm, the off alarm, the time point and the type of the timeout to each other;
`Lighting` ties the panels, the modem and the backlight to the mode, and says of a display
that is dim, or that nobody keeps on, that it has a timer. Neither is inductive alone, and
`DisplayOffTimerArmed` is not either: `schedule_*_alarm` compares time points and leaves the
alarm alone if the display stays on longer anyway, which is right only if the time point
never lies beyond the alarm, and a time point that is left over has no alarm only where the
type is "none"; the dim alarm may not outlive the off alarm; and a brightness that
`resume` or the lid restores must find the timer that the mode asks for. `Lighting` also
says what a paused session remembers of the lid, since `resume` goes by it. `Expires`
says that what a notification and the end of a call leave behind has its alarm, and
`Discreet` that a handler of a paused session touches no display and that a suspend happens
only with the clients' leave. `Serves` is all of that for one handler; `OrderInv` is what
`SessionProofs` carries through `Next`, beside `IInv`.

Assumptions: `OptionsAssumption` (timeouts are integers up to infinite; those handed
to GLib unconditionally fit a delay; the normal timeouts may have either sign, as
shipped) and `SessionAssumption` (the sources, timeouts and start supplies come from
their sets). TLC evaluates both in every run of a session. Two hypotheses are stated
where they are needed, and not without reason:

* `TimeoutsFit`: every timeout is infinite or less than the range of a GLib delay, 2^32 ms or
  49.7 days. A longer one is scheduled modulo the range while the time point keeps it whole,
  and the timer of a display may then be gone long before its time point. The configuration of
  every run satisfies it, the shipped options included: the timeouts of -1 s are less than the range.
* `PostNotificationTimeout > 0`, for `EndsNeverShorten` alone: with a timeout of 0 the end of a
  notification gives no timer to a display whose time has just run out, and turns it off. The
  shipped value is 5 s.

### Several sessions

For any sessions, clients, readings of the sensor and the supply, and events that occur (the
run has two sessions and a handful of events):

| Theorem (`DaemonProofs`) | Statement |
|---|---|
| `DaemonInvariant` | `Spec => []DaemonInv` |
| `ActiveRuns` | `Spec => []OnlyActiveRuns` |
| `CallsEnd` | `Spec => []CallsEndEverywhere` |
| `ActiveSuspendsAlone` | `Spec => OnlyActiveSuspends` |
| `DisplayIsActives` | `Spec => []DisplayIsActiveSessions`, if the timeouts fit and `TurnOnDisplayAtStartup` |

The argument. The lemmas of `DefaultStateMachineProofs` are of one world, a machine with the
ports, and say nothing of the machines that share them; so they assume nothing of the ports
that another session could have spoiled (of the sensor's events a handler keeps what is true
of them, and requires nothing). `Attends` is what they say of any handler of a session, running
or paused: types, `paused` and logind's default handlers stay, timer and panels stay in
order, and a paused one touches neither the display nor suspends. `HandledIs` and `AttendedFollows` turn
that into a step of the daemon (`Follows`): the other machines are untouched, and the panels of the
active machine's world are the ports, which only its own handlers write. `HandledInTurn`
takes an event through a list of sessions of any length (an induction over the numbers up to
the length, as the minimum of a set by the well-founded order of the naturals), and a switch of
sessions is a pause of one machine and a start or resume of another (`PausedIs`, `ActivatedIs`).

None of the four properties is inductive alone. `DisplayIsActiveSessions` needs that the timers of the *paused*
sessions stay in order (`Lit`), since a resume goes by them; `OnlyActiveSuspends`, that a paused
machine is paused because it is not active (`Steady`); `CallsEndEverywhere`, that no handler but
that of a call makes a machine wait for a call (`HandledCalls`), that the end of a call lets go
in every session it is delivered to (`EachHandles`), and that the list has the sessions in some order at
all: it is finite (`OrderCovers`).

The assumptions are `OptionsAssumption`, as for a session, and `DaemonAssumption`: the readings
and the requests carry what their types allow. The two hypotheses of `DisplayIsActives` are
stated there alone. `TimeoutsFit` is that of a session. `TurnOnDisplayAtStartup` is the shipped
value, and the theorem is false without it (below).

### The suspend locks

For any names and any number of inhibitions, under either control and wherever
libsuspend's thread is (the runs have one name and two inhibitions):

| Theorem (`PortProofs`) | Statement |
|---|---|
| `LocksInvariant` | `PowerSpec => []LInv` |
| `InhibitionsCorrect` | `PowerSpec => []InhibitionsHold` |
| `LocksRefinePort` | `PowerSpec => ImplementsSuspendLocks`: every step is one of `SuspendLocks` or changes nothing it speaks of |

The argument. libsuspend's thread takes no lock of the controls; what stops it is that
taking a wake lock makes its count stale. So a count that is current means that no lock is
held, and the system is asleep only with a current count (`CountMeansFree`): with it
`WriteSuspendState` is `FallAsleep` of the port, which needs nothing disallowed. For that,
what is promised (`Disallowed`) must be the kernel's locks: under libsuspend one shared
lock stands for a set of ids and is written after the set has changed, so
`SharedLockFollows` says how the two are related before and after the write, and the step that
promises is the write, not the change of the set. `InhibitionsHold` is not inductive
either: it needs that inhibitions being made are disallowed too and that ids never made
are larger (`InhibitionsKept`), so that the end of one cannot allow another. `LockoutCounts`
holds libsuspend's semaphore to the place of its thread.

The assumption is `PowerLocksAssumption` (the bound is a natural number); names and ids of
locks are records, different by construction (`IdsDiffer`).

### The run of the daemon

For any number of signals from the world, and a stop on any thread at any moment:

| Theorem (`LifecycleProofs`) | Statement |
|---|---|
| `LifecycleInvariant` | `LifeSpec => []LifeInv` |
| `RunsInOrder` | `LifeSpec => []RunIsOrderly` |
| `StopOvertakes` | `LifeSpec => StopComesFirst`: once stop has been asked for, it is the next action |

The argument. Main waits for a loop by the task it has put there. So a task of main on a
loop says where main is (`ControlTasks`), and when the task is gone its effect is there:
the handler is set, the port is started, or no handler is left (`HandlersFollowMain`).
`RunIsOrderly` alone is not inductive, since a handler that still asks its port's loop could end
after the unregistration: a loop inside a handler still has in front the task that made it
call (`HandlersHaveTasks`), so main's task comes after it. The first event needs `TrackerFirst`:
while no action is queued, either the tracker's handler is at work on the first one or the
tracker is not started and no other port is. The assumption is `LifecycleAssumption`.

### The timer

For any number of alarms, any range of ids and any number held (the ids only have to be more
than the alarms that are known at once, which is the guard of `ScheduleAlarm`):

| Theorem (`PortProofs`) | Statement |
|---|---|
| `AlarmsInvariant` | `AlarmSpec => []AInv` |
| `AlarmsCorrect` | `AlarmSpec => []AlarmsAreSound` |
| `AlarmsRefineTimer` | `AlarmSpec => ImplementsTimer`: every step is one of `Timer` or changes nothing it speaks of |

The argument. An id stands for one alarm as long as anybody knows of that alarm: a machine,
a source, the daemon's queue or a task on its way to the loop (`IdsDiffer`); that is what
makes the comparison of ids in the handlers right after the ids have wrapped. A
source can always be cancelled: its cancellation is in the table, or the task that stores it
is queued and runs before the task of a later `cancel_alarm` (`SourcesCanBeCancelled`), which
is the last of the queue while its caller waits (`CancelComesLast`). So when the cancellation has
returned the source is gone. No reference is dropped twice because each is dropped with its
entry (`ReferencesAreLeft`). The refinement needs `HeldAlarmsAreDue`: an alarm a machine
waits for has not been handled or stopped. The assumption is `AlarmTableAssumption`.

### The start and the configuration

For any constructors that throw, and any files over any names and texts:

| Theorem (`LifecycleProofs`, `ServiceProofs`) | Statement |
|---|---|
| `StartCorrect` | `StartSpec => [](NoPortIsMissing /\ NothingIsBuiltTwice /\ FallbackIsLast)` |
| `FilesCorrect` | `FileSpec => []LastElementHolds` |
| `CompletenessCorrect` | `AdaptersSpec => []StartIsComplete`, the two together |

The argument. What a getter needs is strictly below it (`Height`, `ObjectsInOrder`, one fact of each
getter in the table of `StartUp`), so the getters that have been called differ and none is asked for an object that
one of them is about to make (`CallsInOrder`): nothing is made twice, and no getter calls itself.
Names of implementations belong to one object each (`ObjectOf`), so a count of one for each object is one for each
implementation (`CountedAreBuilt`). Alternatives that were passed over cannot be had (`TriedInTurn`).
A caught exception goes back to the getter that catches it, and the port that was asked for is still the first of the
getters (`PortsAskedInTurn`): it is there at the end or the start has failed.

Of the files: between elements the configuration is what was declared last, and inside one it is so of all other
names, and of this one what was read of the element so far (`ConfigFollows`). An element that is empty leaves no
entry, which is why `LastElementHolds` speaks of those with a value. A file may end in any place. The name it leaves
behind then is one that was cut off, and stays so until an element of that name begins: text outside of elements is
either dropped or goes to that name. The assumption is
`DeviceFilesAssumption`: no element has the empty name, which marks that none is being read.

### Wakeups, light and backlight

For any number of wakeups at any points of time, any readings of the sensor, any range of
levels that divides the units of brightness, and any calls of the daemon:

| Theorem (`PortProofs`) | Statement |
|---|---|
| `WakeupsCorrect` | `WakeupsSpec => []WakeupsAreSound`, of either service |
| `LightCorrect` | `BrightnessSpec => []LightIsCurrent` |
| `ControlCorrect` | `BrightnessSpec => []BacklightMatchesType` |
| `FadesCorrect` | `BacklightsSpec => [](BacklightReadsBack /\ FadeArrives)` |

The arguments. *Wakeups*: a cookie is in the table, given or cancelled, and never two of these
(`CookiesOnce`). That the timerfd is never early needs that it is never set to a time without
a wakeup (`TimerfdFollows`): whoever changes the table sets it again in the same step, and once
it is readable there is a wakeup whose time has come. Under `dev_alarm` this does not hold, and
is not claimed: the next wakeup may be given early (above).

*Light*: readings wait on the Backlight loop while a task of that loop may stop the algorithm.
Stopping joins the sensor's thread before it goes on, so all readings of an earlier period
are in front of the call that starts the next one, and find the algorithm stopped
(`ReadingsGoWithPeriod`). That needs that at most one call is queued, since the daemon waits for
it (`OneCallIsQueued`), and that no thread reads after the join (`SensorGoesWithPeriod`).
Debounces are told apart by a number that only grows (`DebouncesOnce`).

*Backlight*: `TypeDecides` holds in every state, queued tasks or not, because each task of the loop
is one step. `FadesCorrect` is arithmetic: a brightness read back for a level has that level
(`LevelReadsBack`), one within the range has a level within it (`LevelInRange`), and a
transition that has come to its end has either lit the level of the end or been
refused in its last step (`FadeLit`); one that is at its end from the start has read there what is
lit (`Remembered`). Others may write to the device at any time; what they write and what the device refuses is
marked (`disturbed`).

### The settings

For any sessions, any arguments and any number of calls on the loops of the two services:

| Theorem (`PortProofs`) | Statement |
|---|---|
| `SettingsCorrect` | `SettingsSpec => []SettingsAreReported` |

The argument. Two loops queue events at the daemon and answer their callers later, each in its own time, and both
write the lid's and the timeouts' settings. A setting is *accounted for* if a service has answered that value last, or
has queued it and is about to answer it, or nobody has and the value is the initial one (`Accounted`). The last event on
the queue about a setting is accounted for, and when there is none so is the setting of the
machine (`SettingsFollow`). An event is queued by the call that is about to answer it, and a later answer of the same service is later
on the queue, since a service has one call at a time; the other service's value
may be the one that holds, which is why the property asks for one of the two. The brightness is
reported to everybody from one record, which only one service writes (`ReportsFollow`). What the control does is what the
machine of the session in front keeps, since a resume tells it both values and each event that machine takes one
of them (`ControlFollows`); of autobrightness only while no brightness has come since, because that one turns it off at the
control alone.

### The seat and the daemon

For any sessions, users, processes and clients, any lengths of the queues and either quirk:

| Theorem (`ScreenServiceProofs`) | Statement |
|---|---|
| `ScreenInvariant` | `ScreenSpec => [](TrackerInv /\ ServiceTyped)` |
| `DaemonIsWithSeat` | `ScreenSpec => []DaemonFollowsSeat` |
| `RequestsAreKept` | `ScreenSpec => []RequestsAreNotLost` |
| `RequestsEnd` | `ScreenSpec => []RequestsEndWithClient` |

The argument for the seat. `DaemonFollowsSeat` speaks of a system at rest; what must be carried through
the steps is what the queues will make of it. The last `ActiveSession` signal on its way is
of the session in front, and when there is none the tracker has that session
(`TrackerFollowsSeat`). What the last activation on the daemon's queue makes active, unless the
removal of that session comes after it, is what the tracker says (`DaemonFollowsTracker`).
The tracker announces nothing when its active session comes to the front again. That is
right because a session that has ended never does (`SignalsAreInOrder`), so that the entry
which a lookup of a process adds for it behind logind's back is never taken for a session
(`EntriesAreSessions`). The services' requests enter as appends to the daemon's queue
that activate nothing.

The argument for the requests, `RequestInv`. The last event on the daemon's queue about a request says whether
it is asked for (`LastRequestSays`), because the service changes its tables and queues the event in
the same step; so when no event about it is left, the session has been told (`AskedAreHeld`). It was told
to some purpose: what begins in a session is queued behind the session's announcement
(`BeginsFollowSessions`), and a session is never removed and made anew, which would lose what it holds, because
the removal is queued only for one that has ended, and that stays ended (`SessionsFollow`). A
request with an id of before must not be taken for that one: ids only grow (`IdsAreUsed`), except those of
notifications, which is why `OwnSession` speaks of every time that one was begun (`routedTo`). What a client
has made and not taken back stays in the tables unless somebody calls in its name (`WantedAreAsked`).

That nothing stays behind is a second invariant on top (`EndInv`), of the clients that are served well: what ends must reach the
session that holds it (`EndsAreRouted`). A call looks for the process of its sender, which is there while
the sender waits for the answer (`CallersAreThere`), and finds its session if bus and logind answer; a call that names
the process itself is only the client's own; the end of a name goes to the sessions that
the daemon has, which are those announced only when it has kept up. The conditions are part of the property, of
one client at a time: neither theorem has a hypothesis about the other clients, whose calls go wrong in every way there is.

Every step is of one of three forms, and the invariant is carried through these: the service queues
requests (`Serves`), the tracker announces sessions (`Moves`), the daemon takes an event (`Takes`). The assumptions are
`SessionTrackerAssumption` and `ScreenServiceAssumption`.

### What the services say

For any sets of calls, modems and batteries, any percentages, and signals in any number:

| Theorem (`ServiceProofs`) | Statement |
|---|---|
| `OutputsCorrect` | `DisplaySpec => []OutputsAreKnown` |
| `BlockCorrect` | `LogindPowerSpec => []BlockIsKnown`, if logind answers |
| `CallsCorrect` | `VoiceSpec => [](CallsAreKnown /\ ModemsAreKnown)` |
| `BatteriesCorrect` | `PowerSourceSpec => []BatteriesAreKnown`, if UPower answers |
| `SupplyCorrect` | `PowerSourceSpec => []SupplyIsKnown`, if UPower answers |
| `EmptyBatteryCorrect` | `PowerSourceSpec => []EmptyBatteryIsKnown`, if UPower answers |
| `ServicesCorrect` | `AdaptersSpec => []ServicesAreKnown`, if both answer |
| `BacklightCorrect` | `AdaptersSpec => []BacklightFollows` |
| `TypesCorrect` | `AdaptersSpec => []AdaptersTypeOK`, without either |

The argument. Each of these components copies something of a service: it subscribes, asks
once and then follows signals, which may be sent before, while and after the answer is
on its way. The properties speak of rest, when nothing is queued; the invariants say what the queue
will make of the copy. They have one form: *the last signal about a thing says what is so of it, and
when no signal about it is queued, the copy has it* (`LastIn` and `NoneIn` of `QueueLemmas`, where
`LastAppended` and `LastTaken` carry that through a queue of any length). A "thing" is one call, one modem, one
battery, one field of the display device: a signal about another leaves it alone, so the
invariant is stated for each (`TableFollows`, `ModemsFollow`, `BatteriesFollow`, `DeviceFollows`). What goes
on to the daemon's queue has a second invariant of that form (`EventsFollow`; the last two conjuncts of `BlockInv`).

The supply is not told as a value but as "it has changed", and only if it differs from the
service's own record when a signal is handled. So `MachineWillBeTold` says of a machine that is
wrong that a change is queued, or that a signal is on its way whose state differs from the record;
plugging that goes back and forth within the queue may well cancel out, but then the machine is right again. A
machine that is paused when it would be told, or a change that is none to the code, is marked (`supplyMissed`) until the
machine is told something.

The empty battery is told once for each dip below the critical percentage. `Dips` are the
signals in the queue that will be told: those that say a critical percentage, behind one that said another which the
service still has in mind when they are handled (`Armed`), where what a field is at a place of
the queue is `ValueAt`. The events told and the dips waiting are together no more
than the dips that UPower had (`DipsCover`), which is a comparison of cardinalities through a queue that
moves up (`ShiftedAreNotMore`); a dip not yet told waits in the queue (`UntoldWaits`). All of that is of runs without a
signal of another device, which the invariants begin with; the batteries, which each have a path, need no such condition.
A call is unheard of (`unheardCalls`) until it signals a change, and the table follows those that were heard of (`TableFollows`).

`LogindAnswers` and `UPowerAnswers` are hypotheses of the theorems that need them: without an answer
the code takes "no", and learns better only by the next signal. The last three theorems are about all parts
in one behaviour (`StepOfPart`: a step of the whole is a step of each part or leaves it alone).

The types follow from the invariants of all parts but for what those leave open, which has invariants of its own and
is not all obvious: that no more resumes are told than the system slept counts those signalled and
queued (`BlockCounted`), that a level stays within the range of the device needs that a transition from an undetermined
brightness starts one step before its end (`LevelsTyped`), and that a lit backlight shows a value of
the user or of the curve goes through readings and tasks (`ValuesTyped`). `WakeupsAssumption` is that there is a
point of time at which the clock can start.

### Only model-checked

Every invariant and action property that a passing run checks is a theorem, and so are the two
refinements. Left to TLC is liveness, since fairness and `ENABLED` are out of the prover's reach:
`DisplayGoesOff`, `IdleSensorGoesOff`, `IdleSystemSuspends`, `AlarmsAreHandled`, `InhibitionsEnd`,
`WakeupsGoOn`, `BrightnessCallsReturn`, and of `RunStops` that the run ends (that a stop comes first is
`StopOvertakes`). What is refuted above is refuted for the constants named there.

## Not modelled

* The vendored `libsuspend/base`, `libsuspend`'s `autosuspend.c` beyond what the control
  calls, and the developers' tools.
* D-Bus wrappers, descriptors, logs, opening of devices, the choice among directories of
  sysfs, introspection: one call each, without state.
* Splines, averages of light and other floating-point arithmetic.
* Calls and signals that only report: the screen state of `JingosScreenService`, power off and
  suspend over D-Bus, whose order among the machine's calls is in `DefaultStateMachine`.
* The data races of the source (the session map read on
  a D-Bus thread in `sessions_for_pid`) have no outcomes that a model could enumerate; what
  a stale choice of sessions leads to is in `ScreenService` (`DaemonKeepsUp`).
* `flush` of the daemon, which only tests call.

## Plan

What a next step would be:

1. `Daemon`: whose the events of the sensor are while two sessions have enablements, a hazard
   that no property covers yet.
2. `PowerSource`: what still holds when other devices signal too. `EmptyBatteryIsKnown` and `SupplyIsKnown` say
   nothing of those behaviours, and the third claim about `PowerSource` above shows that they cannot say all.
