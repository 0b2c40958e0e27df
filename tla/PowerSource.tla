----------------------------- MODULE PowerSource ----------------------------
(***************************************************************************)
(* What UPowerPowerSourceAndLid makes of UPower's signals: the critical    *)
(* battery, changes between battery and line power, and the lid.  Signals  *)
(* carry the properties that changed; whether the system is on battery is  *)
(* asked of UPower when it matters, on the service's loop and again by the *)
(* machine that is told: the active one, so that a paused machine goes on  *)
(* with what it was told last.  Signals of any device are taken for those  *)
(* of the display device.                                                  *)
(***************************************************************************)
EXTENDS Naturals, Sequences, Tables

CONSTANTS
  Batteries,            \* device paths
  Percentages,
  NonCriticalPercentage,
  PluggedStates,        \* states of the display device on line power
  BatteryStates,        \* and on battery
  DeviceTypes,          \* types it may have
  OtherDevices,         \* others than the display device change too
  UPowerAnswers,        \* it always does, in time
  MaxUPowerChanges,     \* bound: changes at UPower
  MaxUPowerSignals      \* bound: signals that wait

ASSUME PowerSourceAssumption ==
  /\ 0 \in Percentages /\ Percentages \subseteq Nat /\ NonCriticalPercentage \in Nat \ {0}
  /\ PluggedStates \subseteq {"charging", "fully_charged", "pending_charge"}
  /\ BatteryStates \subseteq {"discharging", "pending_discharge", "empty", "unknown"}
  /\ UPowerAnswers \in BOOLEAN /\ OtherDevices \in BOOLEAN
  /\ {MaxUPowerChanges, MaxUPowerSignals} \subseteq Nat

VARIABLES
  upDevice,          \* of UPower: its display device
  onBattery,
  lidClosed,
  upBatteries,
  upChanges,
  upSignals,         \* signals on their way to the service
  upPhase,           \* how far start_processing has come
  display_device,    \* of the service
  highest_seen_percentage,
  batteries,
  sourceEvents,      \* what the daemon has been told and not handled
  machinePhase,      \* of one machine: "none", "active" or "paused"
  is_on_battery, lid_closed,   \* of that machine
  criticalEvents,    \* history: how many the daemon was given
  dips,              \* history: falls of the percentage to critical
  seenNonCritical,   \* history: since the last of them
  othersSignalled,   \* history: another device than the display device has
  emptied,           \* history: "no", or empty on battery and that "untold" or "told"
  supplyMissed       \* history: the machine has missed a change of the supply

upowerVars == <<upDevice, onBattery, lidClosed, upBatteries>>
trackedVars == <<display_device, highest_seen_percentage, batteries>>
machineSupplyVars == <<machinePhase, is_on_battery, lid_closed, supplyMissed>>
dipVars == <<dips, seenNonCritical, othersSignalled>>
sourceVars == <<upowerVars, upChanges, upSignals, upPhase, trackedVars, sourceEvents,
                machineSupplyVars, criticalEvents, dipVars, emptied>>

States == PluggedStates \cup BatteryStates

\* UPower keeps the state of the display device and OnBattery in step.
StatesFor(on) == IF on THEN BatteryStates ELSE PluggedStates

\* A device of which nothing is known, Device{}.
NoDevice == [is_present |-> FALSE, type |-> "unknown", state |-> "unknown", percentage |-> 0]

PowerSourceInit ==
  /\ onBattery \in BOOLEAN /\ lidClosed = FALSE /\ upBatteries = {}
  /\ upDevice \in [is_present : BOOLEAN, type : DeviceTypes, state : StatesFor(onBattery),
                    percentage : Percentages]
  /\ upChanges = 0 /\ upSignals = <<>> /\ upPhase = "stopped"
  /\ display_device = NoDevice
  /\ highest_seen_percentage = 0 /\ batteries = {}
  /\ sourceEvents = <<>>
  /\ machinePhase = "none" /\ is_on_battery = TRUE /\ lid_closed = FALSE
  /\ criticalEvents = 0 /\ dips = 0 /\ seenNonCritical = FALSE /\ othersSignalled = FALSE
  /\ emptied = "no" /\ supplyMissed = FALSE

-----------------------------------------------------------------------------
(* UPower.                                                                 *)

SentByUPower(m) ==
  /\ upChanges < MaxUPowerChanges /\ Len(upSignals) < MaxUPowerSignals
  /\ upChanges' = upChanges + 1
  /\ upSignals' = IF upPhase = "stopped" THEN upSignals ELSE Append(upSignals, m)
  /\ UNCHANGED <<upPhase, trackedVars, sourceEvents, machinePhase, is_on_battery, lid_closed,
                 criticalEvents>>

DeviceChange(changed) ==
  /\ upDevice' = Over(changed, upDevice)
  /\ SentByUPower([signal |-> "device", changed |-> changed])

\* Charge changes over minutes: not while the device is asked for.
PercentageChanges ==
  /\ upPhase # "subscribed"
  /\ \E p \in Percentages \ {upDevice.percentage} :
       /\ DeviceChange([percentage |-> p])
       /\ dips' = IF p = 0 /\ seenNonCritical THEN dips + 1 ELSE dips
       /\ seenNonCritical' = ((p >= NonCriticalPercentage /\ upDevice.is_present) \/ (seenNonCritical /\ p # 0))
       /\ emptied' = IF p = 0 /\ seenNonCritical /\ onBattery /\ upDevice.is_present /\ upPhase = "started"
                     THEN "untold" ELSE "no"
  /\ UNCHANGED <<onBattery, lidClosed, upBatteries, othersSignalled, supplyMissed>>

\* The code takes "discharging" alone for a state on battery: a change of the
\* supply between two others is one that it does not see.
PlugOrUnplug ==
  /\ onBattery' = ~onBattery
  /\ \E s \in StatesFor(onBattery') :
       /\ DeviceChange([state |-> s])
       /\ supplyMissed' =
            (supplyMissed \/ (machinePhase # "none" /\ "discharging" \notin {s, upDevice.state}))
  /\ emptied' = "no"
  /\ UNCHANGED <<lidClosed, upBatteries, dipVars>>

\* On one supply: full, or waiting to be charged or discharged.
ChargeStateChanges ==
  /\ \E s \in StatesFor(onBattery) \ {upDevice.state} : DeviceChange([state |-> s])
  /\ UNCHANGED <<onBattery, lidClosed, upBatteries, dipVars, emptied, supplyMissed>>

BatteryComesOrGoes ==
  /\ DeviceChange([is_present |-> ~upDevice.is_present])
  /\ emptied' = "no"
  /\ UNCHANGED <<onBattery, lidClosed, upBatteries, dipVars, supplyMissed>>

DeviceTypeChanges ==
  /\ \E t \in DeviceTypes \ {upDevice.type} : DeviceChange([type |-> t])
  /\ UNCHANGED <<onBattery, lidClosed, upBatteries, dipVars, emptied, supplyMissed>>

\* A second battery, or that of a keyboard.
OtherDeviceChanges ==
  /\ OtherDevices /\ upPhase # "stopped"
  /\ \E ch \in [percentage : Percentages] \cup [state : States] :
       SentByUPower([signal |-> "device", changed |-> ch])
  /\ othersSignalled' = TRUE
  /\ UNCHANGED <<upowerVars, dips, seenNonCritical, emptied, supplyMissed>>

LidMoves ==
  /\ lidClosed' = ~lidClosed
  /\ SentByUPower([signal |-> "lid", changed |-> lidClosed'])
  /\ UNCHANGED <<upDevice, onBattery, upBatteries, dipVars, emptied, supplyMissed>>

DeviceAddedOrRemoved ==
  /\ \E b \in Batteries :
       /\ upBatteries' = IF b \in upBatteries THEN upBatteries \ {b} ELSE upBatteries \cup {b}
       /\ SentByUPower([signal |-> IF b \in upBatteries THEN "removed" ELSE "added", changed |-> b])
  /\ UNCHANGED <<upDevice, onBattery, lidClosed, dipVars, emptied, supplyMissed>>

-----------------------------------------------------------------------------
(* The service's loop.                                                     *)

SubscribeToUPower ==
  /\ upPhase = "stopped" /\ upPhase' = "subscribed"
  /\ UNCHANGED <<upowerVars, upChanges, upSignals, trackedVars, sourceEvents, machineSupplyVars,
                 criticalEvents, dipVars, emptied>>

\* What it may answer; a question that is not answered leaves the device empty.
create_device == IF UPowerAnswers THEN {upDevice} ELSE {upDevice, NoDevice}

\* The same of OnBattery: not answered, the system is taken to be on battery.
is_using_battery_power == IF UPowerAnswers THEN {onBattery} ELSE {onBattery, TRUE}

\* The properties that came, and the others as they are.
update_device(device, changed) == Over(changed, device)

add_display_device_and_batteries ==
  /\ upPhase = "subscribed" /\ upPhase' = "started"
  /\ display_device' \in create_device /\ highest_seen_percentage' = display_device'.percentage
  /\ batteries' = batteries \cup upBatteries
  /\ seenNonCritical' = (upDevice.percentage >= NonCriticalPercentage)
  /\ UNCHANGED <<upowerVars, upChanges, upSignals, sourceEvents, machineSupplyVars,
                 criticalEvents, dips, othersSignalled, emptied>>

higher(a, b) == IF a >= b THEN a ELSE b

PresenceChanges(old, new) == old.is_present # new.is_present \/ old.type # new.type

\* Mutant: only what begins is told.
IsSupplyChangeToBattery(old, new) ==
  \/ PresenceChanges(old, new)
  \/ new.is_present /\ old.state # new.state /\ new.state = "discharging"

\* Changes that a machine is told of: of presence and type, and to and from
\* discharging.
IsSupplyChange(old, new) ==
  \/ PresenceChanges(old, new)
  \/ /\ new.is_present /\ old.state # new.state
     /\ \/ new.state = "discharging"
        \/ old.state = "discharging" /\ new.state \in {"charging", "fully_charged", "pending_charge"}

PercentageSeen(new) == new.is_present /\ display_device.percentage # new.percentage

HighestWith(new) ==
  IF PercentageSeen(new) THEN higher(highest_seen_percentage, new.percentage)
  ELSE highest_seen_percentage

IsCritical(new, highest) ==
  {PercentageSeen(new) /\ new.percentage = 0 /\ on /\ highest >= NonCriticalPercentage :
     on \in is_using_battery_power}

\* Suspend is inhibited for two seconds before the handlers run.
Tell(critical, change) ==
  /\ criticalEvents' = IF critical THEN criticalEvents + 1 ELSE criticalEvents
  /\ sourceEvents' = sourceEvents \o (IF critical THEN <<"critical">> ELSE <<>>)
                       \o (IF change THEN <<"change">> ELSE <<>>)

\* Mutant: a battery that has been found critical is critical again.
ChangeDeviceKeepsHighest(changed) ==
  LET new == update_device(display_device, changed)
  IN \E critical \in IsCritical(new, HighestWith(new)) :
       /\ display_device' = new /\ highest_seen_percentage' = HighestWith(new)
       /\ Tell(critical, IsSupplyChange(display_device, new))

\* Mutant: what the battery had is not seen any more once it is low.
ChangeDeviceSeesLast(changed) ==
  LET new == update_device(display_device, changed)
  IN \E critical \in IsCritical(new, display_device.percentage) :
       /\ display_device' = new /\ highest_seen_percentage' = new.percentage
       /\ Tell(critical, IsSupplyChange(display_device, new))

change_device(changed) ==
  LET new == update_device(display_device, changed)
  IN \E critical \in IsCritical(new, HighestWith(new)) :
       /\ display_device' = new
       /\ highest_seen_percentage' = IF critical THEN 0 ELSE HighestWith(new)
       /\ Tell(critical, IsSupplyChange(display_device, new))

\* Mutant: a device that is gone is kept.
KeepDevice(m) ==
  batteries' = IF m.signal = "removed" THEN batteries ELSE batteries \cup {m.changed}

\* A device is added when UPower still knows it, and it is a battery.
add_or_remove_device(m) ==
  batteries' = IF m.signal = "removed" THEN batteries \ {m.changed}
               ELSE batteries \cup ({m.changed} \cap upBatteries)

change_upower(closed) ==
  sourceEvents' = Append(sourceEvents, IF closed THEN "lid_closed" ELSE "lid_open")

HandleUPowerSignal ==
  /\ upPhase = "started" /\ upSignals # <<>>
  /\ LET m == Head(upSignals)
     IN \/ m.signal = "device" /\ change_device(m.changed) /\ UNCHANGED batteries
        \/ /\ m.signal \in {"added", "removed"} /\ add_or_remove_device(m)
           /\ UNCHANGED <<display_device, highest_seen_percentage, sourceEvents, criticalEvents>>
        \/ m.signal = "lid" /\ change_upower(m.changed) /\ UNCHANGED <<trackedVars, criticalEvents>>
  /\ upSignals' = Tail(upSignals)
  /\ UNCHANGED <<upowerVars, upChanges, upPhase, machineSupplyVars, dipVars, emptied>>

-----------------------------------------------------------------------------
(* The daemon's thread and the active machine.                             *)

\* A machine asks for the supply when it starts; not when it is resumed.
MachineStarts ==
  /\ upPhase = "started" /\ machinePhase = "none"
  /\ machinePhase' = "active" /\ is_on_battery' \in is_using_battery_power /\ supplyMissed' = FALSE
  /\ UNCHANGED <<upowerVars, upChanges, upSignals, upPhase, trackedVars, sourceEvents, lid_closed,
                 criticalEvents, dipVars, emptied>>

MachinePausesOrResumes ==
  /\ machinePhase # "none"
  /\ machinePhase' = IF machinePhase = "active" THEN "paused" ELSE "active"
  /\ UNCHANGED <<upowerVars, upChanges, upSignals, upPhase, trackedVars, sourceEvents, is_on_battery,
                 lid_closed, supplyMissed, criticalEvents, dipVars, emptied>>

\* Events go to the machine that is active when they are handled, and
\* is_using_battery_power is asked then.
DaemonTakesSourceEvent ==
  /\ sourceEvents # <<>>
  /\ LET e == Head(sourceEvents)
     IN \/ /\ e = "change" /\ machinePhase = "active"
           /\ is_on_battery' \in is_using_battery_power /\ supplyMissed' = FALSE
           /\ UNCHANGED <<machinePhase, lid_closed, emptied>>
        \/ /\ e = "change" /\ machinePhase # "active"
           /\ supplyMissed' = (supplyMissed \/ machinePhase = "paused")
           /\ UNCHANGED <<machinePhase, is_on_battery, lid_closed, emptied>>
        \/ /\ e = "critical"
           /\ emptied' = IF emptied = "untold" THEN "told" ELSE emptied
           /\ UNCHANGED machineSupplyVars
        \/ /\ e \in {"lid_closed", "lid_open"}
           /\ lid_closed' = IF machinePhase = "active" THEN e = "lid_closed" ELSE lid_closed
           /\ UNCHANGED <<machinePhase, is_on_battery, supplyMissed, emptied>>
  /\ sourceEvents' = Tail(sourceEvents)
  /\ UNCHANGED <<upowerVars, upChanges, upSignals, upPhase, trackedVars, criticalEvents, dipVars>>

PowerSourceNext ==
  \/ PercentageChanges \/ PlugOrUnplug \/ ChargeStateChanges \/ BatteryComesOrGoes
  \/ DeviceTypeChanges \/ OtherDeviceChanges \/ LidMoves \/ DeviceAddedOrRemoved
  \/ SubscribeToUPower \/ add_display_device_and_batteries \/ HandleUPowerSignal
  \/ MachineStarts \/ MachinePausesOrResumes \/ DaemonTakesSourceEvent

PowerSourceSpec == PowerSourceInit /\ [][PowerSourceNext]_sourceVars

-----------------------------------------------------------------------------
(* Properties.                                                             *)

PowerSourceTypeOK ==
  /\ display_device.percentage \in Percentages /\ highest_seen_percentage \in Percentages
  /\ display_device.state \in States \cup {"unknown"} /\ batteries \subseteq Batteries
  /\ machinePhase = "none" => ~supplyMissed /\ ~lid_closed

UPowerQuiet == upPhase = "started" /\ upSignals = <<>> /\ sourceEvents = <<>>

\* Of signals, the questions asked in between, pauses and resumes: a machine
\* with a battery that has missed no change of the supply knows whether the
\* system is on battery, if no other device has signalled anything.  It misses
\* what is told while it is paused, and what comes in states that the code does
\* not tell apart.
SupplyIsKnown ==
  (UPowerQuiet /\ upDevice.is_present /\ machinePhase # "none" /\ ~supplyMissed /\ ~othersSignalled) =>
    is_on_battery = onBattery

\* The claim of the interface's document: what is set for a power source
\* applies while on that source.  The active machine goes by the source that
\* there is.  It does not hold of a machine that has missed a change.
ActiveMachineKnowsSupply ==
  (UPowerQuiet /\ upDevice.is_present /\ machinePhase = "active") => is_on_battery = onBattery

\* A battery that falls to empty on battery, after it has been seen to hold
\* something, is told of, however its percentage got there.
EmptyBatteryIsTold ==
  UPowerQuiet => emptied # "untold"

\* It is told of once: an empty battery that is plugged and unplugged, taken
\* out, or moves between empty and almost empty does not power off the system
\* that has been started with it.  Nor does another device, a test claims, and
\* that does not hold.
EmptyBatteryIsToldOnce ==
  criticalEvents <= dips

\* Batteries that come and go while their properties are asked for.
BatteriesAreKnown ==
  UPowerQuiet => batteries = upBatteries

\* Of a battery that runs empty: it is told of, and once, if no other device has
\* signalled anything.
EmptyBatteryIsKnown == ~othersSignalled => EmptyBatteryIsTold /\ EmptyBatteryIsToldOnce

\* The claim of the tests, whose critical percentage is 2, while that of the
\* code is 0: a battery that has been seen above and falls to 2 on battery is
\* told to be critical.  It does not hold.
TestedCriticalPercentage == 2
LowBatteryIsTold ==
  [][(/\ upPhase = "started" /\ onBattery /\ display_device'.is_present
      /\ display_device.percentage > TestedCriticalPercentage
      /\ display_device'.percentage = TestedCriticalPercentage) =>
        criticalEvents' = criticalEvents + 1]_sourceVars

=============================================================================
