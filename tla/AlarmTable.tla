----------------------------- MODULE AlarmTable -----------------------------
(***************************************************************************)
(* The timer of the daemon on its event loop.  The daemon's thread         *)
(* schedules and cancels alarms; the loop's thread runs the timeouts that  *)
(* are due before the idle tasks that are queued, so an alarm may go off   *)
(* before the task that stores its cancellation has run.  An alarm that    *)
(* goes off puts its id on the daemon's queue, where it may still wait     *)
(* when the alarm is cancelled.                                            *)
(***************************************************************************)
EXTENDS Naturals, FiniteSets, Sequences, Functions

CONSTANTS
  MaxAlarms,     \* bound: how many alarms are ever scheduled
  AlarmIdCount,  \* how many ids there are before they start again
  MaxHeld        \* bound: how many alarms a machine waits for at once

ASSUME AlarmTableAssumption ==
  MaxAlarms \in Nat /\ AlarmIdCount \in Nat \ {0} /\ MaxHeld \in Nat

Alarms == 1 .. MaxAlarms
AlarmIds == 0 .. AlarmIdCount - 1

\* operator++ of AlarmId goes back to 0 after the largest id.
AlarmIdOf(a) == a % AlarmIdCount

VARIABLES
  lastAlarm,      \* the alarm scheduled last; its id is AlarmIdOf(lastAlarm)
  alarmSources,   \* alarms whose timeout source is attached to the loop
  alarmTable,     \* alarms by id: the stored cancellations
  alarmRefs,      \* alarms whose source the cancellation still refers to
  alarmTasks,     \* idle tasks queued on the loop
  timerCaller,    \* what the daemon's thread does in the timer
  alarmQueue,     \* ids on the daemon's queue
  alarmsHeld,     \* alarms the machines wait for
  alarmsGoneOff, alarmsStopped, alarmsHandled  \* history

alarmVars ==
  <<lastAlarm, alarmSources, alarmTable, alarmRefs, alarmTasks, timerCaller,
    alarmQueue, alarmsHeld, alarmsGoneOff, alarmsStopped, alarmsHandled>>

AlarmInit ==
  /\ lastAlarm = 0
  /\ alarmSources = {} /\ alarmTable = [i \in {} |-> 0] /\ alarmRefs = {}
  /\ alarmTasks = <<>> /\ timerCaller = "idle"
  /\ alarmQueue = <<>> /\ alarmsHeld = {}
  /\ alarmsGoneOff = {} /\ alarmsStopped = {} /\ alarmsHandled = {}

\* There are 2^31 ids: one comes again only after its alarm is forgotten.
IdIsFree(i) ==
  /\ \A b \in alarmsHeld \cup alarmSources : AlarmIdOf(b) # i
  /\ i \notin Range(alarmQueue)
  /\ \A k \in DOMAIN alarmTasks : AlarmIdOf(alarmTasks[k].alarm) # i

-----------------------------------------------------------------------------
(* The daemon's thread.                                                    *)

Task(f, a) == [function |-> f, alarm |-> a]

\* schedule_alarm_in takes an id and queues the task that will store the
\* cancellation; only then does it attach the source of the timeout.
ScheduleAlarm ==
  /\ timerCaller = "idle"
  /\ lastAlarm < MaxAlarms /\ Cardinality(alarmsHeld) < MaxHeld
  /\ IdIsFree(AlarmIdOf(lastAlarm + 1))
  /\ lastAlarm' = lastAlarm + 1
  /\ alarmRefs' = alarmRefs \cup {lastAlarm'}
  /\ alarmTasks' = Append(alarmTasks, Task("cancellation_ready", lastAlarm'))
  /\ timerCaller' = "attaching"
  /\ UNCHANGED <<alarmSources, alarmTable, alarmQueue, alarmsHeld,
                 alarmsGoneOff, alarmsStopped, alarmsHandled>>

AttachAlarm ==
  /\ timerCaller = "attaching"
  /\ alarmSources' = alarmSources \cup {lastAlarm}
  /\ alarmsHeld' = alarmsHeld \cup {lastAlarm}
  /\ timerCaller' = "idle"
  /\ UNCHANGED <<lastAlarm, alarmTable, alarmRefs, alarmTasks, alarmQueue,
                 alarmsGoneOff, alarmsStopped, alarmsHandled>>

\* cancel_alarm: a machine forgets an alarm and waits for the loop's task.
CancelAlarm ==
  /\ timerCaller = "idle"
  /\ \E a \in alarmsHeld :
       /\ alarmsHeld' = alarmsHeld \ {a}
       /\ alarmTasks' = Append(alarmTasks, Task("cancel_alarm_unqueued", a))
  /\ timerCaller' = "waiting"
  /\ UNCHANGED <<lastAlarm, alarmSources, alarmTable, alarmRefs, alarmQueue,
                 alarmsGoneOff, alarmsStopped, alarmsHandled>>

\* Mutant: a machine handles every alarm as its own.
TakeAnyAlarm ==
  /\ timerCaller = "idle" /\ alarmQueue # <<>>
  /\ alarmsHeld' = {} /\ alarmsHandled' = alarmsHandled \cup alarmsHeld
  /\ alarmQueue' = Tail(alarmQueue)
  /\ UNCHANGED <<lastAlarm, alarmSources, alarmTable, alarmRefs, alarmTasks,
                 timerCaller, alarmsGoneOff, alarmsStopped>>

\* The daemon takes the id of an alarm off its queue; the machine that holds
\* an alarm with that id handles it, the others compare and do nothing.
TakeAlarm ==
  /\ timerCaller = "idle" /\ alarmQueue # <<>>
  /\ LET due == {a \in alarmsHeld : AlarmIdOf(a) = Head(alarmQueue)}
     IN alarmsHeld' = alarmsHeld \ due /\ alarmsHandled' = alarmsHandled \cup due
  /\ alarmQueue' = Tail(alarmQueue)
  /\ UNCHANGED <<lastAlarm, alarmSources, alarmTable, alarmRefs, alarmTasks,
                 timerCaller, alarmsGoneOff, alarmsStopped>>

-----------------------------------------------------------------------------
(* The loop's thread.                                                      *)

\* cancel_alarm_unqueued runs the stored cancellation, which destroys the
\* source and drops the last reference to it, and erases the entry.
cancel_alarm_unqueued(i) ==
  /\ alarmTable' = Restrict(alarmTable, DOMAIN alarmTable \ {i})
  /\ alarmRefs' = IF i \in DOMAIN alarmTable THEN alarmRefs \ {alarmTable[i]} ELSE alarmRefs

\* Mutant: the cancellation only drops the reference.
CancelKeepsSource(i) == alarmSources

SourcesAfterCancel(i) ==
  IF i \in DOMAIN alarmTable THEN alarmSources \ {alarmTable[i]} ELSE alarmSources

\* Mutant: an alarm whose cancellation is not stored yet counts as cancelled.
AlarmGoesOffIfStored ==
  /\ \E a \in alarmSources :
       /\ alarmQueue' = IF AlarmIdOf(a) \in DOMAIN alarmTable
                        THEN Append(alarmQueue, AlarmIdOf(a)) ELSE alarmQueue
       /\ alarmsGoneOff' = alarmsGoneOff \cup {a}
       /\ cancel_alarm_unqueued(AlarmIdOf(a))
       /\ alarmSources' = SourcesAfterCancel(AlarmIdOf(a)) \ {a}
  /\ UNCHANGED <<lastAlarm, alarmTasks, timerCaller, alarmsHeld, alarmsStopped, alarmsHandled>>

\* A timeout is due: the handler queues the id at the daemon, the entry is
\* erased if it is stored yet, and the loop removes the source.
AlarmGoesOff ==
  /\ \E a \in alarmSources :
       /\ alarmQueue' = Append(alarmQueue, AlarmIdOf(a))
       /\ alarmsGoneOff' = alarmsGoneOff \cup {a}
       /\ cancel_alarm_unqueued(AlarmIdOf(a))
       /\ alarmSources' = SourcesAfterCancel(AlarmIdOf(a)) \ {a}
  /\ UNCHANGED <<lastAlarm, alarmTasks, timerCaller, alarmsHeld, alarmsStopped, alarmsHandled>>

\* The cancellation becomes ready: alarms[alarm_id] = cancellation.
StoreCancellation ==
  /\ alarmTasks # <<>> /\ Head(alarmTasks).function = "cancellation_ready"
  /\ LET a == Head(alarmTasks).alarm
     IN alarmTable' = [i \in DOMAIN alarmTable \cup {AlarmIdOf(a)} |->
                         IF i = AlarmIdOf(a) THEN a ELSE alarmTable[i]]
  /\ alarmTasks' = Tail(alarmTasks)
  /\ UNCHANGED <<lastAlarm, alarmSources, alarmRefs, timerCaller, alarmQueue,
                 alarmsHeld, alarmsGoneOff, alarmsStopped, alarmsHandled>>

RunCancel ==
  /\ alarmTasks # <<>> /\ Head(alarmTasks).function = "cancel_alarm_unqueued"
  /\ LET a == Head(alarmTasks).alarm
     IN /\ cancel_alarm_unqueued(AlarmIdOf(a))
        /\ alarmSources' = SourcesAfterCancel(AlarmIdOf(a))
        /\ alarmsStopped' = alarmsStopped \cup {a}
  /\ alarmTasks' = Tail(alarmTasks)
  /\ timerCaller' = "idle"
  /\ UNCHANGED <<lastAlarm, alarmQueue, alarmsHeld, alarmsGoneOff, alarmsHandled>>

-----------------------------------------------------------------------------
TimerLoop == AlarmGoesOff \/ StoreCancellation \/ RunCancel

AlarmNext ==
  \/ ScheduleAlarm \/ AttachAlarm \/ CancelAlarm \/ TakeAlarm
  \/ AlarmGoesOff \/ StoreCancellation \/ RunCancel

\* The loop's thread runs for ever and every timeout falls due; the daemon's
\* thread comes out of the timer and takes what is on its queue.
AlarmFairness ==
  /\ WF_alarmVars(AlarmGoesOff) /\ WF_alarmVars(StoreCancellation \/ RunCancel)
  /\ WF_alarmVars(AttachAlarm) /\ WF_alarmVars(TakeAlarm)

AlarmSpec == AlarmInit /\ [][AlarmNext]_alarmVars /\ AlarmFairness

-----------------------------------------------------------------------------
(* Properties.                                                             *)

AlarmTypeOK ==
  /\ lastAlarm \in 0 .. MaxAlarms
  /\ alarmSources \subseteq Alarms /\ alarmRefs \subseteq Alarms
  /\ alarmsHeld \subseteq Alarms
  /\ DOMAIN alarmTable \subseteq AlarmIds /\ Range(alarmTable) \subseteq Alarms
  /\ timerCaller \in {"idle", "attaching", "waiting"}

\* Of EventLoopTimer as a whole: seen from the daemon it is a Timer.  An
\* alarm goes off once, and after cancel_alarm has returned it never does,
\* however timeouts, stored cancellations and cancels interleave.
TimerPort == INSTANCE Timer WITH
  scheduled <- 1 .. lastAlarm, stopped <- alarmsStopped, wentOff <- alarmsGoneOff

ImplementsTimer == TimerPort!TimerSpec

\* Of the ids on the daemon's queue: the id of an alarm that was cancelled
\* after it went off makes no machine handle anything, neither that alarm nor
\* a later one that has not gone off.
OnlyDueAlarmsHandled == alarmsHandled \subseteq alarmsGoneOff \ alarmsStopped

\* Of the references to sources: an entry whose source is gone is one whose
\* alarm went off before its cancellation was stored, and then no entry lets
\* go of a source twice: every stored cancellation still has its reference.
CancellationsRunOnce == \A i \in DOMAIN alarmTable : alarmTable[i] \in alarmRefs

\* Of the loop and the queue: an alarm that a machine waits for is handled
\* or cancelled in the end.
AlarmsAreHandled ==
  \A a \in Alarms : a \in alarmsHeld ~> a \notin alarmsHeld

\* Of the alarms that were cancelled or have gone off: no machine handles one
\* that it did not wait for, and no source is let go of twice.
AlarmsAreSound == OnlyDueAlarmsHandled /\ CancellationsRunOnce

=============================================================================
