----------------------------- MODULE PortProofs -----------------------------
(***************************************************************************)
(* That ports of the daemon keep what is promised of them.  The event      *)
(* loop's timer is a Timer, for any number of alarms and of ids, and the   *)
(* controls of suspend keep SuspendLocks, for any names and number of      *)
(* inhibitions.  Wakeups are given once, the brightness is made of light   *)
(* of this period, and a transition of the backlight ends where it should. *)
(* The settings of a machine are those that a service has answered last,   *)
(* for any sessions and values.                                            *)
(***************************************************************************)
EXTENDS AlarmTable, PowerLocks, Wakeups, Brightness, Backlights, ClientSettings, QueueLemmas,
        FiniteSetTheorems

-----------------------------------------------------------------------------
(* The timer, and that only due alarms are handled.                        *)
(*                                                                         *)
(* An id stands for one alarm as long as somebody knows of that alarm: a   *)
(* machine, the loop's sources or a task on its way (IdsDiffer).  A source *)
(* can be cancelled: its cancellation is stored, or the task that stores   *)
(* it is queued, and so runs before the task of a later cancel_alarm,      *)
(* which is the last in the queue (SourcesCanBeCancelled, CancelComesLast).*)

TaskTypes == [function : {"cancellation_ready", "cancel_alarm_unqueued"}, alarm : Alarms]

Scheduled == 1 .. lastAlarm

AlarmsTyped ==
  /\ lastAlarm \in 0 .. MaxAlarms /\ timerCaller \in {"idle", "attaching", "waiting"}
  /\ alarmTasks \in Seq(TaskTypes) /\ alarmQueue \in Seq(AlarmIds)
  /\ timerCaller = "attaching" => lastAlarm # 0

\* What the timer and the machines know of are alarms that were scheduled;
\* the one whose source is not attached yet is known to nobody.
Attached == IF timerCaller = "attaching" THEN Scheduled \ {lastAlarm} ELSE Scheduled
OnlyScheduled ==
  /\ alarmSources \cup alarmsHeld \cup alarmsGoneOff \cup alarmsStopped \cup alarmsHandled
       \subseteq Attached
  /\ \A k \in DOMAIN alarmTasks : alarmTasks[k].alarm \in Scheduled
  /\ \A i \in DOMAIN alarmTable : alarmTable[i] \in Scheduled /\ AlarmIdOf(alarmTable[i]) = i

\* Somebody knows of alarm a.
IsKnown(a) ==
  \/ a \in alarmsHeld \cup alarmSources
  \/ \E k \in DOMAIN alarmTasks : alarmTasks[k].alarm = a
  \/ timerCaller = "attaching" /\ a = lastAlarm

IdsDiffer ==
  \A a, b \in Scheduled : IsKnown(a) /\ IsKnown(b) /\ AlarmIdOf(a) = AlarmIdOf(b) => a = b

IsReady(k, a) == alarmTasks[k] = Task("cancellation_ready", a)
IsStored(a) == AlarmIdOf(a) \in DOMAIN alarmTable /\ alarmTable[AlarmIdOf(a)] = a

SourcesCanBeCancelled ==
  \A a \in Scheduled : (a \in alarmSources \/ (timerCaller = "attaching" /\ a = lastAlarm)) =>
    IsStored(a) \/ \E k \in DOMAIN alarmTasks : IsReady(k, a)

\* A cancellation is stored once, and the reference it drops is there.
ReferencesAreLeft ==
  /\ CancellationsRunOnce
  /\ \A k \in DOMAIN alarmTasks : \A a \in Scheduled : IsReady(k, a) =>
       /\ a \in alarmRefs /\ ~IsStored(a)
       /\ \A j \in DOMAIN alarmTasks : IsReady(j, a) => j = k

CancelComesLast ==
  \A k \in DOMAIN alarmTasks : alarmTasks[k].function = "cancel_alarm_unqueued" =>
    /\ timerCaller = "waiting" /\ k = Len(alarmTasks)
    /\ alarmTasks[k].alarm \notin alarmsHeld \cup alarmsStopped \cup alarmsHandled

\* A machine waits for an alarm that has not been stopped or handled.  When
\* its id is on the queue, it has gone off.
HeldAlarmsAreDue ==
  /\ alarmsHeld \cap (alarmsStopped \cup alarmsHandled) = {}
  /\ \A a \in alarmsHeld : AlarmIdOf(a) \in Range(alarmQueue) => a \in alarmsGoneOff
  /\ timerCaller = "attaching" => AlarmIdOf(lastAlarm) \notin Range(alarmQueue)

\* A source is one that neither has gone off nor was stopped.
SourcesAreLeft == alarmSources \cap (alarmsGoneOff \cup alarmsStopped) = {}

AInv ==
  /\ AlarmsTyped /\ OnlyScheduled /\ IdsDiffer /\ SourcesCanBeCancelled /\ ReferencesAreLeft
  /\ CancelComesLast /\ HeldAlarmsAreDue /\ SourcesAreLeft /\ OnlyDueAlarmsHandled

-----------------------------------------------------------------------------
\* The ids of the alarms.
LEMMA IdsOfAlarms == \A a \in Nat : AlarmIdOf(a) \in AlarmIds
BY AlarmTableAssumption DEF AlarmIdOf, AlarmIds

\* A task is queued: the tasks keep their places, and it has the last.
LEMMA TaskQueued ==
  ASSUME alarmTasks \in Seq(TaskTypes), NEW t \in TaskTypes, alarmTasks' = Append(alarmTasks, t)
  PROVE  /\ alarmTasks' \in Seq(TaskTypes)
         /\ \E last \in Nat :
              /\ last = Len(alarmTasks') /\ last \notin DOMAIN alarmTasks
              /\ DOMAIN alarmTasks' = DOMAIN alarmTasks \cup {last}
              /\ alarmTasks'[last] = t /\ last = Len(alarmTasks) + 1
         /\ \A k \in DOMAIN alarmTasks : alarmTasks'[k] = alarmTasks[k]
<1> DEFINE last == Len(alarmTasks) + 1
<1>1. /\ last \in Nat /\ last = Len(alarmTasks') /\ last \notin DOMAIN alarmTasks
      /\ DOMAIN alarmTasks' = DOMAIN alarmTasks \cup {last}
      /\ alarmTasks'[last] = t
  OBVIOUS
<1> QED BY <1>1

\* The first task is run: the others move up.
LEMMA TaskRun ==
  ASSUME alarmTasks \in Seq(TaskTypes), alarmTasks # <<>>, alarmTasks' = Tail(alarmTasks)
  PROVE  /\ alarmTasks' \in Seq(TaskTypes)
         /\ Len(alarmTasks) \in Nat \ {0} /\ Len(alarmTasks') = Len(alarmTasks) - 1
         /\ Head(alarmTasks) = alarmTasks[1] /\ 1 \in DOMAIN alarmTasks
         /\ \A k \in DOMAIN alarmTasks' :
              k + 1 \in DOMAIN alarmTasks /\ alarmTasks'[k] = alarmTasks[k + 1] /\ k \in Nat
         /\ \A k \in DOMAIN alarmTasks :
              k # 1 => k - 1 \in DOMAIN alarmTasks' /\ alarmTasks'[k - 1] = alarmTasks[k]
OBVIOUS

\* An empty table, whose first id is still to be handed out.
LEMMA InitAInv == AlarmInit => AInv
<1> SUFFICES ASSUME AlarmInit PROVE AInv
  OBVIOUS
<1> USE DEF AlarmInit
<1>1. AlarmsTyped
  BY AlarmTableAssumption, EmptyQueue DEF AlarmsTyped
<1>2. DOMAIN alarmTasks = {} /\ DOMAIN alarmTable = {}
  OBVIOUS
<1>3. OnlyScheduled /\ SourcesCanBeCancelled /\ ReferencesAreLeft /\ CancelComesLast /\ SourcesAreLeft
      /\ OnlyDueAlarmsHandled
  BY <1>2 DEF OnlyScheduled, SourcesCanBeCancelled, ReferencesAreLeft, CancellationsRunOnce,
     CancelComesLast, SourcesAreLeft, OnlyDueAlarmsHandled
<1>4. IdsDiffer
  BY <1>2 DEF IdsDiffer, IsKnown
<1>5. HeldAlarmsAreDue
  <2>1. alarmsHeld = {} /\ timerCaller # "attaching"
    OBVIOUS
  <2>2. alarmsHeld \cap (alarmsStopped \cup alarmsHandled) = {}
    BY <2>1
  <2> QED BY <2>1, <2>2, Zenon DEF HeldAlarmsAreDue
<1> QED BY <1>1, <1>3, <1>4, <1>5 DEF AInv

\* A new alarm gets an id that nobody knows.
LEMMA ScheduleKeeps == ASSUME AInv, ScheduleAlarm PROVE AInv'
<1> USE DEF AInv, AlarmsTyped
<1>1. PICK n \in Alarms : n = lastAlarm + 1
  <2>1. lastAlarm + 1 \in Alarms
    BY AlarmTableAssumption DEF ScheduleAlarm, Alarms
  <2> QED BY <2>1
<1> DEFINE t == Task("cancellation_ready", n)
<1>2. /\ timerCaller = "idle" /\ timerCaller' = "attaching" /\ lastAlarm' = n
      /\ alarmRefs' = alarmRefs \cup {n} /\ alarmTasks' = Append(alarmTasks, t) /\ t \in TaskTypes
      /\ UNCHANGED <<alarmSources, alarmTable, alarmQueue, alarmsHeld, alarmsGoneOff, alarmsStopped,
                     alarmsHandled>>
      /\ IdIsFree(AlarmIdOf(n))
  BY <1>1 DEF ScheduleAlarm, Task, TaskTypes
<1>3. PICK last \in Nat :
        /\ alarmTasks' \in Seq(TaskTypes) /\ last = Len(alarmTasks')
        /\ last = Len(alarmTasks) + 1 /\ last \notin DOMAIN alarmTasks
        /\ DOMAIN alarmTasks' = DOMAIN alarmTasks \cup {last} /\ alarmTasks'[last] = t
        /\ \A k \in DOMAIN alarmTasks : alarmTasks'[k] = alarmTasks[k]
  BY <1>2, TaskQueued
<1>4. /\ Scheduled' = Scheduled \cup {n} /\ n \notin Scheduled
      /\ Attached' = Scheduled /\ Attached = Scheduled
      /\ n \in 0 .. MaxAlarms /\ n # 0
  BY <1>1, <1>2, AlarmTableAssumption DEF Scheduled, Attached, Alarms
<1>5. t.alarm = n /\ t.function = "cancellation_ready"
  BY DEF Task
<1> HIDE DEF t
<1>6. AlarmsTyped'
  BY <1>2, <1>3, <1>4
<1>7. OnlyScheduled'
  BY <1>2, <1>3, <1>4, <1>5 DEF OnlyScheduled
<1>8. IdsDiffer'
  <2>1. ASSUME NEW a \in Scheduled, IsKnown(a)' PROVE IsKnown(a)
    BY <1>2, <1>3, <1>4, <1>5, <2>1 DEF IsKnown
  <2>2. ASSUME NEW a \in Scheduled, IsKnown(a) PROVE AlarmIdOf(a) # AlarmIdOf(n)
    BY <1>2, <2>2 DEF IsKnown, IdIsFree
  <2>3. ASSUME NEW a \in Scheduled', NEW b \in Scheduled', IsKnown(a)', IsKnown(b)',
               AlarmIdOf(a) = AlarmIdOf(b)
        PROVE  a = b
    BY <1>4, <2>1, <2>2, <2>3 DEF IdsDiffer
  <2> QED BY <2>3 DEF IdsDiffer, AlarmIdOf
<1>9. \A k \in DOMAIN alarmTasks : \A a \in Scheduled : IsReady(k, a)' <=> IsReady(k, a)
  BY <1>3 DEF IsReady
<1>10. \A a \in Scheduled : IsStored(a)' <=> IsStored(a)
  BY <1>2 DEF IsStored, AlarmIdOf
<1>11. IsReady(last, n)' /\ \A k \in DOMAIN alarmTasks : ~IsReady(k, n)'
  <2>1. IsReady(last, n)'
    BY <1>3 DEF IsReady, t
  <2>2. ASSUME NEW k \in DOMAIN alarmTasks, IsReady(k, n)' PROVE FALSE
    <3>1. alarmTasks[k].alarm = n
      BY <1>3, <2>2 DEF IsReady, Task
    <3> QED BY <1>4, <3>1 DEF OnlyScheduled
  <2> QED BY <2>1, <2>2
<1>12. SourcesCanBeCancelled'
  <2>1. alarmSources \subseteq Scheduled
    BY <1>4 DEF OnlyScheduled
  <2>2. ASSUME NEW a \in Scheduled', a \in alarmSources'
        PROVE  IsStored(a)' \/ \E k \in DOMAIN alarmTasks' : IsReady(k, a)'
    BY <1>2, <1>3, <1>9, <1>10, <2>1, <2>2 DEF SourcesCanBeCancelled
  <2>3. \E k \in DOMAIN alarmTasks' : IsReady(k, n)'
    BY <1>3, <1>11
  <2> QED BY <1>2, <2>2, <2>3 DEF SourcesCanBeCancelled
<1>13. ReferencesAreLeft'
  <2>1. CancellationsRunOnce'
    BY <1>2 DEF ReferencesAreLeft, CancellationsRunOnce
  <2>2. ~IsStored(n)'
    BY <1>2, <1>4 DEF OnlyScheduled, IsStored
  <2>3. ASSUME NEW k \in DOMAIN alarmTasks', NEW a \in Scheduled', IsReady(k, a)'
        PROVE  /\ a \in alarmRefs' /\ ~IsStored(a)'
               /\ \A j \in DOMAIN alarmTasks' : IsReady(j, a)' => j = k
    <3>1. CASE a = n
      BY <1>2, <1>3, <1>11, <2>2, <2>3, <3>1
    <3>2. CASE a # n
      <4>1. a \in Scheduled /\ ~IsReady(last, a)'
        BY <1>3, <1>4, <1>5, <3>2 DEF IsReady, Task
      <4> QED BY <1>2, <1>3, <1>9, <1>10, <2>3, <4>1 DEF ReferencesAreLeft
    <3> QED BY <3>1, <3>2
  <2> QED BY <2>1, <2>3 DEF ReferencesAreLeft
<1>14. CancelComesLast'
  BY <1>2, <1>3, <1>5 DEF CancelComesLast
<1>15. HeldAlarmsAreDue'
  BY <1>2 DEF HeldAlarmsAreDue, IdIsFree, AlarmIdOf
<1>16. SourcesAreLeft' /\ OnlyDueAlarmsHandled'
  BY <1>2 DEF SourcesAreLeft, OnlyDueAlarmsHandled
<1> QED BY <1>6, <1>7, <1>8, <1>12, <1>13, <1>14, <1>15, <1>16

\* Its source is attached.
LEMMA AttachKeeps == ASSUME AInv, AttachAlarm PROVE AInv'
<1> USE DEF AInv, AlarmsTyped
<1>1. /\ timerCaller = "attaching" /\ timerCaller' = "idle"
      /\ alarmSources' = alarmSources \cup {lastAlarm} /\ alarmsHeld' = alarmsHeld \cup {lastAlarm}
      /\ UNCHANGED <<lastAlarm, alarmTable, alarmRefs, alarmTasks, alarmQueue, alarmsGoneOff,
                     alarmsStopped, alarmsHandled>>
  BY DEF AttachAlarm
<1>2. /\ Scheduled' = Scheduled /\ Attached' = Scheduled /\ Attached = Scheduled \ {lastAlarm}
      /\ lastAlarm \in Scheduled
  BY <1>1 DEF Scheduled, Attached
<1>3. AlarmsTyped' /\ OnlyScheduled'
  BY <1>1, <1>2 DEF OnlyScheduled
<1>4. IdsDiffer'
  <2>1. \A a \in Scheduled : IsKnown(a)' => IsKnown(a)
    BY <1>1 DEF IsKnown
  <2> QED BY <1>2, <2>1 DEF IdsDiffer, AlarmIdOf
<1>5. SourcesCanBeCancelled' /\ ReferencesAreLeft'
  BY <1>1, <1>2 DEF SourcesCanBeCancelled, ReferencesAreLeft, CancellationsRunOnce, IsReady, IsStored,
     AlarmIdOf
<1>6. CancelComesLast'
  BY <1>1 DEF CancelComesLast
<1>7. HeldAlarmsAreDue'
  BY <1>1, <1>2 DEF HeldAlarmsAreDue, OnlyScheduled, AlarmIdOf
<1>8. SourcesAreLeft' /\ OnlyDueAlarmsHandled'
  BY <1>1, <1>2 DEF SourcesAreLeft, OnlyDueAlarmsHandled, OnlyScheduled
<1> QED BY <1>3, <1>4, <1>5, <1>6, <1>7, <1>8

\* A machine cancels an alarm it waits for.
LEMMA CancelKeeps == ASSUME AInv, CancelAlarm PROVE AInv'
<1> USE DEF AInv, AlarmsTyped
<1>1. PICK n \in alarmsHeld : /\ alarmsHeld' = alarmsHeld \ {n}
                              /\ alarmTasks' = Append(alarmTasks, Task("cancel_alarm_unqueued", n))
  BY DEF CancelAlarm
<1> DEFINE t == Task("cancel_alarm_unqueued", n)
<1>2. /\ timerCaller = "idle" /\ timerCaller' = "waiting"
      /\ UNCHANGED <<lastAlarm, alarmSources, alarmTable, alarmRefs, alarmQueue, alarmsGoneOff,
                     alarmsStopped, alarmsHandled>>
  BY DEF CancelAlarm
<1>3. Scheduled' = Scheduled /\ Attached' = Scheduled /\ Attached = Scheduled
  BY <1>2 DEF Scheduled, Attached
<1>4. n \in Scheduled /\ n \in Alarms /\ t \in TaskTypes /\ t.alarm = n
      /\ t.function = "cancel_alarm_unqueued"
  <2>1. n \in Scheduled
    BY <1>3 DEF OnlyScheduled
  <2>2. n \in Alarms
    BY <2>1, AlarmTableAssumption DEF Scheduled, Alarms
  <2> QED BY <2>1, <2>2 DEF Task, TaskTypes
<1>5. alarmTasks' = Append(alarmTasks, t)
  BY <1>1
<1>6. \A k : \A a : ~(t = Task("cancellation_ready", a))
  BY DEF Task
<1> HIDE DEF t
<1>7. PICK last \in Nat :
        /\ alarmTasks' \in Seq(TaskTypes) /\ last = Len(alarmTasks')
        /\ last = Len(alarmTasks) + 1 /\ last \notin DOMAIN alarmTasks
        /\ DOMAIN alarmTasks' = DOMAIN alarmTasks \cup {last} /\ alarmTasks'[last] = t
        /\ \A k \in DOMAIN alarmTasks : alarmTasks'[k] = alarmTasks[k]
  BY <1>4, <1>5, TaskQueued
<1>8. \A a \in Scheduled : /\ IsStored(a)' <=> IsStored(a)
                           /\ \A k \in DOMAIN alarmTasks : IsReady(k, a)' <=> IsReady(k, a)
                           /\ ~IsReady(last, a)'
  BY <1>2, <1>6, <1>7 DEF IsStored, IsReady, AlarmIdOf
<1>9. AlarmsTyped'
  BY <1>2, <1>7
<1>10. OnlyScheduled'
  BY <1>1, <1>2, <1>3, <1>4, <1>7 DEF OnlyScheduled
<1>11. IdsDiffer'
  <2>1. \A a \in Scheduled : IsKnown(a)' => IsKnown(a)
    BY <1>1, <1>2, <1>4, <1>7 DEF IsKnown
  <2> QED BY <1>3, <2>1 DEF IdsDiffer, AlarmIdOf
<1>12. SourcesCanBeCancelled'
  BY <1>2, <1>3, <1>7, <1>8 DEF SourcesCanBeCancelled
<1>13. ReferencesAreLeft'
  BY <1>2, <1>3, <1>7, <1>8 DEF ReferencesAreLeft, CancellationsRunOnce
<1>14. CancelComesLast'
  BY <1>1, <1>2, <1>4, <1>7 DEF CancelComesLast, HeldAlarmsAreDue
<1>15. HeldAlarmsAreDue'
  BY <1>1, <1>2 DEF HeldAlarmsAreDue
<1>16. SourcesAreLeft' /\ OnlyDueAlarmsHandled'
  BY <1>2 DEF SourcesAreLeft, OnlyDueAlarmsHandled
<1> QED BY <1>9, <1>10, <1>11, <1>12, <1>13, <1>14, <1>15, <1>16

\* The daemon takes an id from its queue.
LEMMA TakeKeeps == ASSUME AInv, TakeAlarm PROVE AInv'
<1> USE DEF AInv, AlarmsTyped
<1> DEFINE due == {a \in alarmsHeld : AlarmIdOf(a) = Head(alarmQueue)}
<1>1. /\ timerCaller = "idle" /\ alarmQueue # <<>> /\ alarmQueue' = Tail(alarmQueue)
      /\ alarmsHeld' = alarmsHeld \ due /\ alarmsHandled' = alarmsHandled \cup due
      /\ UNCHANGED <<lastAlarm, alarmSources, alarmTable, alarmRefs, alarmTasks, timerCaller,
                     alarmsGoneOff, alarmsStopped>>
  BY DEF TakeAlarm
<1>2. Scheduled' = Scheduled /\ Attached' = Attached
  BY <1>1 DEF Scheduled, Attached
<1>3. Head(alarmQueue) \in Range(alarmQueue) /\ Range(alarmQueue') \subseteq Range(alarmQueue)
      /\ alarmQueue' \in Seq(AlarmIds)
  BY <1>1, Taken
<1>4. due \subseteq alarmsHeld /\ due \subseteq alarmsGoneOff
  BY <1>3 DEF HeldAlarmsAreDue
<1> HIDE DEF due
<1>5. AlarmsTyped' /\ OnlyScheduled'
  BY <1>1, <1>2, <1>3, <1>4 DEF OnlyScheduled
<1>6. IdsDiffer'
  <2>1. \A a \in Scheduled : IsKnown(a)' => IsKnown(a)
    BY <1>1 DEF IsKnown
  <2> QED BY <1>2, <2>1 DEF IdsDiffer, AlarmIdOf
<1>7. SourcesCanBeCancelled' /\ ReferencesAreLeft'
  BY <1>1, <1>2 DEF SourcesCanBeCancelled, ReferencesAreLeft, CancellationsRunOnce, IsReady, IsStored,
     AlarmIdOf
<1>8. CancelComesLast'
  BY <1>1, <1>4 DEF CancelComesLast
<1>9. HeldAlarmsAreDue'
  BY <1>1, <1>3, <1>4 DEF HeldAlarmsAreDue, AlarmIdOf
<1>10. SourcesAreLeft' /\ OnlyDueAlarmsHandled'
  BY <1>1, <1>4 DEF SourcesAreLeft, OnlyDueAlarmsHandled, HeldAlarmsAreDue
<1> QED BY <1>5, <1>6, <1>7, <1>8, <1>9, <1>10

\* cancel_alarm_unqueued of an id: what is stored for the other ids stays.
LEMMA Unqueued ==
  ASSUME AInv, NEW n \in Scheduled, cancel_alarm_unqueued(AlarmIdOf(n))
  PROVE  /\ \A i \in DOMAIN alarmTable' : i \in DOMAIN alarmTable /\ i # AlarmIdOf(n)
                                           /\ alarmTable'[i] = alarmTable[i]
         /\ \A a \in Scheduled : AlarmIdOf(a) # AlarmIdOf(n) => (IsStored(a)' <=> IsStored(a))
         /\ \A a \in Scheduled : IsStored(a)' => IsStored(a)
         /\ alarmRefs' \subseteq alarmRefs
         /\ \A a \in alarmRefs \ alarmRefs' : IsStored(a)
         /\ CancellationsRunOnce'
         /\ SourcesAfterCancel(AlarmIdOf(n)) \subseteq alarmSources
         /\ \A a \in alarmSources \ SourcesAfterCancel(AlarmIdOf(n)) : AlarmIdOf(a) = AlarmIdOf(n)
         /\ IsStored(n) => n \notin SourcesAfterCancel(AlarmIdOf(n))
<1> USE DEF AInv, OnlyScheduled
<1> DEFINE m == AlarmIdOf(n)
<1>1. /\ alarmTable' = Restrict(alarmTable, DOMAIN alarmTable \ {m})
      /\ alarmRefs' = IF m \in DOMAIN alarmTable THEN alarmRefs \ {alarmTable[m]} ELSE alarmRefs
  BY DEF cancel_alarm_unqueued
<1>2. /\ DOMAIN alarmTable' = DOMAIN alarmTable \ {m}
      /\ \A i \in DOMAIN alarmTable' : alarmTable'[i] = alarmTable[i]
  BY <1>1 DEF Restrict
<1>3. \A a \in Scheduled : AlarmIdOf(a)' = AlarmIdOf(a)
  BY DEF AlarmIdOf
<1> HIDE DEF m
<1>4. \A a : IsStored(a)' <=> IsStored(a) /\ AlarmIdOf(a) # m
  BY <1>2 DEF IsStored, AlarmIdOf
<1>5. \A a \in alarmRefs \ alarmRefs' : IsStored(a)
  BY <1>1 DEF IsStored
<1>6. CancellationsRunOnce'
  <2> SUFFICES ASSUME NEW i \in DOMAIN alarmTable' PROVE alarmTable'[i] \in alarmRefs'
    BY DEF CancellationsRunOnce
  <2>1. i \in DOMAIN alarmTable /\ i # m /\ alarmTable'[i] = alarmTable[i]
    BY <1>2
  <2>2. alarmTable[i] \in alarmRefs /\ AlarmIdOf(alarmTable[i]) = i
    BY <2>1 DEF ReferencesAreLeft, CancellationsRunOnce
  <2> QED BY <1>1, <2>1, <2>2
<1>7. /\ SourcesAfterCancel(m) \subseteq alarmSources
      /\ \A a \in alarmSources \ SourcesAfterCancel(m) : AlarmIdOf(a) = m
      /\ IsStored(n) => n \notin SourcesAfterCancel(m)
  BY DEF SourcesAfterCancel, IsStored, m
<1> QED BY <1>1, <1>2, <1>4, <1>5, <1>6, <1>7 DEF m

\* A timeout is due.
LEMMA GoesOffKeeps == ASSUME AInv, AlarmGoesOff PROVE AInv'
<1> USE DEF AInv, AlarmsTyped
<1>1. PICK n \in alarmSources :
        /\ alarmQueue' = Append(alarmQueue, AlarmIdOf(n)) /\ alarmsGoneOff' = alarmsGoneOff \cup {n}
        /\ cancel_alarm_unqueued(AlarmIdOf(n))
        /\ alarmSources' = SourcesAfterCancel(AlarmIdOf(n)) \ {n}
        /\ UNCHANGED <<lastAlarm, alarmTasks, timerCaller, alarmsHeld, alarmsStopped, alarmsHandled>>
  BY DEF AlarmGoesOff
<1>2. Scheduled' = Scheduled /\ Attached' = Attached /\ n \in Attached /\ Attached \subseteq Scheduled
      /\ n \in Scheduled
  BY <1>1 DEF Scheduled, Attached, OnlyScheduled
<1>3. /\ \A i \in DOMAIN alarmTable' : i \in DOMAIN alarmTable /\ i # AlarmIdOf(n)
                                        /\ alarmTable'[i] = alarmTable[i]
      /\ \A a \in Scheduled : AlarmIdOf(a) # AlarmIdOf(n) => (IsStored(a)' <=> IsStored(a))
      /\ \A a \in Scheduled : IsStored(a)' => IsStored(a)
      /\ alarmRefs' \subseteq alarmRefs
      /\ \A a \in alarmRefs \ alarmRefs' : IsStored(a)
      /\ CancellationsRunOnce'
      /\ SourcesAfterCancel(AlarmIdOf(n)) \subseteq alarmSources
  BY <1>1, <1>2, Unqueued
<1>4. \A a \in Scheduled : IsKnown(a) /\ AlarmIdOf(a) = AlarmIdOf(n) => a = n
  BY <1>1, <1>2 DEF IdsDiffer, IsKnown
<1>5. /\ alarmQueue' \in Seq(AlarmIds) /\ Range(alarmQueue') = Range(alarmQueue) \cup {AlarmIdOf(n)}
  <2>1. AlarmIdOf(n) \in AlarmIds
    BY <1>2, IdsOfAlarms DEF Scheduled
  <2> QED BY <1>1, <2>1, Appended
<1>6. AlarmsTyped'
  BY <1>1, <1>5
<1>7. OnlyScheduled'
  BY <1>1, <1>2, <1>3 DEF OnlyScheduled, AlarmIdOf
<1>8. IdsDiffer'
  <2>1. \A a \in Scheduled : IsKnown(a)' => IsKnown(a)
    BY <1>1, <1>3 DEF IsKnown
  <2> QED BY <1>2, <2>1 DEF IdsDiffer, AlarmIdOf
<1>9. \A a \in Scheduled : \A k \in DOMAIN alarmTasks : IsReady(k, a)' <=> IsReady(k, a)
  BY <1>1 DEF IsReady
<1>10. SourcesCanBeCancelled'
  <2> SUFFICES ASSUME NEW a \in Scheduled,
                      a \in alarmSources' \/ (timerCaller = "attaching" /\ a = lastAlarm)
               PROVE  IsStored(a)' \/ \E k \in DOMAIN alarmTasks : IsReady(k, a)
    BY <1>1, <1>2, <1>9 DEF SourcesCanBeCancelled
  <2>1. IsKnown(a) /\ a # n /\ (a \in alarmSources \/ (timerCaller = "attaching" /\ a = lastAlarm))
    BY <1>1, <1>2, <1>3 DEF IsKnown, Attached
  <2>2. AlarmIdOf(a) # AlarmIdOf(n)
    BY <1>4, <2>1
  <2> QED BY <1>3, <2>1, <2>2 DEF SourcesCanBeCancelled
<1>11. ReferencesAreLeft'
  <2> SUFFICES ASSUME NEW k \in DOMAIN alarmTasks, NEW a \in Scheduled, IsReady(k, a)
               PROVE  /\ a \in alarmRefs' /\ ~IsStored(a)'
                      /\ \A j \in DOMAIN alarmTasks : IsReady(j, a) => j = k
    BY <1>1, <1>2, <1>3, <1>9 DEF ReferencesAreLeft
  <2> QED BY <1>3 DEF ReferencesAreLeft
<1>12. CancelComesLast'
  BY <1>1 DEF CancelComesLast
<1>13. HeldAlarmsAreDue'
  <2>1. ASSUME NEW a \in alarmsHeld, AlarmIdOf(a) \in Range(alarmQueue') PROVE a \in alarmsGoneOff'
    <3>1. a \in Scheduled /\ IsKnown(a)
      BY <1>2 DEF OnlyScheduled, IsKnown
    <3> QED BY <1>1, <1>4, <1>5, <2>1, <3>1 DEF HeldAlarmsAreDue
  <2>2. ASSUME timerCaller = "attaching" PROVE AlarmIdOf(lastAlarm) \notin Range(alarmQueue')
    <3>1. lastAlarm # n /\ lastAlarm \in Scheduled /\ IsKnown(lastAlarm)
      BY <1>2, <2>2 DEF Attached, Scheduled, IsKnown
    <3> QED BY <1>4, <1>5, <2>2, <3>1 DEF HeldAlarmsAreDue
  <2> QED BY <1>1, <2>1, <2>2 DEF HeldAlarmsAreDue, AlarmIdOf
<1>14. SourcesAreLeft' /\ OnlyDueAlarmsHandled'
  BY <1>1, <1>3 DEF SourcesAreLeft, OnlyDueAlarmsHandled
<1> QED BY <1>6, <1>7, <1>8, <1>10, <1>11, <1>12, <1>13, <1>14

\* The loop stores a cancellation.
LEMMA StoreKeeps == ASSUME AInv, StoreCancellation PROVE AInv'
<1> USE DEF AInv, AlarmsTyped
<1>1. alarmTasks # <<>> /\ alarmTasks' = Tail(alarmTasks)
  BY DEF StoreCancellation
<1>2. /\ alarmTasks' \in Seq(TaskTypes)
      /\ Len(alarmTasks) \in Nat \ {0} /\ Len(alarmTasks') = Len(alarmTasks) - 1
      /\ Head(alarmTasks) = alarmTasks[1] /\ 1 \in DOMAIN alarmTasks
      /\ \A k \in DOMAIN alarmTasks' :
           k + 1 \in DOMAIN alarmTasks /\ alarmTasks'[k] = alarmTasks[k + 1] /\ k \in Nat
      /\ \A k \in DOMAIN alarmTasks :
           k # 1 => k - 1 \in DOMAIN alarmTasks' /\ alarmTasks'[k - 1] = alarmTasks[k]
  BY <1>1, TaskRun
<1>3. PICK n \in Scheduled : n = alarmTasks[1].alarm
  BY <1>2 DEF OnlyScheduled
<1>4. /\ alarmTable' = [i \in DOMAIN alarmTable \cup {AlarmIdOf(n)} |->
                          IF i = AlarmIdOf(n) THEN n ELSE alarmTable[i]]
      /\ alarmTasks[1].function = "cancellation_ready"
      /\ UNCHANGED <<lastAlarm, alarmSources, alarmRefs, timerCaller, alarmQueue, alarmsHeld,
                     alarmsGoneOff, alarmsStopped, alarmsHandled>>
  BY <1>2, <1>3 DEF StoreCancellation
<1>5. IsReady(1, n)
  <2>1. alarmTasks[1] \in TaskTypes
    BY <1>2
  <2> QED BY <1>3, <1>4, <2>1 DEF IsReady, Task, TaskTypes
<1>6. Scheduled' = Scheduled /\ Attached' = Attached
  BY <1>4 DEF Scheduled, Attached
<1>7. n \in alarmRefs /\ IsKnown(n) /\ \A j \in DOMAIN alarmTasks : IsReady(j, n) => j = 1
  BY <1>2, <1>3, <1>5 DEF ReferencesAreLeft, IsKnown
<1>8. \A k \in DOMAIN alarmTasks' : \A a \in Scheduled : IsReady(k, a)' => IsReady(k + 1, a) /\ a # n
  <2>1. ASSUME NEW k \in DOMAIN alarmTasks', NEW a \in Scheduled, IsReady(k, a)'
        PROVE  IsReady(k + 1, a) /\ a # n
    <3>1. k + 1 \in DOMAIN alarmTasks /\ k \in Nat /\ IsReady(k + 1, a)
      BY <1>2, <2>1 DEF IsReady
    <3>2. k \in 1 .. Len(alarmTasks')
      BY <1>2
    <3> QED BY <1>7, <3>1, <3>2
  <2> QED BY <2>1
<1>9. \A a \in Scheduled : AlarmIdOf(a) # AlarmIdOf(n) => (IsStored(a)' <=> IsStored(a))
  BY <1>4 DEF IsStored, AlarmIdOf
<1>10. IsStored(n)' /\ \A a \in Scheduled : a # n /\ IsStored(a)' => IsStored(a)
  BY <1>4 DEF IsStored, AlarmIdOf
<1>11. AlarmsTyped'
  BY <1>2, <1>4
<1>12. OnlyScheduled'
  <2>1. \A k \in DOMAIN alarmTasks' : alarmTasks'[k].alarm \in Scheduled
    BY <1>2 DEF OnlyScheduled
  <2>2. \A i \in DOMAIN alarmTable' : alarmTable'[i] \in Scheduled /\ AlarmIdOf(alarmTable'[i]) = i
    BY <1>4 DEF OnlyScheduled
  <2> QED BY <1>4, <1>6, <2>1, <2>2 DEF OnlyScheduled, AlarmIdOf
<1>13. IdsDiffer'
  <2>1. \A a \in Scheduled : IsKnown(a)' => IsKnown(a)
    BY <1>2, <1>4 DEF IsKnown
  <2> QED BY <1>6, <2>1 DEF IdsDiffer, AlarmIdOf
<1>14. SourcesCanBeCancelled'
  <2> SUFFICES ASSUME NEW a \in Scheduled,
                      a \in alarmSources \/ (timerCaller = "attaching" /\ a = lastAlarm)
               PROVE  IsStored(a)' \/ \E k \in DOMAIN alarmTasks' : IsReady(k, a)'
    BY <1>4, <1>6 DEF SourcesCanBeCancelled
  <2>1. CASE a = n
    BY <1>10, <2>1
  <2>2. CASE a # n
    <3>1. AlarmIdOf(a) # AlarmIdOf(n)
      <4>1. IsKnown(a)
        BY DEF IsKnown
      <4> QED BY <1>7, <2>2, <4>1 DEF IdsDiffer
    <3>2. CASE IsStored(a)
      BY <1>9, <3>1, <3>2
    <3>3. ASSUME NEW k \in DOMAIN alarmTasks, IsReady(k, a)
          PROVE  k - 1 \in DOMAIN alarmTasks' /\ IsReady(k - 1, a)'
      <4>1. k # 1
        BY <1>3, <2>2, <3>3 DEF IsReady, Task
      <4> QED BY <1>2, <3>3, <4>1 DEF IsReady
    <3> QED BY <3>2, <3>3 DEF SourcesCanBeCancelled
  <2> QED BY <2>1, <2>2
<1>15. ReferencesAreLeft'
  <2>1. CancellationsRunOnce'
    BY <1>4, <1>7 DEF ReferencesAreLeft, CancellationsRunOnce
  <2>2. ASSUME NEW k \in DOMAIN alarmTasks', NEW a \in Scheduled', IsReady(k, a)'
        PROVE  /\ a \in alarmRefs' /\ ~IsStored(a)'
               /\ \A j \in DOMAIN alarmTasks' : IsReady(j, a)' => j = k
    <3>1. a \in Scheduled /\ IsReady(k + 1, a) /\ a # n /\ k + 1 \in DOMAIN alarmTasks
      BY <1>2, <1>6, <1>8, <2>2
    <3>2. a \in alarmRefs' /\ ~IsStored(a)'
      BY <1>4, <1>10, <3>1 DEF ReferencesAreLeft
    <3>3. ASSUME NEW j \in DOMAIN alarmTasks', IsReady(j, a)' PROVE j = k
      <4>1. IsReady(j + 1, a) /\ j + 1 \in DOMAIN alarmTasks /\ j \in Nat /\ k \in Nat
        BY <1>2, <1>8, <3>1, <3>3
      <4>2. j + 1 = k + 1
        BY <3>1, <4>1 DEF ReferencesAreLeft
      <4> QED BY <4>1, <4>2
    <3> QED BY <3>2, <3>3
  <2> QED BY <2>1, <2>2 DEF ReferencesAreLeft
<1>16. CancelComesLast'
  <2> SUFFICES ASSUME NEW k \in DOMAIN alarmTasks', alarmTasks'[k].function = "cancel_alarm_unqueued"
               PROVE  /\ timerCaller = "waiting" /\ k = Len(alarmTasks')
                      /\ alarmTasks'[k].alarm \notin alarmsHeld \cup alarmsStopped \cup alarmsHandled
    BY <1>4 DEF CancelComesLast
  <2>1. k + 1 \in DOMAIN alarmTasks /\ alarmTasks'[k] = alarmTasks[k + 1] /\ k \in Nat
    BY <1>2
  <2>2. /\ timerCaller = "waiting" /\ k + 1 = Len(alarmTasks)
        /\ alarmTasks[k + 1].alarm \notin alarmsHeld \cup alarmsStopped \cup alarmsHandled
    BY <2>1 DEF CancelComesLast
  <2> QED BY <1>2, <2>1, <2>2
<1>17. HeldAlarmsAreDue' /\ SourcesAreLeft' /\ OnlyDueAlarmsHandled'
  BY <1>4 DEF HeldAlarmsAreDue, SourcesAreLeft, OnlyDueAlarmsHandled, AlarmIdOf
<1> QED BY <1>11, <1>12, <1>13, <1>14, <1>15, <1>16, <1>17

\* The loop runs a cancel, the only task that is left.
LEMMA RunCancelKeeps ==
  ASSUME AInv, RunCancel
  PROVE  /\ AInv'
         /\ \E n \in Scheduled : n \notin alarmsStopped /\ alarmsStopped' = alarmsStopped \cup {n}
         /\ Scheduled' = Scheduled /\ UNCHANGED alarmsGoneOff
<1> USE DEF AInv, AlarmsTyped
<1>1. alarmTasks # <<>> /\ alarmTasks' = Tail(alarmTasks)
  BY DEF RunCancel
<1>2. /\ alarmTasks' \in Seq(TaskTypes)
      /\ Len(alarmTasks) \in Nat \ {0} /\ Len(alarmTasks') = Len(alarmTasks) - 1
      /\ Head(alarmTasks) = alarmTasks[1] /\ 1 \in DOMAIN alarmTasks
  BY <1>1, TaskRun
<1>3. PICK n \in Scheduled : n = alarmTasks[1].alarm
  BY <1>2 DEF OnlyScheduled
<1>4. /\ cancel_alarm_unqueued(AlarmIdOf(n)) /\ alarmSources' = SourcesAfterCancel(AlarmIdOf(n))
      /\ alarmsStopped' = alarmsStopped \cup {n} /\ timerCaller' = "idle"
      /\ alarmTasks[1].function = "cancel_alarm_unqueued"
      /\ UNCHANGED <<lastAlarm, alarmQueue, alarmsHeld, alarmsGoneOff, alarmsHandled>>
  BY <1>2, <1>3 DEF RunCancel
<1>5. /\ timerCaller = "waiting" /\ Len(alarmTasks) = 1
      /\ n \notin alarmsHeld \cup alarmsStopped \cup alarmsHandled
  BY <1>2, <1>3, <1>4 DEF CancelComesLast
<1>6. DOMAIN alarmTasks' = {} /\ DOMAIN alarmTasks = {1}
  BY <1>2, <1>5
<1>7. Scheduled' = Scheduled /\ Attached' = Scheduled /\ Attached = Scheduled
  BY <1>4, <1>5 DEF Scheduled, Attached
<1>8. /\ \A i \in DOMAIN alarmTable' : i \in DOMAIN alarmTable /\ i # AlarmIdOf(n)
                                        /\ alarmTable'[i] = alarmTable[i]
      /\ \A a \in Scheduled : AlarmIdOf(a) # AlarmIdOf(n) => (IsStored(a)' <=> IsStored(a))
      /\ CancellationsRunOnce'
      /\ SourcesAfterCancel(AlarmIdOf(n)) \subseteq alarmSources
      /\ IsStored(n) => n \notin SourcesAfterCancel(AlarmIdOf(n))
  BY <1>4, Unqueued
<1>9. \A a \in alarmSources : a \in Scheduled /\ IsStored(a) /\ IsKnown(a)
  <2>1. ASSUME NEW a \in alarmSources PROVE a \in Scheduled /\ IsStored(a) /\ IsKnown(a)
    <3>1. a \in Scheduled /\ IsKnown(a)
      BY <1>7 DEF OnlyScheduled, IsKnown
    <3>2. ~IsReady(1, a)
      BY <1>4 DEF IsReady, Task
    <3> QED BY <1>6, <3>1, <3>2 DEF SourcesCanBeCancelled
  <2> QED BY <2>1
<1>10. n \notin alarmSources'
  BY <1>4, <1>8, <1>9
<1>11. AlarmsTyped'
  BY <1>2, <1>4
<1>12. OnlyScheduled'
  BY <1>4, <1>6, <1>7, <1>8 DEF OnlyScheduled, AlarmIdOf
<1>13. IdsDiffer'
  <2>1. \A a \in Scheduled : IsKnown(a)' => IsKnown(a)
    BY <1>4, <1>6, <1>8 DEF IsKnown
  <2> QED BY <1>7, <2>1 DEF IdsDiffer, AlarmIdOf
<1>14. SourcesCanBeCancelled'
  <2>1. ASSUME NEW a \in alarmSources' PROVE IsStored(a)'
    <3>1. IsKnown(n) /\ a \in alarmSources
      BY <1>2, <1>3, <1>4, <1>8 DEF IsKnown
    <3>2. AlarmIdOf(a) # AlarmIdOf(n)
      BY <1>9, <1>10, <3>1 DEF IdsDiffer
    <3> QED BY <1>8, <1>9, <3>1, <3>2
  <2> QED BY <1>4, <2>1 DEF SourcesCanBeCancelled
<1>15. ReferencesAreLeft' /\ CancelComesLast'
  BY <1>6, <1>8 DEF ReferencesAreLeft, CancelComesLast
<1>16. HeldAlarmsAreDue'
  BY <1>4, <1>5 DEF HeldAlarmsAreDue, AlarmIdOf
<1>17. SourcesAreLeft' /\ OnlyDueAlarmsHandled'
  BY <1>4, <1>5, <1>8, <1>10 DEF SourcesAreLeft, OnlyDueAlarmsHandled
<1>18. AInv'
  BY <1>11, <1>12, <1>13, <1>14, <1>15, <1>16, <1>17
<1> QED BY <1>4, <1>5, <1>7, <1>18

\* Scheduling, cancelling, firing, handling and losing an alarm keep it.
LEMMA NextAInv == AInv /\ [AlarmNext]_alarmVars => AInv'
<1> SUFFICES ASSUME AInv, [AlarmNext]_alarmVars PROVE AInv'
  OBVIOUS
<1>1. CASE AlarmNext
  BY <1>1, ScheduleKeeps, AttachKeeps, CancelKeeps, TakeKeeps, GoesOffKeeps, StoreKeeps, RunCancelKeeps
     DEF AlarmNext
<1>2. CASE UNCHANGED alarmVars
  BY <1>2 DEF alarmVars, AInv, AlarmsTyped, OnlyScheduled, IdsDiffer, SourcesCanBeCancelled,
     ReferencesAreLeft, CancelComesLast, HeldAlarmsAreDue, SourcesAreLeft, OnlyDueAlarmsHandled,
     CancellationsRunOnce, Scheduled, Attached, IsKnown, IsReady, IsStored, AlarmIdOf
<1> QED BY <1>1, <1>2

\* What is known of the alarms between the daemon's thread and the loop's.
THEOREM AlarmsInvariant == AlarmSpec => []AInv
<1> QED BY InitAInv, NextAInv, PTL DEF AlarmSpec

\* The daemon handles only alarms that went off and were not cancelled, and
\* the loop drops no reference twice.
THEOREM AlarmsCorrect == AlarmSpec => []AlarmsAreSound
<1>1. AInv => AlarmsAreSound
  BY DEF AInv, ReferencesAreLeft, AlarmsAreSound
<1> QED BY <1>1, AlarmsInvariant, PTL

\* Seen from the daemon the event loop's timer is a Timer.
THEOREM AlarmsRefineTimer == AlarmSpec => ImplementsTimer
<1> USE DEF TimerPort!timerVars
<1>1. AlarmInit => TimerPort!TimerInit
  BY DEF AlarmInit, TimerPort!TimerInit
<1>2. AInv /\ [AlarmNext]_alarmVars => [TimerPort!TimerNext]_(TimerPort!timerVars)
  <2> SUFFICES ASSUME AInv, [AlarmNext]_alarmVars
               PROVE  TimerPort!TimerNext \/ UNCHANGED TimerPort!timerVars
    OBVIOUS
  <2>1. CASE ScheduleAlarm
    <3>1. PICK n \in Alarms : n = lastAlarm + 1
      <4>1. lastAlarm + 1 \in Alarms
        BY <2>1, AlarmTableAssumption DEF ScheduleAlarm, Alarms, AInv, AlarmsTyped
      <4> QED BY <4>1
    <3>2. /\ 1 .. lastAlarm' = (1 .. lastAlarm) \cup {n} /\ n \notin 1 .. lastAlarm
          /\ UNCHANGED <<alarmsStopped, alarmsGoneOff>>
      BY <2>1, <3>1 DEF ScheduleAlarm, AInv, AlarmsTyped
    <3> QED BY <3>2 DEF TimerPort!TimerNext, TimerPort!schedule_alarm_in
  <2>2. CASE RunCancel
    <3>1. PICK n \in Scheduled : n \notin alarmsStopped /\ alarmsStopped' = alarmsStopped \cup {n}
      BY <2>2, RunCancelKeeps
    <3>2. UNCHANGED <<lastAlarm, alarmsGoneOff>>
      BY <2>2 DEF RunCancel
    <3>3. n \in Alarms
      BY AlarmTableAssumption DEF AInv, AlarmsTyped, Scheduled, Alarms
    <3> QED BY <3>1, <3>2, <3>3 DEF TimerPort!TimerNext, TimerPort!cancel_alarm, Scheduled
  <2>3. CASE AlarmGoesOff
    <3>1. PICK n \in alarmSources : alarmsGoneOff' = alarmsGoneOff \cup {n}
                                    /\ UNCHANGED <<lastAlarm, alarmsStopped>>
      BY <2>3 DEF AlarmGoesOff
    <3>2. n \in Scheduled /\ n \notin alarmsStopped \cup alarmsGoneOff
      BY DEF AInv, OnlyScheduled, Attached, SourcesAreLeft
    <3>3. n \in Alarms
      BY <3>2, AlarmTableAssumption DEF AInv, AlarmsTyped, Scheduled, Alarms
    <3> QED BY <3>1, <3>2, <3>3 DEF TimerPort!TimerNext, TimerPort!alarm_handler, Scheduled
  <2>4. CASE AttachAlarm \/ CancelAlarm \/ TakeAlarm \/ StoreCancellation \/ UNCHANGED alarmVars
    BY <2>4 DEF AttachAlarm, CancelAlarm, TakeAlarm, StoreCancellation, alarmVars
  <2> QED BY <2>1, <2>2, <2>3, <2>4 DEF AlarmNext
<1> QED BY <1>1, <1>2, AlarmsInvariant, PTL DEF AlarmSpec, ImplementsTimer, TimerPort!TimerSpec

-----------------------------------------------------------------------------
(* The two controls with libsuspend and the temporary inhibitions.         *)
(*                                                                         *)
(* The system falls asleep only with a count that is the kernel's, and     *)
(* taking a lock makes it stale: so a current count means that no lock is  *)
(* held (CountMeansFree), and what is promised is the kernel's locks.      *)
(* libsuspend's control has one lock for all ids, which it writes after it *)
(* has changed its set: SharedLockFollows says how the two are related     *)
(* before and after the write, and that no inhibition counts as made       *)
(* before it.  Inhibitions end one by one, so their ids must differ        *)
(* (InhibitionsKept).                                                      *)

LocksTyped ==
  /\ powerControl \in {"logind", "libsuspend"}
  /\ suspend_disallowances \subseteq InhibitionIds \cup {MachineId}
  /\ wakeLocks \subseteq InhibitionIds \cup {MachineId, CallbackLock, SharedLock}
  /\ lockWrite \in {"none", "acquire", "release"} /\ countIsCurrent \in BOOLEAN
  /\ suspendThread \in {"none", "usleep", "lockout", "write_count", "write_state",
                        "asleep", "callback", "post"}
  /\ lastInhibition \in 0 .. MaxInhibitions
  /\ inhibitionCalls \subseteq InhibitionIds /\ inhibitions \subseteq InhibitionIds

\* The thread has taken the lockout, or may.
LockoutCounts ==
  suspend_lockout = IF suspendThread \in {"usleep", "lockout"} THEN 1 ELSE 0

CountMeansFree ==
  /\ countIsCurrent => wakeLocks = {}
  /\ suspendThread = "asleep" => countIsCurrent

SharedLockFollows ==
  /\ powerControl = "logind" =>
       lockWrite = "none" /\ suspend_disallowances = {} /\ SharedLock \notin wakeLocks
  /\ powerControl = "libsuspend" =>
       /\ wakeLocks \subseteq {CallbackLock, SharedLock}
       /\ lockWrite = "none" => (SharedLock \in wakeLocks <=> suspend_disallowances # {})
       /\ lockWrite = "acquire" =>
            /\ SharedLock \notin wakeLocks /\ inhibitions = {}
            /\ \E i \in InhibitionIds \cup {MachineId} : suspend_disallowances = {i}
       /\ lockWrite = "release" => suspend_disallowances = {}

\* What inhibitions are disallowed by.
Disallowing == IF powerControl = "logind" THEN wakeLocks ELSE suspend_disallowances

InhibitionsKept ==
  /\ inhibitionCalls \cap inhibitions = {}
  /\ \A i \in inhibitionCalls \cup inhibitions : i.id <= lastInhibition
  /\ inhibitionCalls \cup inhibitions \subseteq Disallowing

LInv == LocksTyped /\ LockoutCounts /\ CountMeansFree /\ SharedLockFollows /\ InhibitionsKept

-----------------------------------------------------------------------------
\* The ids of clients, and no others, are ids of inhibitions; the locks that
\* the code takes for itself are different from all of them.
LEMMA LockIdsDiffer ==
  /\ \A i \in InhibitionIds : i # MachineId /\ i # CallbackLock /\ i # SharedLock
  /\ MachineId # CallbackLock /\ MachineId # SharedLock /\ CallbackLock # SharedLock
  /\ \A i \in InhibitionIds : i = InhibitionId(i.name, i.id) /\ i.id \in 1 .. MaxInhibitions
  /\ \A name \in InhibitionNames : \A n \in 1 .. MaxInhibitions :
       InhibitionId(name, n) \in InhibitionIds /\ InhibitionId(name, n).id = n
BY DEF InhibitionIds, InhibitionId, MachineId, CallbackLock, SharedLock, Lock

\* No lock is held and no request is under way.
LEMMA InitLInv == PowerInit => LInv
<1> SUFFICES ASSUME PowerInit PROVE LInv
  OBVIOUS
<1> USE DEF PowerInit
<1>1. LocksTyped
  <2>1. lastInhibition \in 0 .. MaxInhibitions
    BY PowerLocksAssumption
  <2> QED BY <2>1, Zenon DEF LocksTyped
<1>2. LockoutCounts /\ CountMeansFree
  BY DEF LockoutCounts, CountMeansFree
<1>3. SharedLockFollows
  BY DEF SharedLockFollows
<1>4. InhibitionsKept
  BY DEF InhibitionsKept, Disallowing
<1> QED BY <1>1, <1>2, <1>3, <1>4 DEF LInv

\* disallow_automatic_suspend, of either control, for an id that is in use or
\* not.
LEMMA DisallowKeeps ==
  ASSUME LInv, NEW i \in InhibitionIds \cup {MachineId}, disallow_automatic_suspend(i),
         UserSpaceRuns, UNCHANGED powerControl, UNCHANGED threadVars
  PROVE  /\ suspend_disallowances' \subseteq InhibitionIds \cup {MachineId}
         /\ wakeLocks' \subseteq InhibitionIds \cup {MachineId, CallbackLock, SharedLock}
         /\ lockWrite' \in {"none", "acquire", "release"} /\ countIsCurrent' \in BOOLEAN
         /\ CountMeansFree'
         /\ Disallowing' = Disallowing \cup {i}
         /\ (inhibitions' = inhibitions) => SharedLockFollows'
<1> USE DEF LInv, LocksTyped, SharedLockFollows, CountMeansFree, Disallowing, InhibitionsKept,
           AcquireLock, UserSpaceRuns, threadVars
<1>1. CASE powerControl = "logind"
  BY <1>1, LockIdsDiffer DEF disallow_automatic_suspend
<1>2. CASE powerControl = "libsuspend"
  <2>1. suspend_disallowances' = suspend_disallowances \cup {i} /\ lockWrite = "none"
        /\ lockWrite' = (IF suspend_disallowances = {} THEN "acquire" ELSE "none")
        /\ wakeLocks' = wakeLocks /\ countIsCurrent' = countIsCurrent
    BY <1>2 DEF disallow_automatic_suspend
  <2>2. CASE suspend_disallowances = {}
    BY <1>2, <2>1, <2>2
  <2>3. CASE suspend_disallowances # {}
    BY <1>2, <2>1, <2>3
  <2> QED BY <2>2, <2>3
<1> QED BY <1>1, <1>2

\* allow_automatic_suspend, of either control.
LEMMA AllowKeeps ==
  ASSUME LInv, NEW i \in InhibitionIds \cup {MachineId}, allow_automatic_suspend(i),
         UserSpaceRuns, UNCHANGED powerControl, UNCHANGED threadVars
  PROVE  /\ suspend_disallowances' \subseteq InhibitionIds \cup {MachineId}
         /\ wakeLocks' \subseteq InhibitionIds \cup {MachineId, CallbackLock, SharedLock}
         /\ lockWrite' \in {"none", "acquire", "release"} /\ countIsCurrent' \in BOOLEAN
         /\ CountMeansFree'
         /\ Disallowing' = Disallowing \ {i}
         /\ SharedLockFollows'
<1> USE DEF LInv, LocksTyped, SharedLockFollows, CountMeansFree, Disallowing, InhibitionsKept,
           ReleaseLock, UserSpaceRuns, threadVars
<1>1. CASE powerControl = "logind"
  BY <1>1, LockIdsDiffer DEF allow_automatic_suspend
<1>2. CASE powerControl = "libsuspend"
  <2>1. suspend_disallowances' = suspend_disallowances \ {i} /\ lockWrite = "none"
        /\ lockWrite' = (IF suspend_disallowances = {i} THEN "release" ELSE "none")
        /\ wakeLocks' = wakeLocks /\ countIsCurrent' = countIsCurrent
    BY <1>2 DEF allow_automatic_suspend
  <2>2. CASE suspend_disallowances = {i}
    BY <1>2, <2>1, <2>2
  <2>3. CASE suspend_disallowances # {i}
    <3>1. suspend_disallowances' # {} <=> suspend_disallowances # {}
      BY <2>1, <2>3
    <3> QED BY <1>2, <2>1, <2>3, <3>1
  <2> QED BY <2>2, <2>3
<1> QED BY <1>1, <1>2

\* Every step of the controls, the inhibitions, libsuspend's thread and the
\* kernel keeps the invariant.
LEMMA NextLInv == LInv /\ [PowerNext]_powerVars => LInv'
<1> SUFFICES ASSUME LInv, [PowerNext]_powerVars PROVE LInv'
  OBVIOUS
<1> DEFINE Ids == InhibitionIds \cup {MachineId}
<1> USE DEF powerVars, threadVars, inhibitionVars
<1>1. ASSUME WriteLock PROVE LInv'
  <2> USE <1>1 DEF WriteLock, AcquireLock, ReleaseLock, UserSpaceRuns
  <2>1. powerControl = "libsuspend" /\ UNCHANGED <<powerControl, suspend_disallowances, inhibitions>>
    BY DEF LInv, LocksTyped, SharedLockFollows
  <2>2. LocksTyped'
    BY DEF LInv, LocksTyped
  <2>3. LockoutCounts' /\ CountMeansFree'
    BY DEF LInv, LockoutCounts, CountMeansFree
  <2>4. SharedLockFollows'
    BY <2>1, LockIdsDiffer DEF LInv, LocksTyped, SharedLockFollows
  <2>5. InhibitionsKept'
    BY <2>1 DEF LInv, InhibitionsKept, Disallowing
  <2> QED BY <2>2, <2>3, <2>4, <2>5 DEF LInv
<1>2. ASSUME MachineDisallows PROVE LInv'
  <2> USE <1>2 DEF MachineDisallows
  <2>1. /\ suspend_disallowances' \subseteq Ids /\ CountMeansFree' /\ SharedLockFollows'
        /\ wakeLocks' \subseteq InhibitionIds \cup {MachineId, CallbackLock, SharedLock}
        /\ lockWrite' \in {"none", "acquire", "release"} /\ countIsCurrent' \in BOOLEAN
        /\ Disallowing' = Disallowing \cup {MachineId}
    BY DisallowKeeps
  <2>2. LocksTyped'
    BY <2>1 DEF LInv, LocksTyped
  <2>3. LockoutCounts'
    BY DEF LInv, LockoutCounts
  <2>4. InhibitionsKept'
    BY <2>1 DEF LInv, InhibitionsKept
  <2> QED BY <2>1, <2>2, <2>3, <2>4 DEF LInv
<1>3. ASSUME MachineAllows PROVE LInv'
  <2> USE <1>3 DEF MachineAllows
  <2>1. /\ suspend_disallowances' \subseteq Ids /\ CountMeansFree' /\ SharedLockFollows'
        /\ wakeLocks' \subseteq InhibitionIds \cup {MachineId, CallbackLock, SharedLock}
        /\ lockWrite' \in {"none", "acquire", "release"} /\ countIsCurrent' \in BOOLEAN
        /\ Disallowing' = Disallowing \ {MachineId}
    BY AllowKeeps
  <2>2. LocksTyped'
    BY <2>1 DEF LInv, LocksTyped
  <2>3. LockoutCounts'
    BY DEF LInv, LockoutCounts
  <2>4. InhibitionsKept'
    BY <2>1, LockIdsDiffer DEF LInv, LocksTyped, InhibitionsKept
  <2> QED BY <2>1, <2>2, <2>3, <2>4 DEF LInv
<1>4. ASSUME InhibitSuspendFor PROVE LInv'
  <2> USE <1>4 DEF InhibitSuspendFor
  <2>1. PICK name \in InhibitionNames :
          /\ disallow_automatic_suspend(InhibitionId(name, lastInhibition'))
          /\ inhibitionCalls' = inhibitionCalls \cup {InhibitionId(name, lastInhibition')}
    BY DEF InhibitionId
  <2> DEFINE i == InhibitionId(name, lastInhibition')
  <2>2. lastInhibition' \in 1 .. MaxInhibitions /\ lastInhibition' = lastInhibition + 1
        /\ lastInhibition \in 0 .. MaxInhibitions
    BY PowerLocksAssumption DEF LInv, LocksTyped
  <2>3. i \in InhibitionIds /\ i.id = lastInhibition'
    BY <2>2, LockIdsDiffer
  <2> HIDE DEF i
  <2>4. disallow_automatic_suspend(i) /\ inhibitionCalls' = inhibitionCalls \cup {i}
    BY <2>1 DEF i
  <2>5. /\ suspend_disallowances' \subseteq Ids /\ CountMeansFree' /\ SharedLockFollows'
        /\ wakeLocks' \subseteq InhibitionIds \cup {MachineId, CallbackLock, SharedLock}
        /\ lockWrite' \in {"none", "acquire", "release"} /\ countIsCurrent' \in BOOLEAN
        /\ Disallowing' = Disallowing \cup {i}
    BY <2>3, <2>4, DisallowKeeps
  <2>6. LocksTyped'
    BY <2>2, <2>3, <2>4, <2>5 DEF LInv, LocksTyped
  <2>7. LockoutCounts'
    BY DEF LInv, LockoutCounts
  <2>8. InhibitionsKept'
    <3>1. \A j \in inhibitionCalls \cup inhibitions : j.id \in 1 .. MaxInhibitions /\ j.id <= lastInhibition
      BY LockIdsDiffer DEF LInv, LocksTyped, InhibitionsKept
    <3>2. \A j \in inhibitionCalls \cup inhibitions : j.id <= lastInhibition' /\ j # i
      BY <3>1, <2>2, <2>3
    <3>3. i.id <= lastInhibition'
      BY <2>2, <2>3
    <3> QED BY <3>2, <3>3, <2>4, <2>5 DEF LInv, InhibitionsKept
  <2> QED BY <2>5, <2>6, <2>7, <2>8 DEF LInv
<1>5. ASSUME ScheduleEnd PROVE LInv'
  <2> USE <1>5 DEF ScheduleEnd
  <2>1. LocksTyped' /\ LockoutCounts' /\ CountMeansFree'
    BY DEF LInv, LocksTyped, LockoutCounts, CountMeansFree
  <2>2. SharedLockFollows'
    BY DEF LInv, SharedLockFollows
  <2>3. InhibitionsKept'
    BY DEF LInv, InhibitionsKept, Disallowing
  <2> QED BY <2>1, <2>2, <2>3 DEF LInv
<1>6. ASSUME EndInhibition PROVE LInv'
  <2> USE <1>6 DEF EndInhibition
  <2>1. PICK i \in inhibitions : allow_automatic_suspend(i) /\ inhibitions' = inhibitions \ {i}
    BY LockIdsDiffer DEF LInv, LocksTyped
  <2>2. /\ suspend_disallowances' \subseteq Ids /\ CountMeansFree' /\ SharedLockFollows'
        /\ wakeLocks' \subseteq InhibitionIds \cup {MachineId, CallbackLock, SharedLock}
        /\ lockWrite' \in {"none", "acquire", "release"} /\ countIsCurrent' \in BOOLEAN
        /\ Disallowing' = Disallowing \ {i}
    <3>1. i \in Ids
      BY DEF LInv, LocksTyped
    <3> QED BY <2>1, <3>1, AllowKeeps
  <2>3. LocksTyped'
    BY <2>1, <2>2 DEF LInv, LocksTyped
  <2>4. LockoutCounts'
    BY DEF LInv, LockoutCounts
  <2>5. InhibitionsKept'
    BY <2>1, <2>2 DEF LInv, InhibitionsKept
  <2> QED BY <2>2, <2>3, <2>4, <2>5 DEF LInv
<1>7. ASSUME \/ AutosuspendEnable \/ ReadWakeupCount \/ WaitLockout \/ WriteWakeupCount
             \/ WriteSuspendState \/ PostLockout \/ SystemWakesUp \/ WakeupEvent
      PROVE  LInv'
  <2> USE <1>7 DEF AutosuspendEnable, ReadWakeupCount, WaitLockout, WriteWakeupCount,
                   WriteSuspendState, PostLockout, SystemWakesUp, WakeupEvent, Thread,
                   UserSpaceRuns
  <2>1. UNCHANGED <<powerControl, suspend_disallowances, lockWrite, wakeLocks, inhibitionVars>>
    OBVIOUS
  <2>2. LocksTyped'
    BY <2>1 DEF LInv, LocksTyped
  <2>3. LockoutCounts'
    BY DEF LInv, LocksTyped, LockoutCounts
  <2>4. CountMeansFree'
    BY DEF LInv, LocksTyped, CountMeansFree
  <2>5. SharedLockFollows' /\ InhibitionsKept'
    BY <2>1 DEF LInv, SharedLockFollows, InhibitionsKept, Disallowing
  <2> QED BY <2>2, <2>3, <2>4, <2>5 DEF LInv
<1>8. ASSUME WakeupCallback \/ CallbackLockEnds PROVE LInv'
  <2> USE <1>8 DEF WakeupCallback, CallbackLockEnds, AcquireLock, ReleaseLock, Thread, UserSpaceRuns
  <2>1. /\ UNCHANGED <<powerControl, suspend_disallowances, lockWrite, inhibitionVars>>
        /\ wakeLocks' \in {wakeLocks \cup {CallbackLock}, wakeLocks \ {CallbackLock}}
    OBVIOUS
  <2>2. LocksTyped'
    BY <2>1 DEF LInv, LocksTyped
  <2>3. LockoutCounts' /\ CountMeansFree'
    BY DEF LInv, LocksTyped, LockoutCounts, CountMeansFree
  <2>4. SharedLockFollows'
    BY <2>1, LockIdsDiffer DEF LInv, SharedLockFollows
  <2>5. InhibitionsKept'
    BY <2>1, LockIdsDiffer DEF LInv, LocksTyped, InhibitionsKept, Disallowing
  <2> QED BY <2>2, <2>3, <2>4, <2>5 DEF LInv
<1>9. ASSUME UNCHANGED powerVars PROVE LInv'
  BY <1>9 DEF LInv, LocksTyped, LockoutCounts, CountMeansFree, SharedLockFollows,
              InhibitionsKept, Disallowing
<1> QED
  BY <1>1, <1>2, <1>3, <1>4, <1>5, <1>6, <1>7, <1>8, <1>9 DEF PowerNext

\* The invariant holds in every reachable state.
THEOREM LocksInvariant == PowerSpec => []LInv
BY InitLInv, NextLInv, PTL DEF PowerSpec

-----------------------------------------------------------------------------
\* While the shared lock is being taken or let go of nothing is promised; when
\* nothing is being written, what is promised is what is disallowed.
LEMMA PromiseIsKept ==
  ASSUME LInv
  PROVE  /\ inhibitions \subseteq Disallowed
         /\ suspendThread = "asleep" => Disallowed = {}
         /\ countIsCurrent => Disallowed = {}
         /\ lockWrite = "none" => Disallowed = Disallowing \ {CallbackLock}
         /\ lockWrite # "none" /\ SharedLock \notin wakeLocks => Disallowed = {}
<1> USE DEF LInv, LocksTyped, CountMeansFree, SharedLockFollows, InhibitionsKept, Disallowing,
            Disallowed
<1>1. CASE powerControl = "logind"
  BY <1>1, LockIdsDiffer
<1>2. CASE powerControl = "libsuspend"
  BY <1>2, LockIdsDiffer
<1> QED BY <1>1, <1>2

\* Of overlapping inhibitions, however many, of any names, under either
\* control, and wherever libsuspend's thread is: each that
\* RealTemporarySuspendInhibition has made and that has not timed out is
\* disallowed.
THEOREM InhibitionsCorrect == PowerSpec => []InhibitionsHold
<1>1. LInv => InhibitionsHold
  BY PromiseIsKept DEF InhibitionsHold
<1> QED BY <1>1, LocksInvariant, PTL

\* A step of the system is a step of the port, or nothing that it promises
\* anything about.
LEMMA StepIsPortStep ==
  ASSUME LInv, LInv', [PowerNext]_powerVars
  PROVE  [LocksPort!LocksNext]_(LocksPort!locksVars)
<1> DEFINE Ids == InhibitionIds \cup {MachineId}
<1> DEFINE Step == [LocksPort!LocksNext]_(LocksPort!locksVars)
<1> USE DEF powerVars, threadVars, inhibitionVars
<1>0. ASSUME UNCHANGED Disallowed, UNCHANGED UserSpaceRuns PROVE Step
  BY <1>0 DEF LocksPort!locksVars
<1>a. ASSUME NEW i \in Ids, UNCHANGED UserSpaceRuns,
             Disallowed' \in {Disallowed \cup {i}, Disallowed \ {i}, Disallowed}
      PROVE  Step
  BY <1>a DEF LocksPort!LocksNext, LocksPort!locksVars, LocksPort!disallow_automatic_suspend,
              LocksPort!allow_automatic_suspend
<1>b. Disallowed' = Disallowed
        \/ ~UNCHANGED <<powerControl, suspend_disallowances, wakeLocks>>
  BY DEF Disallowed
<1>d. ASSUME NEW i \in Ids, disallow_automatic_suspend(i), UNCHANGED <<powerControl, threadVars>>
      PROVE  Disallowed' \in {Disallowed \cup {i}, Disallowed}
  <2>1. CASE powerControl = "logind"
    BY <1>d, <2>1, LockIdsDiffer DEF disallow_automatic_suspend, AcquireLock, Disallowed
  <2>2. CASE powerControl = "libsuspend"
    BY <1>d, <2>2 DEF disallow_automatic_suspend, Disallowed
  <2> QED BY <2>1, <2>2 DEF LInv, LocksTyped
<1>e. ASSUME NEW i \in Ids, allow_automatic_suspend(i), UNCHANGED <<powerControl, threadVars>>
      PROVE  Disallowed' \in {Disallowed \ {i}, Disallowed}
  <2>1. CASE powerControl = "logind"
    BY <1>e, <2>1, LockIdsDiffer DEF allow_automatic_suspend, ReleaseLock, Disallowed
  <2>2. CASE powerControl = "libsuspend"
    BY <1>e, <2>2 DEF allow_automatic_suspend, Disallowed
  <2> QED BY <2>1, <2>2 DEF LInv, LocksTyped
<1>1. ASSUME WriteLock PROVE Step
  <2> USE <1>1 DEF WriteLock, AcquireLock, ReleaseLock
  <2>0. UNCHANGED UserSpaceRuns /\ powerControl = "libsuspend" /\ UNCHANGED powerControl
    BY DEF UserSpaceRuns, LInv, LocksTyped, SharedLockFollows
  <2>1. CASE lockWrite = "acquire"
    <3>1. PICK i \in Ids : suspend_disallowances = {i}
      BY <2>0, <2>1 DEF LInv, SharedLockFollows
    <3>2. Disallowed = {} /\ Disallowed' = {i}
      BY <2>0, <2>1, <3>1 DEF LInv, SharedLockFollows, Disallowed
    <3> QED BY <2>0, <3>2, <1>a
  <2>2. CASE lockWrite = "release"
    <3>1. Disallowed = {} /\ Disallowed' = {}
      BY <2>0, <2>2 DEF LInv, SharedLockFollows, Disallowed
    <3> QED BY <2>0, <3>1, <1>0
  <2> QED BY <2>1, <2>2
<1>2. ASSUME MachineDisallows \/ MachineAllows PROVE Step
  <2>1. UNCHANGED UserSpaceRuns
    BY <1>2 DEF MachineDisallows, MachineAllows, UserSpaceRuns
  <2>2. Disallowed' \in {Disallowed \cup {MachineId}, Disallowed \ {MachineId}, Disallowed}
    BY <1>2, <1>d, <1>e DEF MachineDisallows, MachineAllows
  <2> QED BY <2>1, <2>2, <1>a
<1>3. ASSUME InhibitSuspendFor PROVE Step
  <2>1. UNCHANGED <<powerControl, threadVars>> /\ UNCHANGED UserSpaceRuns
    BY <1>3 DEF InhibitSuspendFor, UserSpaceRuns
  <2>2. PICK name \in InhibitionNames :
          disallow_automatic_suspend(InhibitionId(name, lastInhibition'))
    BY <1>3 DEF InhibitSuspendFor
  <2>3. lastInhibition' \in 1 .. MaxInhibitions
    BY <1>3, PowerLocksAssumption DEF InhibitSuspendFor, LInv, LocksTyped
  <2>4. InhibitionId(name, lastInhibition') \in Ids
    BY <2>3, LockIdsDiffer
  <2> QED BY <2>1, <2>2, <2>4, <1>d, <1>a
<1>4. ASSUME EndInhibition PROVE Step
  <2>1. UNCHANGED <<powerControl, threadVars>> /\ UNCHANGED UserSpaceRuns
    BY <1>4 DEF EndInhibition, UserSpaceRuns
  <2>2. PICK i \in inhibitions : allow_automatic_suspend(InhibitionId(i.name, i.id))
    BY <1>4 DEF EndInhibition
  <2>3. i \in Ids /\ InhibitionId(i.name, i.id) = i
    BY LockIdsDiffer DEF LInv, LocksTyped
  <2> QED BY <2>1, <2>2, <2>3, <1>e, <1>a
<1>5. ASSUME ScheduleEnd \/ AutosuspendEnable \/ ReadWakeupCount \/ WaitLockout
               \/ WriteWakeupCount \/ PostLockout \/ WakeupEvent
      PROVE  Step
  <2>1. UNCHANGED UserSpaceRuns /\ UNCHANGED <<powerControl, suspend_disallowances, wakeLocks>>
    BY <1>5 DEF ScheduleEnd, AutosuspendEnable, ReadWakeupCount, WaitLockout, WriteWakeupCount,
                PostLockout, WakeupEvent, Thread, UserSpaceRuns
  <2> QED BY <2>1, <1>b, <1>0
<1>6. ASSUME WakeupCallback \/ CallbackLockEnds PROVE Step
  <2>1. UNCHANGED UserSpaceRuns /\ UNCHANGED <<powerControl, suspend_disallowances>>
        /\ wakeLocks' \in {wakeLocks \cup {CallbackLock}, wakeLocks \ {CallbackLock}}
    BY <1>6 DEF WakeupCallback, CallbackLockEnds, AcquireLock, ReleaseLock, Thread, UserSpaceRuns
  <2>2. UNCHANGED Disallowed
    BY <2>1, LockIdsDiffer DEF Disallowed
  <2> QED BY <2>1, <2>2, <1>0
<1>7. ASSUME WriteSuspendState PROVE Step
  <2>1. UNCHANGED <<powerControl, suspend_disallowances, wakeLocks>>
    BY <1>7 DEF WriteSuspendState
  <2>2. UNCHANGED Disallowed
    BY <2>1, <1>b
  <2>3. CASE countIsCurrent /\ Thread("write_state", "asleep")
    <3>1. Disallowed = {} /\ UserSpaceRuns /\ ~UserSpaceRuns'
      BY <2>3, PromiseIsKept DEF Thread, UserSpaceRuns
    <3> QED BY <2>2, <3>1 DEF LocksPort!LocksNext, LocksPort!FallAsleep
  <2>4. CASE ~countIsCurrent /\ Thread("write_state", "post")
    <3>1. UNCHANGED UserSpaceRuns
      BY <2>4 DEF Thread, UserSpaceRuns
    <3> QED BY <2>2, <3>1, <1>0
  <2> QED BY <1>7, <2>3, <2>4 DEF WriteSuspendState
<1>8. ASSUME SystemWakesUp PROVE Step
  <2>1. UNCHANGED Disallowed
    BY <1>8, <1>b DEF SystemWakesUp
  <2>2. ~UserSpaceRuns /\ UserSpaceRuns'
    BY <1>8 DEF SystemWakesUp, Thread, UserSpaceRuns
  <2> QED BY <2>1, <2>2 DEF LocksPort!LocksNext, LocksPort!WakeUp
<1>9. ASSUME UNCHANGED powerVars PROVE Step
  BY <1>9, <1>b, <1>0 DEF UserSpaceRuns
<1> QED
  BY <1>1, <1>2, <1>3, <1>4, <1>5, <1>6, <1>7, <1>8, <1>9 DEF PowerNext

\* Either control, with the inhibitions, libsuspend's thread and the kernel's
\* count of wakeup events, keeps what the port SystemPowerControl promises:
\* no step puts the system to sleep while an id is disallowed.
THEOREM LocksRefinePort == PowerSpec => ImplementsSuspendLocks
<1>1. PowerInit => LocksPort!LocksInit
  BY DEF PowerInit, LocksPort!LocksInit, Disallowed, UserSpaceRuns
<1>2. LInv /\ LInv' /\ [PowerNext]_powerVars => [LocksPort!LocksNext]_(LocksPort!locksVars)
  BY StepIsPortStep
<1> QED
  BY <1>1, <1>2, LocksInvariant, PTL DEF PowerSpec, ImplementsSuspendLocks, LocksPort!LocksSpec

-----------------------------------------------------------------------------
(* The wakeup services.                                                    *)

\* Cookies are in the table, given or cancelled, and never two of these; on the
\* timerfd there is a wakeup for what it is set to, and one that is due when it
\* has gone off: whatever changes the table sets it again.
WakeupsTyped ==
  /\ wakeupService \in {"dev_alarm", "timerfd"} /\ lastCookie \in Nat
  /\ wallClock \in Nat /\ wallClock < Disarmed
  /\ \A w \in wakeups : w.at \in Nat /\ w.cookie \in 1 .. lastCookie

CookiesOnce ==
  /\ cookie_pool = {w.cookie : w \in wakeups}
  /\ \A v, w \in wakeups : v.cookie = w.cookie => v = w
  /\ \A g \in wakeupsGiven : /\ g.cookie \in 1 .. lastCookie /\ g.cookie \notin wakeupsCancelled
                             /\ \A w \in wakeups : w.cookie # g.cookie
  /\ \A g, h \in wakeupsGiven : g.cookie = h.cookie => g = h
  /\ \A c \in wakeupsCancelled : c \in 1 .. lastCookie /\ \A w \in wakeups : w.cookie # c

TimerfdFollows ==
  wakeupService = "timerfd" =>
    /\ wakeupThread = "none"
    /\ alarmSetTo # Disarmed => \E w \in wakeups : w.at = alarmSetTo
    /\ alarmPending => \E w \in wakeups : w.at <= wallClock
    /\ \A g \in wakeupsGiven : g.time >= g.at

WakeInv == WakeupsTyped /\ CookiesOnce /\ TimerfdFollows

\* The first wakeup of a table is one that no other is before.
LEMMA FirstIsFirst ==
  ASSUME NEW T, T # {}, \A w \in T : w.at \in Nat /\ w.cookie \in Nat
  PROVE  First(T) \in T /\ \A w \in T : First(T).at <= w.at
<1>1. PICK a \in {w.at : w \in T} : \A b \in {w.at : w \in T} : a <= b
  <2>1. {w.at : w \in T} \subseteq Nat /\ {w.at : w \in T} # {}
    OBVIOUS
  <2> QED BY <2>1, NatMinimum
<1> DEFINE C == {c \in Nat : \E w \in T : w.at = a /\ w.cookie = c}
<1>2. PICK c \in C : \A d \in C : c <= d
  <2>1. C \subseteq Nat /\ C # {}
    BY <1>1
  <2> HIDE DEF C
  <2> QED BY <2>1, NatMinimum
<1>3. PICK w \in T : w.at = a /\ w.cookie = c
  BY <1>2
<1>4. \A v \in T : w.at < v.at \/ (w.at = v.at /\ w.cookie <= v.cookie)
  <2> SUFFICES ASSUME NEW v \in T PROVE w.at < v.at \/ (w.at = v.at /\ w.cookie <= v.cookie)
    OBVIOUS
  <2>1. w.at <= v.at /\ w.at \in Nat /\ v.at \in Nat
    BY <1>1, <1>3
  <2>2. v.at = a => c <= v.cookie
    BY <1>2
  <2> QED BY <1>3, <2>1, <2>2
<1>5. First(T) \in T /\ \A v \in T : First(T).at < v.at \/ (First(T).at = v.at /\ First(T).cookie <= v.cookie)
  BY <1>4 DEF First
<1> QED BY <1>5

\* The timerfd is set to the time of a wakeup, or not at all.
LEMMA SetToOne ==
  ASSUME NEW T, \A w \in T : w.at \in Nat, wakeupService = "timerfd", MaxTime \in Nat,
         NextAlarm(T, TRUE) # Disarmed
  PROVE  \E w \in T : w.at = NextAlarm(T, TRUE)
<1> DEFINE S == {w.at : w \in T} \cup {Disarmed}
<1>1. S \subseteq Nat /\ S # {}
  BY DEF Disarmed
<1>2. NextAlarm(T, TRUE) = CHOOSE x \in S : \A y \in S : x <= y
  BY DEF NextAlarm, Min
<1>3. NextAlarm(T, TRUE) \in S
  <2> HIDE DEF S
  <2> QED BY <1>1, <1>2, NatMinimum
<1> QED BY <1>3

\* No wakeup is scheduled.
LEMMA InitWakeInv == WakeupsInit => WakeInv
BY WakeupsAssumption DEF WakeupsInit, WakeInv, WakeupsTyped, CookiesOnce, TimerfdFollows, Disarmed

\* The table changes, and the alarm is set again.
LEMMA ResetKeepsTimerfd ==
  ASSUME WakeInv, UNCHANGED <<wakeupService, wakeupThread, wallClock>>, ResetAlarm(wakeups', TRUE),
         WakeupsTyped', wakeupService = "timerfd" => \A g \in wakeupsGiven' : g.time >= g.at
  PROVE  TimerfdFollows'
<1> SUFFICES ASSUME wakeupService = "timerfd"
             PROVE  /\ alarmSetTo' # Disarmed => \E w \in wakeups' : w.at = alarmSetTo'
                    /\ ~alarmPending'
  BY DEF TimerfdFollows, WakeInv
<1>1. alarmSetTo' = NextAlarm(wakeups', TRUE) /\ ~alarmPending'
  BY DEF ResetAlarm
<1>2. \A w \in wakeups' : w.at \in Nat
  BY DEF WakeupsTyped
<1> QED BY <1>1, <1>2, SetToOne, WakeupsAssumption

\* A wakeup is taken out of the table to be given.
LEMMA GivenKeepsCookies ==
  ASSUME WakeInv, NEW w \in wakeups, EraseWakeup(w), UNCHANGED <<lastCookie, wakeupsCancelled>>,
         NEW t, wakeupsGiven' = wakeupsGiven \cup {[at |-> w.at, cookie |-> w.cookie, time |-> t]}
  PROVE  CookiesOnce'
<1>1. /\ wakeups' = wakeups \ {w} /\ cookie_pool' = cookie_pool \ {w.cookie}
      /\ CookiesOnce /\ w.cookie \in 1 .. lastCookie
  BY DEF EraseWakeup, WakeInv, WakeupsTyped
<1>2. cookie_pool' = {v.cookie : v \in wakeups'}
  BY <1>1 DEF CookiesOnce
<1> DEFINE x == [at |-> w.at, cookie |-> w.cookie, time |-> t]
<1>3. x.cookie = w.cookie /\ wakeupsGiven' = wakeupsGiven \cup {x}
  OBVIOUS
<1> HIDE DEF x
<1> QED BY <1>1, <1>2, <1>3 DEF CookiesOnce

\* Each step, of the callers, of the clock and the alarm, and of the thread.
LEMMA NextWakeInv ==
  ASSUME WakeInv, [WakeupsNext]_wakeupVars
  PROVE  WakeInv'
<1> USE DEF WakeInv
<1>1. CASE schedule_wakeup_at
  <2>1. PICK at \in 1 .. MaxTime : wakeups' = wakeups \cup {[at |-> at, cookie |-> lastCookie + 1]}
    BY <1>1 DEF schedule_wakeup_at
  <2> DEFINE x == [at |-> at, cookie |-> lastCookie + 1]
  <2>2. /\ x.at \in Nat /\ x.cookie = lastCookie + 1 /\ wakeups' = wakeups \cup {x}
        /\ lastCookie' = lastCookie + 1 /\ cookie_pool' = cookie_pool \cup {x.cookie}
        /\ ResetAlarm(wakeups', TRUE)
        /\ UNCHANGED <<wakeupService, wallClock, wakeupThread, wakeupsGiven, wakeupsCancelled>>
    <3>1. /\ lastCookie' = lastCookie + 1 /\ cookie_pool' = cookie_pool \cup {lastCookie'}
          /\ ResetAlarm(wakeups', TRUE)
          /\ UNCHANGED <<wakeupService, wallClock, wakeupThread, wakeupsGiven, wakeupsCancelled>>
      BY <1>1 DEF schedule_wakeup_at, givenVars
    <3>2. x.at \in Nat /\ x.cookie = lastCookie + 1 /\ wakeups' = wakeups \cup {x}
      BY <2>1
    <3> QED BY <3>1, <3>2
  <2> HIDE DEF x
  <2>3. WakeupsTyped'
    BY <2>2 DEF WakeupsTyped
  <2>4. \A c \in 1 .. lastCookie : c \in 1 .. lastCookie' /\ c # x.cookie
    BY <2>2 DEF WakeupsTyped
  <2>5. CookiesOnce'
    <3>1. cookie_pool' = {w.cookie : w \in wakeups'}
      BY <2>2 DEF CookiesOnce
    <3>2. \A v, w \in wakeups' : v.cookie = w.cookie => v = w
      BY <2>2, <2>4 DEF CookiesOnce, WakeupsTyped
    <3> QED BY <2>2, <2>4, <3>1, <3>2 DEF CookiesOnce
  <2> QED BY <2>2, <2>3, <2>5, ResetKeepsTimerfd DEF TimerfdFollows
<1>2. CASE cancel_wakeup
  <2>1. PICK c \in 1 .. lastCookie :
          LET found == {w \in wakeups : w.cookie = c}
          IN /\ wakeups' = wakeups \ found
             /\ cookie_pool' = IF found = {} THEN cookie_pool ELSE cookie_pool \ {c}
             /\ wakeupsCancelled' = IF found = {} THEN wakeupsCancelled ELSE wakeupsCancelled \cup {c}
    BY <1>2 DEF cancel_wakeup
  <2>2. /\ ResetAlarm(wakeups', TRUE)
        /\ UNCHANGED <<wakeupService, wallClock, wakeupThread, wakeupsGiven, lastCookie>>
    BY <1>2 DEF cancel_wakeup
  <2>3. WakeupsTyped'
    BY <2>1, <2>2 DEF WakeupsTyped
  <2>4. CookiesOnce'
    <3>1. CASE {w \in wakeups : w.cookie = c} = {}
      <4>1. wakeups' = wakeups /\ cookie_pool' = cookie_pool /\ wakeupsCancelled' = wakeupsCancelled
        BY <2>1, <3>1
      <4> QED BY <2>2, <4>1 DEF CookiesOnce
    <3>2. CASE {w \in wakeups : w.cookie = c} # {}
      <4>1. /\ cookie_pool' = cookie_pool \ {c} /\ wakeupsCancelled' = wakeupsCancelled \cup {c}
            /\ \A w : w \in wakeups' <=> w \in wakeups /\ w.cookie # c
        BY <2>1, <3>2
      <4>2. cookie_pool' = {w.cookie : w \in wakeups'}
        BY <4>1 DEF CookiesOnce
      <4>3. \A g \in wakeupsGiven : g.cookie # c
        BY <3>2 DEF CookiesOnce
      <4> QED BY <2>2, <4>1, <4>2, <4>3 DEF CookiesOnce
    <3> QED BY <3>1, <3>2
  <2> QED BY <2>2, <2>3, <2>4, ResetKeepsTimerfd DEF TimerfdFollows
<1>3. CASE TimerfdReadable
  <2> DEFINE w == First(wakeups)
  <2>1. /\ EraseWakeup(w) /\ ResetAlarm(wakeups', TRUE) /\ wakeupService = "timerfd" /\ alarmPending
        /\ wakeupsGiven' = wakeupsGiven \cup {[at |-> w.at, cookie |-> w.cookie, time |-> wallClock]}
        /\ UNCHANGED <<wakeupService, wallClock, lastCookie, wakeupThread, wakeupsCancelled>>
    BY <1>3 DEF TimerfdReadable
  <2>2. PICK v \in wakeups : v.at <= wallClock
    BY <2>1 DEF TimerfdFollows
  <2>3. w \in wakeups /\ w.at <= v.at
    BY <2>2, FirstIsFirst DEF WakeupsTyped
  <2> HIDE DEF w
  <2>4. WakeupsTyped'
    BY <2>1 DEF WakeupsTyped, EraseWakeup
  <2>5. w.at <= wallClock
    BY <2>2, <2>3 DEF WakeupsTyped
  <2>6. \A g \in wakeupsGiven' : g.time >= g.at
    BY <2>1, <2>5 DEF TimerfdFollows, WakeupsTyped
  <2> QED BY <2>1, <2>3, <2>4, <2>6, GivenKeepsCookies, ResetKeepsTimerfd
<1>4. CASE TakeWakeup
  <2>1. wakeupService # "timerfd" /\ UNCHANGED <<wakeupService, wallClock, lastCookie, wakeupsCancelled>>
    BY <1>4 DEF TakeWakeup, TimerfdFollows
  <2>2. CASE wakeupsRunning /\ wakeups # {}
    <3> DEFINE w == First(wakeups)
    <3>1. /\ EraseWakeup(w)
          /\ wakeupsGiven' = wakeupsGiven \cup {[at |-> w.at, cookie |-> w.cookie, time |-> wallClock]}
      BY <1>4, <2>2 DEF TakeWakeup
    <3>2. w \in wakeups
      BY <2>2, FirstIsFirst DEF WakeupsTyped
    <3> HIDE DEF w
    <3>3. WakeupsTyped'
      BY <2>1, <3>1 DEF WakeupsTyped, EraseWakeup
    <3> QED BY <2>1, <3>1, <3>2, <3>3, GivenKeepsCookies DEF TimerfdFollows
  <2>3. CASE ~(wakeupsRunning /\ wakeups # {})
    BY <1>4, <2>1, <2>3 DEF TakeWakeup, tableVars, WakeupsTyped, CookiesOnce, TimerfdFollows
  <2> QED BY <2>2, <2>3
<1>5. CASE AlarmFires
  <2>1. /\ alarmSetTo <= wallClock /\ alarmSetTo' = Disarmed
        /\ UNCHANGED <<wakeupService, wallClock, wakeups, cookie_pool, lastCookie, wakeupThread,
                       wakeupsGiven, wakeupsCancelled>>
    BY <1>5 DEF AlarmFires, tableVars, givenVars
  <2>2. alarmSetTo # Disarmed
    BY <2>1, WakeupsAssumption DEF WakeupsTyped, Disarmed
  <2> QED BY <2>1, <2>2 DEF WakeupsTyped, CookiesOnce, TimerfdFollows
<1>6. CASE WallClockTicks
  <2>1. /\ wallClock < MaxTime /\ wallClock' = wallClock + 1
        /\ UNCHANGED <<wakeupService, wakeups, cookie_pool, lastCookie, wakeupThread, alarmSetTo,
                       alarmPending, wakeupsGiven, wakeupsCancelled>>
    BY <1>6 DEF WallClockTicks, tableVars, givenVars, hardwareVars
  <2>2. WakeupsTyped'
    BY <2>1, WakeupsAssumption DEF WakeupsTyped, Disarmed
  <2>3. \A w \in wakeups : w.at <= wallClock => w.at <= wallClock'
    BY <2>1 DEF WakeupsTyped
  <2> QED BY <2>1, <2>2, <2>3 DEF CookiesOnce, TimerfdFollows
<1>7. CASE ResetAndWait
  BY <1>7 DEF ResetAndWait, WakeupsTyped, CookiesOnce, TimerfdFollows, tableVars, givenVars
<1>8. CASE AlarmWaitReturns \/ CallWakeupHandler
  BY <1>8 DEF AlarmWaitReturns, CallWakeupHandler, WakeupsTyped, CookiesOnce, TimerfdFollows,
     tableVars, hardwareVars, givenVars
<1>9. CASE StopWakeups
  BY <1>9 DEF StopWakeups, WakeupsTyped, CookiesOnce, TimerfdFollows, tableVars, givenVars
<1>10. CASE UNCHANGED wakeupVars
  BY <1>10 DEF wakeupVars, WakeupsTyped, CookiesOnce, TimerfdFollows, tableVars, hardwareVars, givenVars
<1> QED
  BY <1>1, <1>2, <1>3, <1>4, <1>5, <1>6, <1>7, <1>8, <1>9, <1>10 DEF WakeupsNext

\* Each wakeup is given once, never after its cancellation, and with a timerfd
\* never before its time, whatever the order of the table.
THEOREM WakeupsCorrect == WakeupsSpec => []WakeupsAreSound
<1>1. WakeInv => WakeupsAreSound
  BY DEF WakeInv, CookiesOnce, TimerfdFollows, WakeupsAreSound, CookiesAreAccountedFor, TimerfdIsNeverEarly
<1>2. WakeInv /\ [WakeupsNext]_wakeupVars => WakeInv'
  BY NextWakeInv
<1> QED BY <1>1, <1>2, InitWakeInv, PTL DEF WakeupsSpec

-----------------------------------------------------------------------------
(* The algorithm of autobrightness, its sensor and its debounces.          *)
(*                                                                         *)
(* Readings are handed to the Backlight loop from another thread, and a    *)
(* task of that loop may stop the algorithm while they wait.  It joins the *)
(* thread first: so readings of an earlier period are all before the call  *)
(* that starts the next (ReadingsGoWithPeriod), and find the algorithm     *)
(* stopped.                                                                *)

CallTasks == [task : {"dim", "normal", "off", "enable", "disable", "value"}, value : Nat]
Readings == [light : Lights, period : Nat]
LightTasks == [task : {"light"}, reading : Readings]
BacklightTasks == CallTasks \cup LightTasks
Debounces == [seqnum : Nat, period : Nat]

LightTyped ==
  /\ backlightQueue \in Seq(BacklightTasks) /\ lightsAveraged \subseteq Readings
  /\ started \in BOOLEAN /\ debouncing \in BOOLEAN /\ sensorEnabled \in BOOLEAN
  /\ debouncing_seqnum \in Nat /\ litPeriod \in Nat /\ debounceTimers \subseteq Debounces
  /\ backlightLoop \in {"idle", "waiting"} /\ lightLoop \in {"idle", "enable", "disable", "join"}
  /\ backlightLoop = "waiting" <=> lightLoop # "idle"

\* The daemon's call waits for its task, on the one loop or the other.
OneCallIsQueued ==
  /\ \A i, j \in DOMAIN backlightQueue :
       backlightQueue[i] \in CallTasks /\ backlightQueue[j] \in CallTasks => i = j
  /\ lightLoop # "idle" => brightnessCall # "none"
  /\ brightnessCall = "none" \/ lightLoop # "idle" =>
       \A i \in DOMAIN backlightQueue : backlightQueue[i] \notin CallTasks

\* The sensor is read while the algorithm is started, and until the thread has
\* been joined.
SensorGoesWithPeriod ==
  /\ lightLoop = "enable" => started
  /\ lightLoop \in {"disable", "join"} => ~started
  /\ ~started /\ lightLoop # "disable" => ~sensorEnabled
  /\ ~sensorEnabled /\ lightLoop # "join" => sensorThread = "none"

\* Readings of an earlier period are all before the call that starts the next.
ReadingsGoWithPeriod ==
  /\ started => \A i \in DOMAIN backlightQueue :
       backlightQueue[i] \in LightTasks => backlightQueue[i].reading.period = litPeriod
  /\ ~started => \A i, j \in DOMAIN backlightQueue :
       backlightQueue[i] \in CallTasks /\ backlightQueue[j] \in LightTasks => j < i
  /\ \A r \in lightsAveraged : started /\ r.period = litPeriod

\* A timer that is void stays so: the numbers only grow.
DebouncesOnce ==
  /\ \A t \in debounceTimers : t.seqnum <= debouncing_seqnum
  /\ debouncing => [seqnum |-> debouncing_seqnum, period |-> litPeriod] \in debounceTimers
  /\ \A t \in debounceTimers : t.seqnum = debouncing_seqnum => debouncing /\ t.period = litPeriod

LightInv ==
  LightTyped /\ OneCallIsQueued /\ SensorGoesWithPeriod /\ ReadingsGoWithPeriod /\ DebouncesOnce

\* Calls and readings are told apart by the task.
LEMMA KindsOfBacklightTasks ==
  ASSUME NEW t \in BacklightTasks
  PROVE  /\ t.task = "light" <=> t \in LightTasks
         /\ t \in LightTasks <=> t \notin CallTasks
         /\ t \in LightTasks => t.reading \in Readings
         /\ t \in CallTasks => t.value \in Nat
BY DEF BacklightTasks, CallTasks, LightTasks

\* The algorithm is started or stopped.
LEMMA PeriodBegins ==
  ASSUME LightTyped, DebouncesOnce, NEW on \in BOOLEAN, StartOrStop(on)
  PROVE  /\ started' = on /\ litPeriod' \in Nat /\ debouncing' \in BOOLEAN /\ debouncing_seqnum' \in Nat
         /\ lightsAveraged' \subseteq Readings /\ UNCHANGED debounceTimers
         /\ DebouncesOnce'
         /\ started = on => UNCHANGED <<lightsAveraged, litPeriod>>
         /\ started # on => lightsAveraged' = {}
<1>1. CASE started = on
  <2>1. /\ started' = on /\ UNCHANGED <<lightsAveraged, debouncing, debouncing_seqnum, debounceTimers>>
        /\ litPeriod' = litPeriod
    BY <1>1 DEF StartOrStop
  <2>2. DebouncesOnce'
    BY <2>1 DEF DebouncesOnce
  <2>3. /\ litPeriod' \in Nat /\ debouncing' \in BOOLEAN /\ debouncing_seqnum' \in Nat
        /\ lightsAveraged' \subseteq Readings
    BY <2>1 DEF LightTyped
  <2> QED BY <1>1, <2>1, <2>2, <2>3
<1>2. CASE started # on
  <2>0. started \in BOOLEAN /\ litPeriod \in Nat /\ debouncing_seqnum \in Nat
    BY DEF LightTyped
  <2>1. /\ debouncing' = FALSE /\ debouncing_seqnum' = debouncing_seqnum + 1 /\ lightsAveraged' = {}
        /\ UNCHANGED debounceTimers /\ started' = on
        /\ litPeriod' = IF on THEN litPeriod + 1 ELSE litPeriod
    BY <1>2, <2>0 DEF StartOrStop, reset
  <2>2. \A t \in debounceTimers : t.seqnum <= debouncing_seqnum' /\ t.seqnum # debouncing_seqnum'
    BY <2>1 DEF Debounces, LightTyped, DebouncesOnce
  <2>3. DebouncesOnce'
    BY <2>1, <2>2 DEF DebouncesOnce
  <2>4. litPeriod' \in Nat
    <3>1. CASE on
      BY <2>0, <2>1, <3>1
    <3>2. CASE ~on
      BY <2>0, <2>1, <3>2
    <3> QED BY <3>1, <3>2
  <2>5. debouncing_seqnum' \in Nat
    BY <2>0, <2>1
  <2>6. debouncing' \in BOOLEAN
    BY <2>1
  <2>7. lightsAveraged' \subseteq Readings
    BY <2>1
  <2> QED BY <1>2, <2>1, <2>3, <2>4, <2>5, <2>6, <2>7
<1> QED BY <1>1, <1>2

\* A debounce is scheduled, if none is.
LEMMA DebounceScheduled ==
  ASSUME LightTyped, DebouncesOnce, UNCHANGED litPeriod, NEW T, T \subseteq debounceTimers,
         debouncing' = TRUE, debouncing_seqnum' = debouncing_seqnum + 1,
         debounceTimers' = T \cup {[seqnum |-> debouncing_seqnum', period |-> litPeriod]}
  PROVE  debouncing_seqnum' \in Nat /\ debounceTimers' \subseteq Debounces /\ DebouncesOnce'
<1> DEFINE x == [seqnum |-> debouncing_seqnum', period |-> litPeriod]
<1>1. /\ debouncing_seqnum' \in Nat /\ debouncing_seqnum < debouncing_seqnum' /\ x \in Debounces
      /\ x.seqnum = debouncing_seqnum' /\ x.period = litPeriod /\ debounceTimers' = T \cup {x}
  BY DEF LightTyped, Debounces
<1>2. \A t \in T : t \in Debounces /\ t.seqnum <= debouncing_seqnum' /\ t.seqnum # debouncing_seqnum'
  BY <1>1 DEF LightTyped, DebouncesOnce, Debounces
<1>3. [seqnum |-> debouncing_seqnum', period |-> litPeriod'] = x
  OBVIOUS
<1> HIDE DEF x
<1> QED BY <1>1, <1>2, <1>3 DEF DebouncesOnce

\* What new_light_value does with a reading of this period, or without one.
LEMMA ReadingUsed ==
  ASSUME LightInv, NEW r \in Readings, started => r.period = litPeriod, new_light_value(r)
  PROVE  /\ UNCHANGED <<started, litPeriod, lightLoop, backlightLoop, brightnessCall>>
         /\ lightsAveraged' \subseteq Readings /\ debouncing' \in BOOLEAN /\ debouncing_seqnum' \in Nat
         /\ debounceTimers' \subseteq Debounces /\ DebouncesOnce'
         /\ \A x \in lightsAveraged' : started /\ x.period = litPeriod
<1>1. LightTyped /\ DebouncesOnce /\ \A x \in lightsAveraged : started /\ x.period = litPeriod
  BY DEF LightInv, ReadingsGoWithPeriod
<1>2. UNCHANGED <<started, litPeriod, lightLoop, backlightLoop, brightnessCall>>
  BY DEF new_light_value
<1>3. CASE UNCHANGED <<debouncing, debouncing_seqnum, debounceTimers>>
  <2>1. lightsAveraged' = lightsAveraged \/ (started /\ lightsAveraged' = lightsAveraged \cup {r})
    BY DEF new_light_value, update_averages
  <2> QED BY <1>1, <1>2, <1>3, <2>1 DEF LightTyped, DebouncesOnce
<1>4. CASE ~UNCHANGED <<debouncing, debouncing_seqnum, debounceTimers>>
  <2>1. started /\ lightsAveraged' = lightsAveraged \cup {r} /\ schedule_debounce
    BY <1>4 DEF new_light_value, update_averages
  <2>2. /\ debouncing' = TRUE /\ debouncing_seqnum' = debouncing_seqnum + 1
        /\ debounceTimers' = debounceTimers \cup {[seqnum |-> debouncing_seqnum', period |-> litPeriod]}
    BY <1>4, <2>1 DEF schedule_debounce
  <2>3. debouncing_seqnum' \in Nat /\ debounceTimers' \subseteq Debounces /\ DebouncesOnce'
    BY <1>1, <1>2, <2>2, DebounceScheduled
  <2> QED BY <1>1, <1>2, <2>1, <2>2, <2>3 DEF LightTyped
<1> QED BY <1>3, <1>4

\* What a call's task does of all this: it is done, or the Light loop has the
\* rest of it.
LEMMA CallTaskRuns ==
  ASSUME BacklightRuns, LightInv, Head(backlightQueue) \in CallTasks
  PROVE  \/ /\ UNCHANGED <<algorithmVars, lightLoop, backlightLoop>> /\ brightnessCall' = "none"
         \/ /\ StartOrStop(TRUE) /\ lightLoop' = "enable" /\ backlightLoop' = "waiting"
            /\ UNCHANGED brightnessCall
         \/ /\ StartOrStop(FALSE) /\ lightLoop' = "disable" /\ backlightLoop' = "waiting"
            /\ UNCHANGED brightnessCall
<1> DEFINE t == Head(backlightQueue)
<1>1. t.task # "light"
  BY DEF CallTasks
<1>2. CASE t.task = "disable" /\ disable_autobrightness
  BY <1>2 DEF disable_autobrightness, SwitchSensor, NoSensor, Done
<1>3. CASE t.task = "enable" /\ enable_autobrightness
  BY <1>3 DEF enable_autobrightness, SwitchSensor, NoSensor, Done
<1>4. CASE t.task = "dim" /\ set_dim_brightness
  BY <1>4 DEF set_dim_brightness, NoSensor, Done
<1>5. CASE t.task = "normal" /\ set_normal_brightness
  BY <1>5 DEF set_normal_brightness, SwitchSensor, NoSensor, Done
<1>6. CASE t.task = "value" /\ set_normal_brightness_value(t.value)
  BY <1>6 DEF set_normal_brightness_value, NoSensor, Done
<1>7. CASE t.task = "off" /\ set_off_brightness
  BY <1>7 DEF set_off_brightness, SwitchSensor
<1> QED BY <1>1, <1>2, <1>3, <1>4, <1>5, <1>6, <1>7 DEF BacklightRuns

\* What is left on the Backlight loop when a task is taken.
LEMMA BacklightTaskTaken ==
  ASSUME LightInv, BacklightRuns
  PROVE  /\ backlightQueue \in Seq(BacklightTasks) /\ backlightQueue # <<>>
         /\ backlightQueue' \in Seq(BacklightTasks) /\ Head(backlightQueue) \in BacklightTasks
         /\ 1 \in DOMAIN backlightQueue /\ Head(backlightQueue) = backlightQueue[1]
         /\ \A i \in DOMAIN backlightQueue' :
              /\ i \in Nat /\ 0 < i /\ i + 1 \in DOMAIN backlightQueue /\ i + 1 # 1
              /\ backlightQueue'[i] = backlightQueue[i + 1]
         /\ lightLoop = "idle" /\ UNCHANGED <<sensorEnabled, sensorThread>>
<1>1. /\ backlightQueue \in Seq(BacklightTasks) /\ backlightQueue # <<>>
      /\ backlightQueue' = Tail(backlightQueue) /\ lightLoop = "idle"
      /\ UNCHANGED <<sensorEnabled, sensorThread>>
  BY DEF LightInv, LightTyped, BacklightRuns, sensorVars
<1>2. /\ Tail(backlightQueue) \in Seq(BacklightTasks) /\ 1 \in DOMAIN backlightQueue
      /\ Head(backlightQueue) = backlightQueue[1] /\ backlightQueue[1] \in BacklightTasks
      /\ \A i \in DOMAIN Tail(backlightQueue) :
           /\ i \in Nat /\ 0 < i /\ i + 1 \in DOMAIN backlightQueue
           /\ Tail(backlightQueue)[i] = backlightQueue[i + 1]
  BY <1>1, TakenByPlace
<1> QED BY <1>1, <1>2

\* A task of the Backlight loop: one of the control, or a reading.
LEMMA BacklightKeepsLight ==
  ASSUME LightInv, BacklightRuns
  PROVE  LightInv'
<1> DEFINE q == backlightQueue
           t == Head(backlightQueue)
<1>1. /\ q' \in Seq(BacklightTasks) /\ t \in BacklightTasks /\ 1 \in DOMAIN q /\ t = q[1]
      /\ \A i \in DOMAIN q' : /\ i \in Nat /\ 0 < i /\ i + 1 \in DOMAIN q /\ i + 1 # 1
                              /\ q'[i] = q[i + 1]
      /\ lightLoop = "idle" /\ UNCHANGED <<sensorEnabled, sensorThread>>
  BY BacklightTaskTaken
<1>2. LightTyped /\ OneCallIsQueued /\ SensorGoesWithPeriod /\ ReadingsGoWithPeriod /\ DebouncesOnce
  BY DEF LightInv
<1>3. CASE t \in CallTasks
  <2>1. \A i \in DOMAIN q' : q'[i] \notin CallTasks
    BY <1>1, <1>2, <1>3 DEF OneCallIsQueued
  <2>2. ~started => \A i \in DOMAIN q' : q'[i] \notin LightTasks
    <3>1. ASSUME ~started, NEW i \in DOMAIN q', q'[i] \in LightTasks PROVE FALSE
      <4>1. i + 1 < 1
        BY <1>1, <1>2, <1>3, <3>1 DEF ReadingsGoWithPeriod
      <4> QED BY <1>1, <3>1, <4>1
    <3> QED BY <3>1
  <2>3. CASE UNCHANGED <<algorithmVars, lightLoop, backlightLoop>> /\ brightnessCall' = "none"
    <3>1. UNCHANGED <<started, lightsAveraged, debouncing, debouncing_seqnum, debounceTimers, litPeriod,
                      lightLoop, backlightLoop, sensorEnabled, sensorThread>>
      BY <1>1, <2>3 DEF algorithmVars
    <3>2. LightTyped' /\ SensorGoesWithPeriod' /\ DebouncesOnce'
      BY <1>1, <1>2, <3>1 DEF LightTyped, SensorGoesWithPeriod, DebouncesOnce
    <3>3. OneCallIsQueued'
      BY <1>1, <2>1, <3>1 DEF OneCallIsQueued
    <3>4. ReadingsGoWithPeriod'
      BY <1>1, <1>2, <2>1, <3>1 DEF ReadingsGoWithPeriod
    <3> QED BY <3>2, <3>3, <3>4 DEF LightInv
  <2>4. ASSUME NEW on \in BOOLEAN, StartOrStop(on), backlightLoop' = "waiting", UNCHANGED brightnessCall,
               lightLoop' = IF on THEN "enable" ELSE "disable"
        PROVE  LightInv'
    <3>1. /\ started' = on /\ litPeriod' \in Nat /\ debouncing' \in BOOLEAN /\ debouncing_seqnum' \in Nat
          /\ lightsAveraged' \subseteq Readings /\ UNCHANGED debounceTimers
          /\ DebouncesOnce'
          /\ started = on => UNCHANGED <<lightsAveraged, litPeriod>>
          /\ started # on => lightsAveraged' = {}
      BY <1>2, <2>4, PeriodBegins
    <3>2. LightTyped'
      BY <1>1, <1>2, <2>4, <3>1 DEF LightTyped
    <3>3. OneCallIsQueued'
      <4>1. brightnessCall # "none"
        BY <1>1, <1>2, <1>3 DEF OneCallIsQueued
      <4> QED BY <2>1, <2>4, <4>1 DEF OneCallIsQueued
    <3>4. SensorGoesWithPeriod'
      BY <1>1, <1>2, <2>4, <3>1 DEF SensorGoesWithPeriod, LightTyped
    <3>5. ReadingsGoWithPeriod'
      BY <1>1, <1>2, <2>1, <2>2, <3>1 DEF ReadingsGoWithPeriod, LightTyped
    <3> QED BY <3>1, <3>2, <3>3, <3>4, <3>5 DEF LightInv
  <2> QED BY <1>3, <2>3, <2>4, CallTaskRuns
<1>4. CASE t \in LightTasks
  <2>1. t.reading \in Readings /\ new_light_value(t.reading)
    <3>1. t.task = "light" /\ t.reading \in Readings
      BY <1>1, <1>4, KindsOfBacklightTasks
    <3> QED BY <3>1 DEF BacklightRuns
  <2>2. started => t.reading.period = litPeriod
    BY <1>1, <1>2, <1>4 DEF ReadingsGoWithPeriod
  <2>3. /\ UNCHANGED <<started, litPeriod, lightLoop, backlightLoop, brightnessCall>>
        /\ lightsAveraged' \subseteq Readings /\ debouncing' \in BOOLEAN /\ debouncing_seqnum' \in Nat
        /\ debounceTimers' \subseteq Debounces /\ DebouncesOnce'
        /\ \A x \in lightsAveraged' : started /\ x.period = litPeriod
    BY <2>1, <2>2, ReadingUsed
  <2>4. LightTyped' /\ SensorGoesWithPeriod'
    BY <1>1, <1>2, <2>3 DEF LightTyped, SensorGoesWithPeriod
  <2>5. OneCallIsQueued'
    <3>1. ASSUME NEW i \in DOMAIN q', NEW j \in DOMAIN q', q'[i] \in CallTasks, q'[j] \in CallTasks
          PROVE  i = j
      <4>1. i + 1 = j + 1
        BY <1>1, <1>2, <3>1 DEF OneCallIsQueued
      <4> QED BY <1>1, <4>1
    <3>2. brightnessCall = "none" => \A i \in DOMAIN q' : q'[i] \notin CallTasks
      BY <1>1, <1>2 DEF OneCallIsQueued
    <3> QED BY <1>1, <2>3, <3>1, <3>2 DEF OneCallIsQueued
  <2>6. ReadingsGoWithPeriod'
    <3>1. ASSUME ~started, NEW i \in DOMAIN q', NEW j \in DOMAIN q', q'[i] \in CallTasks, q'[j] \in LightTasks
          PROVE  j < i
      <4>1. j + 1 < i + 1
        BY <1>1, <1>2, <3>1 DEF ReadingsGoWithPeriod
      <4> QED BY <1>1, <4>1
    <3> QED BY <1>1, <1>2, <2>3, <3>1 DEF ReadingsGoWithPeriod
  <2> QED BY <2>3, <2>4, <2>5, <2>6 DEF LightInv
<1> QED BY <1>1, <1>3, <1>4, KindsOfBacklightTasks

\* A task is queued, by the daemon or by the sensor's thread.
LEMMA BacklightTaskQueued ==
  ASSUME LightInv, NEW t \in BacklightTasks, backlightQueue' = Append(backlightQueue, t),
         UNCHANGED <<algorithmVars, lightLoop, backlightLoop>>, SensorGoesWithPeriod',
         UNCHANGED sensorEnabled,
         t \in CallTasks => brightnessCall = "none" /\ brightnessCall' # "none",
         t \in LightTasks => /\ UNCHANGED brightnessCall /\ t.reading.period = litPeriod
                             /\ started \/ lightLoop # "idle"
  PROVE  LightInv'
<1> DEFINE q == backlightQueue
<1>0. UNCHANGED <<started, lightsAveraged, debouncing, debouncing_seqnum, debounceTimers, litPeriod,
                  lightLoop, backlightLoop>>
  BY DEF algorithmVars
<1>1. LightTyped /\ OneCallIsQueued /\ ReadingsGoWithPeriod /\ DebouncesOnce /\ q \in Seq(BacklightTasks)
  BY DEF LightInv, LightTyped
<1>2. /\ q' \in Seq(BacklightTasks) /\ DOMAIN q' = DOMAIN q \cup {Len(q) + 1} /\ q'[Len(q) + 1] = t
      /\ \A i \in DOMAIN q : i \in Nat /\ i < Len(q) + 1 /\ q'[i] = q[i]
  BY <1>1, AppendedByPlace
<1>3. PICK n : n = Len(q) + 1
  OBVIOUS
<1>4. /\ DOMAIN q' = DOMAIN q \cup {n} /\ q'[n] = t
      /\ \A i \in DOMAIN q : i \in Nat /\ i < n /\ q'[i] = q[i]
  BY <1>2, <1>3
<1> HIDE DEF q
<1>5. t \in LightTasks <=> t \notin CallTasks
  BY KindsOfBacklightTasks
<1>6. LightTyped' /\ DebouncesOnce'
  BY <1>0, <1>1, <1>2 DEF LightTyped, DebouncesOnce, q
<1>7. OneCallIsQueued'
  <2>1. t \in CallTasks => \A i \in DOMAIN q : q[i] \notin CallTasks
    BY <1>1 DEF OneCallIsQueued, q
  <2>2. ASSUME NEW i \in DOMAIN q', NEW j \in DOMAIN q', q'[i] \in CallTasks, q'[j] \in CallTasks
        PROVE  i = j
    BY <1>1, <1>4, <2>1, <2>2 DEF OneCallIsQueued, q
  <2>3. ASSUME brightnessCall' = "none" \/ lightLoop # "idle", NEW i \in DOMAIN q'
        PROVE  q'[i] \notin CallTasks
    BY <1>1, <1>4, <1>5, <2>3 DEF OneCallIsQueued, q
  <2>4. lightLoop # "idle" => brightnessCall' # "none"
    BY <1>1, <1>5 DEF OneCallIsQueued
  <2> QED BY <1>0, <2>2, <2>3, <2>4 DEF OneCallIsQueued, q
<1>8. ReadingsGoWithPeriod'
  <2>1. ASSUME started, NEW i \in DOMAIN q', q'[i] \in LightTasks PROVE q'[i].reading.period = litPeriod
    BY <1>1, <1>4, <2>1 DEF ReadingsGoWithPeriod, q
  <2>2. ASSUME ~started, NEW i \in DOMAIN q', NEW j \in DOMAIN q', q'[i] \in CallTasks, q'[j] \in LightTasks
        PROVE  j < i
    <3>1. CASE j # n
      BY <1>1, <1>4, <2>2, <3>1 DEF ReadingsGoWithPeriod, q
    <3>2. CASE j = n
      <4>1. t \in LightTasks /\ lightLoop # "idle"
        BY <1>4, <2>2, <3>2
      <4>2. i # n
        BY <1>4, <1>5, <2>2, <4>1
      <4>3. \A k \in DOMAIN q : q[k] \notin CallTasks
        BY <1>1, <4>1 DEF OneCallIsQueued, q
      <4> QED BY <1>4, <2>2, <4>2, <4>3
    <3> QED BY <3>1, <3>2
  <2> QED BY <1>0, <1>1, <2>1, <2>2 DEF ReadingsGoWithPeriod, q
<1> QED BY <1>6, <1>7, <1>8 DEF LightInv

\* A debounce ends, or another begins.
LEMMA DebounceKeepsLight ==
  ASSUME LightInv, DebounceGoesOff
  PROVE  LightInv'
<1>1. LightTyped /\ OneCallIsQueued /\ SensorGoesWithPeriod /\ ReadingsGoWithPeriod /\ DebouncesOnce
  BY DEF LightInv
<1>2. UNCHANGED <<brightnessCall, backlightQueue, backlightLoop, started, lightsAveraged, litPeriod,
                  lightLoop, sensorEnabled, sensorThread>>
  BY DEF DebounceGoesOff, callerVars, sensorVars
<1>3. PICK t \in debounceTimers :
        LET others == debounceTimers \ {t}
        IN IF t.seqnum # debouncing_seqnum
           THEN /\ debounceTimers' = others
                /\ UNCHANGED <<controlState, applied_light, debouncing, debouncing_seqnum>>
           ELSE \/ debouncing' = FALSE /\ debounceTimers' = others /\ UNCHANGED debouncing_seqnum
                \/ /\ debouncing' = TRUE /\ debouncing_seqnum' = debouncing_seqnum + 1
                   /\ debounceTimers' = others \cup
                        {[seqnum |-> debouncing_seqnum + 1, period |-> litPeriod]}
  BY DEF DebounceGoesOff
<1> DEFINE others == debounceTimers \ {t}
<1>4. CASE t.seqnum # debouncing_seqnum
  <2>1. debounceTimers' = others /\ UNCHANGED <<debouncing, debouncing_seqnum>>
    BY <1>3, <1>4
  <2>2. [seqnum |-> debouncing_seqnum, period |-> litPeriod] # t
    BY <1>4
  <2> QED BY <1>1, <1>2, <2>1, <2>2
      DEF LightInv, LightTyped, OneCallIsQueued, SensorGoesWithPeriod, ReadingsGoWithPeriod, DebouncesOnce
<1>5. CASE t.seqnum = debouncing_seqnum
  <2>1. CASE debouncing' = FALSE /\ debounceTimers' = others /\ UNCHANGED debouncing_seqnum
    <3>1. ASSUME NEW x \in others PROVE x.seqnum # debouncing_seqnum
      <4>1. SUFFICES ASSUME x.seqnum = debouncing_seqnum PROVE FALSE
        OBVIOUS
      <4>2. t.period = litPeriod /\ x.period = litPeriod /\ t \in Debounces /\ x \in Debounces
        BY <1>1, <1>5, <4>1 DEF DebouncesOnce, LightTyped
      <4>3. t = x
        BY <1>5, <4>1, <4>2 DEF Debounces
      <4> QED BY <4>3
    <3> QED BY <1>1, <1>2, <2>1, <3>1
        DEF LightInv, LightTyped, OneCallIsQueued, SensorGoesWithPeriod, ReadingsGoWithPeriod, DebouncesOnce
  <2>2. CASE /\ debouncing' = TRUE /\ debouncing_seqnum' = debouncing_seqnum + 1
             /\ debounceTimers' = others \cup
                  {[seqnum |-> debouncing_seqnum + 1, period |-> litPeriod]}
    <3>1. others \subseteq debounceTimers
      OBVIOUS
    <3> HIDE DEF others
    <3>2. debounceTimers' = others \cup {[seqnum |-> debouncing_seqnum', period |-> litPeriod]}
      BY <2>2
    <3>3. debouncing_seqnum' \in Nat /\ debounceTimers' \subseteq Debounces /\ DebouncesOnce'
      BY <1>1, <1>2, <2>2, <3>1, <3>2, DebounceScheduled
    <3> QED BY <1>1, <1>2, <2>2, <3>3
        DEF LightInv, LightTyped, OneCallIsQueued, SensorGoesWithPeriod, ReadingsGoWithPeriod
  <2> QED BY <1>3, <1>5, <2>1, <2>2
<1> QED BY <1>4, <1>5

\* The Light loop does what the Backlight loop waits for.
LEMMA LightLoopKeeps ==
  ASSUME LightInv, UNCHANGED <<backlightQueue, algorithmVars>>,
         \/ UNCHANGED <<lightLoop, backlightLoop, brightnessCall>>
         \/ lightLoop # "idle" /\ lightLoop' = "join" /\ UNCHANGED <<backlightLoop, brightnessCall>>
         \/ lightLoop # "idle" /\ LightTaskDone,
         sensorEnabled' \in BOOLEAN, SensorGoesWithPeriod'
  PROVE  LightInv'
<1>1. LightTyped /\ OneCallIsQueued /\ ReadingsGoWithPeriod /\ DebouncesOnce
  BY DEF LightInv
<1>2. /\ UNCHANGED <<backlightQueue, started, lightsAveraged, debouncing, debouncing_seqnum, debounceTimers,
                     litPeriod>>
  BY DEF algorithmVars
<1>3. LightTyped' /\ OneCallIsQueued'
  BY <1>1, <1>2 DEF LightTyped, OneCallIsQueued, LightTaskDone
<1> QED BY <1>1, <1>2, <1>3 DEF LightInv, ReadingsGoWithPeriod, DebouncesOnce

\* Each step: the daemon's calls, the tasks, the timers, the Light loop and the
\* sensor's thread.
LEMMA NextLightInv ==
  ASSUME LightInv, [BrightnessNext]_brightnessVars
  PROVE  LightInv'
<1>1. LightTyped /\ SensorGoesWithPeriod
  BY DEF LightInv
<1>2. CASE DaemonCalls
  <2>1. PICK c \in BrightnessCalls : brightnessCall' = c.task /\ backlightQueue' = Append(backlightQueue, c)
    BY <1>2 DEF DaemonCalls
  <2>2. c \in CallTasks
    <3>1. PICK n \in {"dim", "normal", "off", "enable", "disable", "value"}, v \in Nat : c = BrightnessTask(n, v)
      BY BrightnessAssumption DEF BrightnessCalls
    <3> QED BY <3>1 DEF BrightnessTask, CallTasks
  <2>3. /\ brightnessCall = "none" /\ UNCHANGED <<algorithmVars, lightLoop, backlightLoop>>
        /\ UNCHANGED <<sensorEnabled, sensorThread>>
    BY <1>2 DEF DaemonCalls, sensorVars
  <2>4. c \in BacklightTasks /\ c \notin LightTasks /\ brightnessCall' # "none"
    BY <2>1, <2>2, KindsOfBacklightTasks DEF BacklightTasks, CallTasks
  <2>5. SensorGoesWithPeriod'
    BY <1>1, <2>3 DEF SensorGoesWithPeriod, algorithmVars
  <2> QED BY <2>1, <2>3, <2>4, <2>5, BacklightTaskQueued
<1>3. CASE handle_light_event
  <2>1. PICK l \in Lights : backlightQueue' = Append(backlightQueue, LightTask(l))
    BY <1>3 DEF handle_light_event
  <2>2. /\ UNCHANGED <<brightnessCall, algorithmVars, lightLoop, backlightLoop>>
        /\ UNCHANGED <<started, litPeriod, sensorEnabled>> /\ sensorThread = "handler" /\ sensorThread' = "loop"
    BY <1>3 DEF handle_light_event, callerVars, algorithmVars
  <2>3. LightTask(l) \in LightTasks /\ LightTask(l).reading.period = litPeriod
    BY <1>1 DEF LightTask, LightTasks, Readings, LightTyped
  <2>4. LightTask(l) \in BacklightTasks /\ LightTask(l) \notin CallTasks
    BY <2>3, KindsOfBacklightTasks DEF BacklightTasks
  <2>5. SensorGoesWithPeriod' /\ (started \/ lightLoop # "idle")
    BY <1>1, <2>2 DEF SensorGoesWithPeriod, LightTyped
  <2> QED BY <2>1, <2>2, <2>3, <2>4, <2>5, BacklightTaskQueued
<1>4. CASE enable_light_events
  <2>1. SensorGoesWithPeriod' /\ sensorEnabled' \in BOOLEAN
    BY <1>1, <1>4 DEF enable_light_events, SensorGoesWithPeriod, LightTaskDone, algorithmVars, LightTyped
  <2> QED BY <1>4, <2>1, LightLoopKeeps DEF enable_light_events
<1>5. CASE disable_light_events
  <2>1. SensorGoesWithPeriod' /\ sensorEnabled' \in BOOLEAN
    BY <1>1, <1>5 DEF disable_light_events, SensorGoesWithPeriod, LightTaskDone, algorithmVars, LightTyped
  <2> QED BY <1>5, <2>1, LightLoopKeeps DEF disable_light_events
<1>6. CASE SensorThreadJoined
  <2>1. SensorGoesWithPeriod' /\ sensorEnabled' \in BOOLEAN
    BY <1>1, <1>6 DEF SensorThreadJoined, SensorGoesWithPeriod, LightTaskDone, algorithmVars, LightTyped
  <2> QED BY <1>6, <2>1, LightLoopKeeps DEF SensorThreadJoined
<1>7. CASE SensorReads
  <2>1. SensorGoesWithPeriod' /\ sensorEnabled' \in BOOLEAN
    BY <1>1, <1>7 DEF SensorReads, SensorGoesWithPeriod, algorithmVars, LightTyped
  <2> QED BY <1>7, <2>1, LightLoopKeeps DEF SensorReads, callerVars
<1>8. CASE UNCHANGED brightnessVars
  <2>1. SensorGoesWithPeriod' /\ sensorEnabled' \in BOOLEAN
    BY <1>1, <1>8 DEF brightnessVars, sensorVars, SensorGoesWithPeriod, algorithmVars, LightTyped
  <2> QED BY <1>8, <2>1, LightLoopKeeps DEF brightnessVars, callerVars
<1> QED
  BY <1>2, <1>3, <1>4, <1>5, <1>6, <1>7, <1>8, BacklightKeepsLight, DebounceKeepsLight DEF BrightnessNext

\* The algorithm is stopped, the sensor off.
LEMMA InitLightInv == BrightnessInit => LightInv
<1> SUFFICES ASSUME BrightnessInit PROVE LightInv
  OBVIOUS
<1>1. DOMAIN backlightQueue = {}
  BY DEF BrightnessInit
<1>2. LightTyped
  BY EmptyQueue DEF BrightnessInit, LightTyped
<1> QED BY <1>1, <1>2
    DEF BrightnessInit, LightInv, OneCallIsQueued, SensorGoesWithPeriod, ReadingsGoWithPeriod, DebouncesOnce

\* The averages are of this period, and one debounce is pending, or none,
\* however the sensor is switched while its thread hands readings over.
THEOREM LightCorrect == BrightnessSpec => []LightIsCurrent
<1>1. LightInv => LightIsCurrent
  <2> SUFFICES ASSUME LightInv PROVE LightIsOfThisPeriod /\ OneDebounceIsPending
    BY DEF LightIsCurrent
  <2>1. LightIsOfThisPeriod /\ DebouncesOnce /\ debounceTimers \subseteq Debounces
    BY DEF LightInv, LightTyped, ReadingsGoWithPeriod, LightIsOfThisPeriod
  <2> DEFINE valid == {t \in debounceTimers : t.seqnum = debouncing_seqnum}
             x == [seqnum |-> debouncing_seqnum, period |-> litPeriod]
  <2>2. CASE debouncing
    <3>1. x \in valid
      BY <2>1, <2>2 DEF DebouncesOnce
    <3>2. \A t \in valid : t.period = litPeriod /\ t = x
      BY <2>1, <2>2 DEF DebouncesOnce, Debounces
    <3> HIDE DEF x
    <3>3. valid = {x}
      BY <3>1, <3>2
    <3>4. Cardinality(valid) = 1
      BY <3>3, FS_Singleton
    <3> QED BY <2>1, <2>2, <3>2, <3>4 DEF OneDebounceIsPending
  <2>3. CASE ~debouncing
    BY <2>1, <2>3 DEF DebouncesOnce, OneDebounceIsPending
  <2> QED BY <2>1, <2>2, <2>3
<1>2. LightInv /\ [BrightnessNext]_brightnessVars => LightInv'
  BY NextLightInv
<1> QED BY <1>1, <1>2, InitLightInv, PTL DEF BrightnessSpec

-----------------------------------------------------------------------------
\* The control, whatever is queued: what it does to the backlight goes with
\* the type, and the value for "normal" with who decides it.
ControlTyped ==
  /\ active_brightness_type \in {"normal", "dim", "off"} /\ ab_active \in BOOLEAN
  /\ backlight \in Int /\ normal_brightness \in Int /\ user_normal_brightness \in Int

TypeDecides ==
  /\ ~ab_active => normal_brightness = user_normal_brightness
  /\ active_brightness_type = "off" => backlight = 0 \/ brightnessTold = unknown_brightness
  /\ active_brightness_type = "dim" => backlight > 0 /\ backlight <= DimBrightness
  /\ (active_brightness_type = "normal" /\ ~ab_active) => backlight = user_normal_brightness

ControlInv == LightInv /\ ControlTyped /\ TypeDecides

\* What the tasks on the Backlight loop do to the control.
LEMMA NextControlInv ==
  ASSUME ControlInv, [BrightnessNext]_brightnessVars
  PROVE  ControlInv'
<1>0. LightInv /\ LightInv' /\ ControlTyped /\ TypeDecides
  BY NextLightInv DEF ControlInv
<1> SUFFICES ControlTyped' /\ TypeDecides'
  BY <1>0 DEF ControlInv
<1> USE DEF ControlTyped, TypeDecides
<1>1. ASSUME NEW b \in Int, HandleAutobrightness(b) PROVE ControlTyped' /\ TypeDecides'
  BY <1>0, <1>1 DEF HandleAutobrightness, TransitionTo, NoTransition, controlState
<1>2. ASSUME UNCHANGED controlState PROVE ControlTyped' /\ TypeDecides'
  BY <1>0, <1>2 DEF controlState
<1>3. CASE BacklightRuns
  <2> DEFINE t == Head(backlightQueue)
  <2>0. t \in BacklightTasks
    BY <1>0, <1>3, BacklightTaskTaken
  <2>1. CASE t.task = "disable" /\ disable_autobrightness
    BY <1>0, <2>1, <1>2 DEF disable_autobrightness, TransitionTo, NoTransition
  <2>2. CASE t.task = "enable" /\ enable_autobrightness
    BY <1>0, <2>2 DEF enable_autobrightness
  <2>3. CASE t.task = "dim" /\ set_dim_brightness
    BY <1>0, <2>3, BrightnessAssumption DEF set_dim_brightness, TransitionTo, NoTransition
  <2>4. CASE t.task = "normal" /\ set_normal_brightness
    BY <1>0, <2>4 DEF set_normal_brightness, TransitionTo, NoTransition
  <2>5. CASE t.task = "value" /\ set_normal_brightness_value(t.value)
    <3>1. PICK v \in Nat : set_normal_brightness_value(v)
      BY <2>0, <2>5, KindsOfBacklightTasks
    <3>2. CASE ab_active
      BY <1>0, <3>1, <3>2 DEF set_normal_brightness_value, NoTransition
    <3>3. CASE ~ab_active
      BY <1>0, <3>1, <3>3 DEF set_normal_brightness_value, TransitionTo, NoTransition
    <3> QED BY <3>2, <3>3
  <2>6. CASE t.task = "off" /\ set_off_brightness
    BY <1>0, <2>6 DEF set_off_brightness, TransitionTo
  <2>7. CASE t.task = "light" /\ new_light_value(t.reading)
    <3>1. BrightnessOf[t.reading.light] \in Int
      BY <2>0, <2>7, KindsOfBacklightTasks, BrightnessAssumption DEF Readings
    <3> QED BY <2>7, <3>1, <1>1, <1>2 DEF new_light_value
  <2> QED BY <1>3, <2>1, <2>2, <2>3, <2>4, <2>5, <2>6, <2>7 DEF BacklightRuns
<1>4. CASE DebounceGoesOff
  <2>1. \A r \in lightsAveraged : BrightnessOf[r.light] \in Int
    BY <1>0, BrightnessAssumption DEF LightInv, LightTyped, Readings
  <2> QED BY <2>1, <1>1, <1>2, <1>4 DEF DebounceGoesOff
<1>5. CASE \/ DaemonCalls \/ enable_light_events \/ disable_light_events \/ SensorThreadJoined
           \/ SensorReads \/ handle_light_event \/ UNCHANGED brightnessVars
  BY <1>2, <1>5 DEF DaemonCalls, enable_light_events, disable_light_events, SensorThreadJoined,
     SensorReads, handle_light_event, brightnessVars
<1> QED BY <1>3, <1>4, <1>5 DEF BrightnessNext

\* Off, and no handler told yet.
LEMMA InitControlInv == BrightnessInit => ControlInv
<1> SUFFICES ASSUME BrightnessInit PROVE ControlTyped /\ TypeDecides
  BY InitLightInv DEF ControlInv
<1>1. user_normal_brightness \in Int /\ backlight \in Int
  BY BrightnessAssumption DEF BrightnessInit, unknown_brightness
<1> QED BY <1>1 DEF BrightnessInit, ControlTyped, TypeDecides

\* The type says what the backlight is, queued tasks or not.
LEMMA ControlKnows == ControlInv => BacklightMatchesType
BY DEF ControlInv, ControlTyped, TypeDecides, BacklightMatchesType

\* The control does with the backlight what its type says.
THEOREM ControlCorrect == BrightnessSpec => []BacklightMatchesType
<1>1. ControlInv /\ [BrightnessNext]_brightnessVars => ControlInv'
  BY NextControlInv
<1> QED BY <1>1, InitControlInv, ControlKnows, PTL DEF BrightnessSpec

-----------------------------------------------------------------------------
(* The devices and the transitions.                                        *)

\* A quotient, and what it lies between.
LEMMA Quotient ==
  ASSUME NEW a \in Int, NEW b \in Int, b > 0
  PROVE  a \div b \in Int /\ (a \div b) * b <= a /\ a < (a \div b) * b + b
<1>1. (a \div b) * b <= a /\ a < (a \div b) * b + b
  OBVIOUS
<1>2. a \div b \in Int
  OBVIOUS
<1> QED BY <1>1, <1>2

\* A quotient without rest.
LEMMA ExactQuotient ==
  ASSUME NEW a \in Nat, NEW b \in Nat \ {0}, a % b = 0
  PROVE  a = b * (a \div b)
OBVIOUS

\* What the quotient of the nearest level lies between.
LEMMA NearestLevel ==
  ASSUME NEW v \in Int
  PROVE  /\ absolute_brightness_for(v) \in Int
         /\ absolute_brightness_for(v) * (2 * Units) <= 2 * v * MaxLevel + Units
         /\ 2 * v * MaxLevel + Units < absolute_brightness_for(v) * (2 * Units) + 2 * Units
<1>1. 2 * v * MaxLevel + Units \in Int /\ 2 * Units \in Int /\ 2 * Units > 0
  BY BacklightsAssumption
<1>2. PICK a \in Int, b \in Int : a = 2 * v * MaxLevel + Units /\ b = 2 * Units
  BY <1>1
<1>3. a \div b \in Int /\ (a \div b) * b <= a /\ a < (a \div b) * b + b
  BY <1>1, <1>2, Quotient
<1> QED BY <1>2, <1>3 DEF absolute_brightness_for

\* The brightness that is read back for a level has that level.
LEMMA LevelReadsBack ==
  ASSUME NEW l \in Int
  PROVE  l * (Units \div MaxLevel) \in Int /\ absolute_brightness_for(l * (Units \div MaxLevel)) = l
<1>0. Units = MaxLevel * (Units \div MaxLevel) /\ Units \div MaxLevel \in Int
  <2>1. Units \in Nat /\ MaxLevel \in Nat \ {0} /\ Units % MaxLevel = 0
    BY BacklightsAssumption
  <2>2. Units = MaxLevel * (Units \div MaxLevel)
    BY <2>1, ExactQuotient
  <2>3. Units \div MaxLevel \in Int
    BY <2>1, Quotient
  <2> QED BY <2>2, <2>3
<1>1. PICK k \in Int : k = Units \div MaxLevel /\ Units = MaxLevel * k
  BY <1>0
<1>2. l * k \in Int /\ Units \in Int /\ Units > 0 /\ MaxLevel \in Int
  BY <1>1, BacklightsAssumption
<1>3. 2 * (l * k) * MaxLevel = l * (2 * Units)
  BY <1>1, <1>2
<1>4. PICK q \in Int : q = absolute_brightness_for(l * k)
  BY <1>2, NearestLevel
<1>5. q * (2 * Units) <= l * (2 * Units) + Units /\ l * (2 * Units) + Units < q * (2 * Units) + 2 * Units
  BY <1>2, <1>3, <1>4, NearestLevel
<1>6. q = l
  <2>1. ASSUME q < l PROVE FALSE
    <3>1. q + 1 <= l
      BY <2>1
    <3>2. (q + 1) * (2 * Units) <= l * (2 * Units)
      BY <1>2, <3>1
    <3>3. (q + 1) * (2 * Units) = q * (2 * Units) + 2 * Units
      BY <1>2
    <3> QED BY <1>2, <1>5, <3>2, <3>3
  <2>2. ASSUME l < q PROVE FALSE
    <3>1. l + 1 <= q
      BY <2>2
    <3>2. (l + 1) * (2 * Units) <= q * (2 * Units)
      BY <1>2, <3>1
    <3>3. (l + 1) * (2 * Units) = l * (2 * Units) + 2 * Units
      BY <1>2
    <3> QED BY <1>2, <1>5, <3>2, <3>3
  <2> QED BY <2>1, <2>2
<1> QED BY <1>1, <1>2, <1>4, <1>6

\* A brightness within the range has a level within the range.
LEMMA LevelInRange ==
  ASSUME NEW v \in Int, v <= Units
  PROVE  absolute_brightness_for(v) <= MaxLevel
<1>1. Units \in Int /\ Units > 0 /\ MaxLevel \in Int /\ MaxLevel > 0
  BY BacklightsAssumption
<1>2. PICK q \in Int : q = absolute_brightness_for(v) /\ q * (2 * Units) <= 2 * v * MaxLevel + Units
  BY NearestLevel
<1>3. v * MaxLevel <= Units * MaxLevel
  BY <1>1
<1>4. 2 * v * MaxLevel = 2 * (v * MaxLevel) /\ MaxLevel * (2 * Units) = 2 * (Units * MaxLevel)
  BY <1>1
<1>5. ASSUME MaxLevel < q PROVE FALSE
  <2>1. (MaxLevel + 1) * (2 * Units) <= q * (2 * Units)
    BY <1>1, <1>5
  <2>2. (MaxLevel + 1) * (2 * Units) = MaxLevel * (2 * Units) + 2 * Units
    BY <1>1
  <2>3. PICK x \in Int : x = v * MaxLevel
    BY <1>1
  <2>4. PICK y \in Int : y = Units * MaxLevel
    BY <1>1
  <2>5. q * (2 * Units) <= 2 * y + Units
    BY <1>1, <1>2, <1>3, <1>4, <2>3, <2>4
  <2> QED BY <1>1, <1>4, <2>1, <2>2, <2>4, <2>5
<1> QED BY <1>1, <1>2, <1>5

-----------------------------------------------------------------------------
DeviceTyped ==
  /\ backlightKind \in {"sysfs", "android"} /\ backlightLevel \in Int
  /\ last_set_brightness \in Int /\ fadeAt \in Int /\ fadeTo \in Int

\* What a device remembers has the level that the device shows, unless others
\* wrote to it.
Remembered ==
  backlightKind = "android" =>
    last_set_brightness = Undetermined \/ absolute_brightness_for(last_set_brightness) = backlightLevel

\* A transition that has come to its end, or is over, has lit its end.
FadeLit ==
  (fadeAt = fadeTo \/ ~fading) /\ ~disturbed /\ fadeTo <= Units =>
    fadeAt = fadeTo /\ backlightLevel = absolute_brightness_for(fadeTo)

FadeInv == DeviceTyped /\ Remembered /\ FadeLit

\* What is read is a brightness of what is lit, or not determined.
LEMMA BrightnessRead ==
  ASSUME DeviceTyped, Remembered
  PROVE  get_brightness \in Int /\ BacklightReadsBack
<1>1. backlightLevel \in Int /\ last_set_brightness \in Int
  BY DEF DeviceTyped
<1>2. CASE backlightKind = "android" \/ absolute_brightness_for(last_set_brightness) = backlightLevel
  BY <1>1, <1>2 DEF get_brightness, Remembered, BacklightReadsBack
<1>3. CASE ~(backlightKind = "android" \/ absolute_brightness_for(last_set_brightness) = backlightLevel)
  <2>1. get_brightness = backlightLevel * (Units \div MaxLevel)
    BY <1>3 DEF get_brightness
  <2> QED BY <1>1, <2>1, LevelReadsBack DEF BacklightReadsBack
<1> QED BY <1>2, <1>3

\* One step of a transition: the device takes it, or not.
LEMMA FadeStepKeeps ==
  ASSUME FadeInv, FadeStep
  PROVE  FadeInv'
<1>1. DeviceTyped /\ Remembered /\ fading /\ fadeAt # fadeTo /\ UNCHANGED <<backlightKind, fadeTo, fading>>
  BY DEF FadeInv, FadeStep
<1>2. Units \in Int /\ Units > 0 /\ fadeAt \in Int /\ fadeTo \in Int
  BY <1>1, BacklightsAssumption DEF DeviceTyped
<1>3. fadeAt' \in Int
  <2>1. fadeAt' = NextBrightness(fadeAt, fadeTo)
    BY DEF FadeStep
  <2>2. CASE fadeAt < fadeTo
    BY <1>2, <2>1, <2>2 DEF NextBrightness
  <2>3. CASE fadeAt > fadeTo
    BY <1>2, <2>1, <2>3 DEF NextBrightness
  <2> QED BY <1>1, <1>2, <2>2, <2>3
<1>4. PICK at \in Int : at = fadeAt' /\ (SetSysfs(at) \/ SetAndroid(at))
  BY <1>3 DEF FadeStep
<1>5. absolute_brightness_for(at) \in Int
  BY NearestLevel
<1>6. CASE SetSysfs(at)
  <2>1. /\ backlightKind = "sysfs" /\ last_set_brightness' = at
        /\ backlightLevel' = IF absolute_brightness_for(at) > MaxLevel THEN backlightLevel
                             ELSE absolute_brightness_for(at)
    BY <1>6 DEF SetSysfs
  <2>2. DeviceTyped' /\ Remembered'
    BY <1>1, <1>2, <1>4, <1>5, <2>1 DEF DeviceTyped, Remembered
  <2>3. FadeLit'
    <3>1. ASSUME fadeAt' = fadeTo', fadeTo' <= Units
          PROVE  backlightLevel' = absolute_brightness_for(fadeTo)
      <4>1. at = fadeTo /\ fadeTo <= Units
        BY <1>1, <1>4, <3>1
      <4>2. absolute_brightness_for(at) <= MaxLevel
        BY <4>1, LevelInRange
      <4>3. MaxLevel \in Int
        BY BacklightsAssumption
      <4> QED BY <1>5, <2>1, <4>1, <4>2, <4>3
    <3>2. absolute_brightness_for(fadeTo)' = absolute_brightness_for(fadeTo)
      BY <1>1 DEF absolute_brightness_for
    <3> QED BY <1>1, <3>1, <3>2 DEF FadeLit
  <2> QED BY <2>2, <2>3 DEF FadeInv
<1>7. CASE SetAndroid(at)
  <2>1. CASE backlightLevel' = absolute_brightness_for(at) /\ last_set_brightness' = at
    <3>1. DeviceTyped'
      BY <1>1, <1>2, <1>4, <1>5, <2>1 DEF DeviceTyped
    <3>2. Remembered'
      BY <2>1 DEF Remembered, absolute_brightness_for
    <3>3. FadeLit'
      BY <1>1, <1>4, <2>1 DEF FadeLit, absolute_brightness_for
    <3> QED BY <3>1, <3>2, <3>3 DEF FadeInv
  <2>2. CASE disturbed' = TRUE /\ UNCHANGED <<backlightLevel, last_set_brightness>>
    <3>1. DeviceTyped' /\ FadeLit'
      BY <1>1, <1>4, <2>2 DEF DeviceTyped, FadeLit
    <3>2. Remembered'
      BY <1>1, <2>2 DEF Remembered, absolute_brightness_for, Undetermined
    <3> QED BY <3>1, <3>2 DEF FadeInv
  <2> QED BY <1>7, <2>1, <2>2 DEF SetAndroid
<1> QED BY <1>4, <1>6, <1>7

\* A transition begins, from what is lit; it may be at its end already.
LEMMA BeginFadeKeeps ==
  ASSUME FadeInv, BeginFade
  PROVE  FadeInv'
<1>1. DeviceTyped /\ Remembered /\ UNCHANGED <<backlightKind, backlightLevel, last_set_brightness>> /\ fading' = TRUE
  BY DEF FadeInv, BeginFade
<1>2. PICK b \in FadeTargets :
        fadeTo' = b /\ fadeAt' = IF get_brightness = Undetermined THEN b - Units ELSE get_brightness
  BY DEF BeginFade
<1>3. b \in Int /\ Units \in Int /\ Units > 0
  BY BacklightsAssumption
<1>4. get_brightness \in Int /\ BacklightReadsBack
  BY <1>1, BrightnessRead
<1>5. DeviceTyped'
  BY <1>1, <1>2, <1>3, <1>4 DEF DeviceTyped
<1>6. Remembered'
  BY <1>1 DEF Remembered, absolute_brightness_for, Undetermined
<1>7. FadeLit'
  <2>1. ASSUME fadeAt' = fadeTo' PROVE backlightLevel = absolute_brightness_for(b)
    <3>1. get_brightness # Undetermined
      BY <1>2, <1>3, <2>1
    <3>2. get_brightness = b
      BY <1>2, <2>1, <3>1
    <3> QED BY <1>4, <3>1, <3>2 DEF BacklightReadsBack
  <2> QED BY <1>1, <1>2, <2>1 DEF FadeLit, absolute_brightness_for
<1> QED BY <1>5, <1>6, <1>7 DEF FadeInv

\* Each step: what others write, and a transition.
LEMMA NextFadeInv ==
  ASSUME FadeInv, [BacklightsNext]_backlightsVars
  PROVE  FadeInv'
<1>1. CASE OthersWrite
  <2>1. DeviceTyped'
    BY <1>1, BacklightsAssumption DEF FadeInv, DeviceTyped, OthersWrite
  <2> QED BY <1>1, <2>1 DEF FadeInv, Remembered, FadeLit, OthersWrite
<1>2. CASE FadeEnds
  <2>1. DeviceTyped' /\ FadeLit'
    BY <1>2 DEF FadeInv, DeviceTyped, FadeLit, FadeEnds, absolute_brightness_for
  <2> QED BY <1>2, <2>1 DEF FadeInv, Remembered, FadeEnds, absolute_brightness_for, Undetermined
<1>3. CASE UNCHANGED backlightsVars
  <2>1. DeviceTyped' /\ FadeLit'
    BY <1>3 DEF FadeInv, DeviceTyped, FadeLit, backlightsVars, absolute_brightness_for
  <2> QED BY <1>3, <2>1 DEF FadeInv, Remembered, backlightsVars, absolute_brightness_for, Undetermined
<1> QED BY <1>1, <1>2, <1>3, BeginFadeKeeps, FadeStepKeeps DEF BacklightsNext

\* Nothing is lit, nothing is remembered.
LEMMA InitFadeInv == BacklightsInit => FadeInv
BY BacklightsAssumption DEF BacklightsInit, FadeInv, DeviceTyped, Remembered, FadeLit, Undetermined

\* What is read is of what is lit, and what has ended is lit.
LEMMA FadeKnows == FadeInv => BacklightReadsBack /\ FadeArrives
BY BrightnessRead DEF FadeInv, FadeLit, FadeArrives

\* A transition starts from what is lit and ends at the nearest level, for any
\* range of levels that divides the units, any step beyond the range, and
\* whatever others write.
THEOREM FadesCorrect == BacklightsSpec => [](BacklightReadsBack /\ FadeArrives)
<1>1. FadeInv /\ [BacklightsNext]_backlightsVars => FadeInv'
  BY NextFadeInv
<1> QED BY <1>1, FadeKnows, InitFadeInv, PTL DEF BacklightsSpec

-----------------------------------------------------------------------------
(* The settings of clients.                                                *)

AnySettingSession == SettingSessions \cup {NullSession}

AcceptedArguments(m) == {a \in SettingArguments(m) : Accepted(m, a)}
WritesOf(m) == {Written(m, a) : a \in AcceptedArguments(m)}
Writes == UNION {WritesOf(m) : m \in MethodsOfService["screen"] \cup MethodsOfService["repowerd"]}
EventsToSet == [session : AnySettingSession, set : Writes]

Pending(v) == settingCall[v] # NoSettingCall
Queued(v) == Pending(v) /\ settingCall[v].queued
WrittenBy(v) == Written(settingCall[v].method, settingCall[v].arguments)

CallsTyped ==
  \A v \in Services : Pending(v) =>
    LET c == settingCall[v] IN
    /\ c \in [method : MethodsOfService[v], arguments : {c.arguments},
              session : AnySettingSession, queued : BOOLEAN]
    /\ c.arguments \in SettingArguments(c.method)
    /\ c.queued => Accepted(c.method, c.arguments)

\* The control has been told a value, and whether autobrightness is on.
ControlIsRecord == DOMAIN control = {"value", "autobrightness"} /\ control = [n \in DOMAIN control |-> control[n]]

SettingsTyped ==
  /\ DOMAIN settingCall = Services /\ CallsTyped
  /\ settingEvents \in Seq(EventsToSet)
  /\ DOMAIN settings = SettingSessions
  /\ \A s \in SettingSessions : DOMAIN settings[s] = SettingKeys
  /\ brightness_params \in [default_value : Nat, autobrightness_supported : BOOLEAN]
  /\ DOMAIN answeredSettings = Services
  /\ \A v \in Services : DOMAIN answeredSettings[v] = SettingSessions
  /\ lastBrightnessFrom \in [{"brightness", "autobrightness"} -> AnySettingSession]

\* Service v has answered, or is about to, that x is the setting k of s.
AboutTo(v, s, k) == Queued(v) /\ settingCall[v].session = s /\ k \in DOMAIN WrittenBy(v)
Claims(v, s, k, x) ==
  IF AboutTo(v, s, k) THEN x = WrittenBy(v)[k]
  ELSE k \in DOMAIN answeredSettings[v][s] /\ x = answeredSettings[v][s][k]
Accounted(s, k, x) ==
  \/ \E v \in Services : Claims(v, s, k, x)
  \/ (\A v \in Services : \A y : ~Claims(v, s, k, y)) /\ x = InitialSettings[k]

\* The last event about a setting is accounted for, and so is the setting when
\* there is none.
EventsSetting(s, k) == {e \in EventsToSet : e.session = s /\ k \in DOMAIN e.set}
SettingsFollow ==
  \A s \in SettingSessions, k \in SettingKeys :
    /\ \A e : LastIn(settingEvents, EventsSetting(s, k), e) => Accounted(s, k, e.set[k])
    /\ NoneIn(settingEvents, EventsSetting(s, k)) => Accounted(s, k, settings[s][k])

\* What is reported is what was answered, and nobody else answers that.
Reports(kind, k, x) ==
  lastBrightnessFrom[kind] \in SettingSessions =>
    k \in DOMAIN answeredSettings["screen"][lastBrightnessFrom[kind]]
      /\ answeredSettings["screen"][lastBrightnessFrom[kind]][k] = x
ReportsFollow ==
  /\ Reports("brightness", BrightnessKey, brightness_params.default_value)
  /\ Reports("autobrightness", AutobrightnessKey, brightness_params.autobrightness_supported)
  /\ \A s \in SettingSessions :
       {BrightnessKey, AutobrightnessKey} \cap DOMAIN answeredSettings["repowerd"][s] = {}

\* The control goes by what the machine in front keeps, autobrightness unless a
\* brightness was set after it.
ControlFollows ==
  /\ frontSession \in AnySettingSession
  /\ frontSession = NullSession => ~control.autobrightness
  /\ frontSession # NullSession =>
       /\ control.value = settings[frontSession][BrightnessKey]
       /\ control.autobrightness <=> (settings[frontSession][AutobrightnessKey] /\ ~overruled)

SetInv == SettingsTyped /\ SettingsFollow /\ ReportsFollow /\ ControlIsRecord /\ ControlFollows

\* The names of settings differ.
LEMMA KeysDiffer ==
  /\ TimeoutKeys \cap LidKeys = {}
  /\ CriticalKey \notin TimeoutKeys \cup LidKeys
  /\ BrightnessKey \notin TimeoutKeys \cup LidKeys \cup {CriticalKey, AutobrightnessKey}
  /\ AutobrightnessKey \notin TimeoutKeys \cup LidKeys \cup {CriticalKey}
BY DEF TimeoutKeys, LidKeys, PowerSupplies, CriticalKey, BrightnessKey, AutobrightnessKey

\* What a call sets: settings that there are, to values that the machine takes;
\* the brightness by the calls that are reported, of the screen service.
LEMMA WrittenIs ==
  ASSUME NEW v \in Services, NEW m \in MethodsOfService[v], NEW a \in SettingArguments(m), Accepted(m, a)
  PROVE  /\ Written(m, a) \in Writes
         /\ DOMAIN Written(m, a) \subseteq SettingKeys
         /\ \A k \in DOMAIN Written(m, a) : MachineKnows(k, Written(m, a)[k])
         /\ IF m = "setUserBrightness" THEN DOMAIN Written(m, a) = {BrightnessKey} /\ Written(m, a)[BrightnessKey] = a /\ a \in Nat
            ELSE BrightnessKey \notin DOMAIN Written(m, a)
         /\ IF m = "userAutobrightnessEnable"
            THEN DOMAIN Written(m, a) = {AutobrightnessKey} /\ Written(m, a)[AutobrightnessKey] = a /\ a \in BOOLEAN
            ELSE AutobrightnessKey \notin DOMAIN Written(m, a)
         /\ m \in {"setUserBrightness", "userAutobrightnessEnable"} => v = "screen"
<1>1. Written(m, a) \in Writes
  BY DEF Writes, WritesOf, AcceptedArguments, Services
<1>2. \/ /\ v = "screen"
         /\ m \in {"setUserBrightness", "userAutobrightnessEnable", "setInactivityTimeouts"}
      \/ /\ v = "repowerd"
         /\ m \in {"SetInactivityBehavior", "SetLidBehavior", "SetCriticalPowerBehavior"}
  BY DEF MethodsOfService, Services, Accepted
<1>3. \A t \in Int : TimeoutOf(t) \in Int /\ TimeoutOf(t) > 0
  BY DEF TimeoutOf, InfiniteTimeout
<1>4. CASE m = "SetInactivityBehavior"
  <2>1. a[1] \in {"display-off", "suspend"} /\ a[2] \in PowerSupplies /\ a[3] \in Int
    BY <1>4, ClientSettingsAssumption DEF SettingArguments, Accepted
  <2>2. Written(m, a) = Entry(<<a[1], a[2]>>, TimeoutOf(a[3])) /\ <<a[1], a[2]>> \in TimeoutKeys
    BY <1>4, <2>1 DEF Written, TimeoutKeys
  <2>3. DOMAIN Written(m, a) = {<<a[1], a[2]>>} /\ Written(m, a)[<<a[1], a[2]>>] = TimeoutOf(a[3])
    BY <2>2 DEF Entry
  <2> QED BY <1>1, <1>2, <1>3, <1>4, <2>1, <2>2, <2>3, KeysDiffer DEF SettingKeys, MachineKnows
<1>5. CASE m = "SetLidBehavior"
  <2>1. a[1] \in {"none", "suspend"} /\ a[2] \in PowerSupplies
    BY <1>5 DEF SettingArguments, Accepted
  <2>2. Written(m, a) = Entry(<<"lid", a[2]>>, a[1]) /\ <<"lid", a[2]>> \in LidKeys
    BY <1>5, <2>1 DEF Written, LidKeys
  <2>3. DOMAIN Written(m, a) = {<<"lid", a[2]>>} /\ Written(m, a)[<<"lid", a[2]>>] = a[1]
    BY <2>2 DEF Entry
  <2> QED BY <1>1, <1>2, <1>5, <2>1, <2>2, <2>3, KeysDiffer DEF SettingKeys, MachineKnows
<1>6. CASE m = "SetCriticalPowerBehavior"
  <2>1. a \in {"suspend", "power-off"} /\ Written(m, a) = Entry(CriticalKey, a)
    BY <1>6 DEF Accepted, Written
  <2>2. DOMAIN Written(m, a) = {CriticalKey} /\ Written(m, a)[CriticalKey] = a
    BY <2>1 DEF Entry
  <2> QED BY <1>1, <1>2, <1>6, <2>1, <2>2, KeysDiffer DEF SettingKeys, MachineKnows
<1>7. CASE m = "setUserBrightness"
  <2>1. a \in Nat /\ Written(m, a) = Entry(BrightnessKey, a)
    BY <1>7, ClientSettingsAssumption DEF SettingArguments, Written
  <2>2. DOMAIN Written(m, a) = {BrightnessKey} /\ Written(m, a)[BrightnessKey] = a
    BY <2>1 DEF Entry
  <2> QED BY <1>1, <1>2, <1>7, <2>1, <2>2, KeysDiffer DEF SettingKeys, MachineKnows
<1>8. CASE m = "userAutobrightnessEnable"
  <2>1. a \in BOOLEAN /\ Written(m, a) = Entry(AutobrightnessKey, a)
    BY <1>8 DEF SettingArguments, Written
  <2>2. DOMAIN Written(m, a) = {AutobrightnessKey} /\ Written(m, a)[AutobrightnessKey] = a
    BY <2>1 DEF Entry
  <2> QED BY <1>1, <1>2, <1>8, <2>1, <2>2, KeysDiffer DEF SettingKeys, MachineKnows
<1>9. CASE m = "setInactivityTimeouts"
  <2>1. a \in Int
    BY <1>9, ClientSettingsAssumption DEF SettingArguments
  <2>2. Written(m, a) = [k \in {"display-off"} \X PowerSupplies |-> TimeoutOf(a)]
    BY <1>9 DEF Written
  <2>3. DOMAIN Written(m, a) \subseteq TimeoutKeys /\ \A k \in DOMAIN Written(m, a) : Written(m, a)[k] = TimeoutOf(a)
    BY <2>2 DEF TimeoutKeys
  <2> QED BY <1>1, <1>2, <1>3, <1>9, <2>1, <2>3, KeysDiffer DEF SettingKeys, MachineKnows
<1> QED BY <1>2, <1>4, <1>5, <1>6, <1>7, <1>8, <1>9

\* The same of what waits at the daemon.
LEMMA WritesAre ==
  ASSUME NEW w \in Writes
  PROVE  DOMAIN w \subseteq SettingKeys /\ \A k \in DOMAIN w : MachineKnows(k, w[k])
<1>1. \E v \in Services : \E m \in MethodsOfService[v] : w \in WritesOf(m)
  BY DEF Writes, Services
<1>2. PICK v \in Services : \E m \in MethodsOfService[v] : w \in WritesOf(m)
  BY <1>1
<1>3. PICK m \in MethodsOfService[v] : w \in WritesOf(m)
  BY <1>2
<1>4. PICK a \in SettingArguments(m) : Accepted(m, a) /\ w = Written(m, a)
  BY <1>3 DEF WritesOf, AcceptedArguments
<1> QED BY <1>4, WrittenIs

\* Nothing is set yet.
LEMMA InitSetInv == SettingsInit => SetInv
<1> SUFFICES ASSUME SettingsInit PROVE SetInv
  OBVIOUS
<1>1. SettingsTyped
  <2>1. \A v \in Services : ~Pending(v)
    BY DEF SettingsInit, Pending
  <2>2. settingEvents \in Seq(EventsToSet)
    BY EmptyQueue DEF SettingsInit
  <2>3. DOMAIN settings = SettingSessions /\ \A s \in SettingSessions : DOMAIN settings[s] = SettingKeys
    BY DEF SettingsInit, InitialSettings
  <2>4. lastBrightnessFrom \in [{"brightness", "autobrightness"} -> AnySettingSession]
    BY DEF SettingsInit, AnySettingSession
  <2> QED BY <2>1, <2>2, <2>3, <2>4 DEF SettingsTyped, CallsTyped, SettingsInit
<1>2. \A v \in Services, s \in SettingSessions : DOMAIN answeredSettings[v][s] = {}
  BY DEF SettingsInit
<1>3. \A v \in Services, s \in SettingSessions : \A k, y : ~Claims(v, s, k, y)
  BY <1>2 DEF Claims, AboutTo, Queued, Pending, SettingsInit
<1>4. \A s \in SettingSessions, k \in SettingKeys : Accounted(s, k, settings[s][k])
  BY <1>3 DEF Accounted, SettingsInit
<1>5. SettingsFollow
  <2>1. \A K, x : ~LastIn(settingEvents, K, x)
    BY NoneHasNoLast DEF SettingsInit
  <2> QED BY <1>4, <2>1 DEF SettingsFollow
<1>6. ReportsFollow
  <2>1. \A b \in {"brightness", "autobrightness"} : lastBrightnessFrom[b] \notin SettingSessions
    BY ClientSettingsAssumption DEF SettingsInit
  <2>2. "repowerd" \in Services
    BY DEF Services
  <2> QED BY <1>2, <2>1, <2>2 DEF ReportsFollow, Reports
<1>7. ControlFollows
  BY DEF SettingsInit, ControlFollows, AnySettingSession
<1>8. ControlIsRecord
  BY DEF SettingsInit, ControlIsRecord
<1> QED BY <1>1, <1>5, <1>6, <1>7, <1>8 DEF SetInv

ClaimsStay ==
  \A v \in Services, s \in SettingSessions, k \in SettingKeys : \A x :
    Claims(v, s, k, x)' <=> Claims(v, s, k, x)

\* What is accounted for remains so.
LEMMA AccountsStay ==
  ASSUME ClaimsStay
  PROVE  \A s \in SettingSessions, k \in SettingKeys : \A x : Accounted(s, k, x)' <=> Accounted(s, k, x)
BY DEF ClaimsStay, Accounted

\* The services do not touch the machines and the control.
LEMMA ControlStays ==
  ASSUME SetInv, UNCHANGED machineSettingVars
  PROVE  ControlFollows' /\ ControlIsRecord'
BY DEF SetInv, ControlFollows, ControlIsRecord, machineSettingVars

\* A service takes a call.
LEMMA TakeSettingKeeps ==
  ASSUME SetInv, NEW v \in Services, TakeSettingCall(v)
  PROVE  SetInv'
<1>1. PICK m \in MethodsOfService[v], s \in AnySettingSession : \E a \in SettingArguments(m) :
        settingCall' = [settingCall EXCEPT ![v] =
           [method |-> m, arguments |-> a, session |-> s, queued |-> FALSE]]
  BY DEF TakeSettingCall, AnySettingSession
<1>2. PICK a \in SettingArguments(m) :
        settingCall' = [settingCall EXCEPT ![v] =
           [method |-> m, arguments |-> a, session |-> s, queued |-> FALSE]]
  BY <1>1
<1> DEFINE c == [method |-> m, arguments |-> a, session |-> s, queued |-> FALSE]
<1>3. /\ settingCall[v] = NoSettingCall /\ DOMAIN settingCall = Services
      /\ UNCHANGED <<settingEvents, settings, brightness_params, answeredSettings, lastBrightnessFrom>>
      /\ UNCHANGED machineSettingVars
  BY DEF TakeSettingCall, SetInv, SettingsTyped, machineSettingVars
<1>4. settingCall'[v] = c /\ DOMAIN settingCall' = Services
      /\ \A v1 \in Services \ {v} : settingCall'[v1] = settingCall[v1]
  BY <1>2, <1>3
<1>5. CallsTyped'
  <2> SUFFICES ASSUME NEW v1 \in Services, Pending(v1)'
               PROVE  LET d == settingCall'[v1] IN
                      /\ d \in [method : MethodsOfService[v1], arguments : {d.arguments},
                                session : AnySettingSession, queued : BOOLEAN]
                      /\ d.arguments \in SettingArguments(d.method)
                      /\ d.queued => Accepted(d.method, d.arguments)
    BY DEF CallsTyped
  <2>1. CASE v1 = v
    <3>1. /\ settingCall'[v1] = c /\ c.method = m /\ c.arguments = a /\ c.queued = FALSE
          /\ c \in [method : MethodsOfService[v1], arguments : {a}, session : AnySettingSession, queued : BOOLEAN]
      BY <1>4, <2>1
    <3> QED BY <3>1
  <2>2. CASE v1 # v
    <3>1. settingCall'[v1] = settingCall[v1] /\ Pending(v1)
      BY <1>4, <2>2 DEF Pending
    <3> QED BY <3>1 DEF SetInv, SettingsTyped, CallsTyped
  <2> QED BY <2>1, <2>2
<1>6. SettingsTyped'
  BY <1>3, <1>4, <1>5 DEF SetInv, SettingsTyped
<1>7. ClaimsStay
  <2> SUFFICES ASSUME NEW v1 \in Services, NEW s1 \in SettingSessions, NEW k \in SettingKeys
               PROVE  \A x : Claims(v1, s1, k, x)' <=> Claims(v1, s1, k, x)
    BY DEF ClaimsStay
  <2>1. CASE v1 = v
    <3>1. ~Queued(v) /\ ~Queued(v)'
      BY <1>3, <1>4 DEF Queued, Pending
    <3> QED BY <1>3, <2>1, <3>1 DEF Claims, AboutTo
  <2>2. CASE v1 # v
    BY <1>3, <1>4, <2>2 DEF Claims, AboutTo, Queued, Pending, WrittenBy
  <2> QED BY <2>1, <2>2
<1>8. SettingsFollow'
  BY <1>3, <1>7, AccountsStay DEF SetInv, SettingsFollow
<1>9. ReportsFollow' /\ ControlFollows' /\ ControlIsRecord'
  BY <1>3, ControlStays DEF SetInv, ReportsFollow, Reports
<1> QED BY <1>6, <1>8, <1>9 DEF SetInv

\* The event is queued at the daemon, or the call is refused.
LEMMA QueueKeeps ==
  ASSUME SetInv, NEW v \in Services, QueueSetting(v)
  PROVE  SetInv'
<1> DEFINE c == settingCall[v]
           W == Written(c.method, c.arguments)
           e == [session |-> c.session, set |-> W]
<1>1. /\ c # NoSettingCall /\ ~c.queued /\ DOMAIN settingCall = Services /\ ~Queued(v)
      /\ UNCHANGED <<settings, brightness_params, answeredSettings, lastBrightnessFrom>>
      /\ UNCHANGED machineSettingVars
  BY DEF QueueSetting, SetInv, SettingsTyped, Queued, machineSettingVars
<1>2. /\ c \in [method : MethodsOfService[v], arguments : {c.arguments},
                session : AnySettingSession, queued : BOOLEAN]
      /\ c.arguments \in SettingArguments(c.method)
  BY <1>1 DEF SetInv, SettingsTyped, CallsTyped, Pending
<1>3. ReportsFollow' /\ ControlFollows' /\ ControlIsRecord'
  BY <1>1, ControlStays DEF SetInv, ReportsFollow, Reports
<1>4. CASE ~Accepted(c.method, c.arguments)
  <2>1. settingCall' = [settingCall EXCEPT ![v] = NoSettingCall] /\ UNCHANGED settingEvents
    BY <1>4 DEF QueueSetting
  <2>2. settingCall'[v] = NoSettingCall /\ DOMAIN settingCall' = Services
        /\ \A v1 \in Services \ {v} : settingCall'[v1] = settingCall[v1]
    BY <1>1, <2>1
  <2>3. CallsTyped'
    BY <2>2 DEF CallsTyped, Pending, SetInv, SettingsTyped
  <2>4. SettingsTyped'
    BY <1>1, <2>1, <2>2, <2>3 DEF SetInv, SettingsTyped
  <2>5. ClaimsStay
    <3> SUFFICES ASSUME NEW v1 \in Services, NEW s1 \in SettingSessions, NEW k \in SettingKeys
                 PROVE  \A x : Claims(v1, s1, k, x)' <=> Claims(v1, s1, k, x)
      BY DEF ClaimsStay
    <3>1. CASE v1 = v
      <4>1. ~Queued(v)'
        BY <2>2 DEF Queued, Pending
      <4> QED BY <1>1, <3>1, <4>1 DEF Claims, AboutTo
    <3>2. CASE v1 # v
      BY <1>1, <2>2, <3>2 DEF Claims, AboutTo, Queued, Pending, WrittenBy
    <3> QED BY <3>1, <3>2
  <2>6. SettingsFollow'
    BY <1>1, <2>1, <2>5, AccountsStay DEF SetInv, SettingsFollow
  <2> QED BY <1>3, <2>4, <2>6 DEF SetInv
<1>5. CASE Accepted(c.method, c.arguments)
  <2>1. settingCall' = [settingCall EXCEPT ![v].queued = TRUE] /\ settingEvents' = Append(settingEvents, e)
    BY <1>5 DEF QueueSetting
  <2>2. /\ settingCall'[v] = [c EXCEPT !.queued = TRUE] /\ DOMAIN settingCall' = Services
        /\ \A v1 \in Services \ {v} : settingCall'[v1] = settingCall[v1]
    BY <1>1, <2>1
  <2>3. PICK d : d = settingCall'[v]
    OBVIOUS
  <2>4. /\ d.method = c.method /\ d.arguments = c.arguments /\ d.session = c.session /\ d.queued = TRUE
        /\ d \in [method : MethodsOfService[v], arguments : {c.arguments},
                  session : AnySettingSession, queued : BOOLEAN]
    BY <1>2, <2>2, <2>3
  <2>5. d # NoSettingCall
    BY <1>2, <2>4 DEF NoSettingCall
  <2>6. CallsTyped'
    <3> SUFFICES ASSUME NEW v1 \in Services, Pending(v1)'
                 PROVE  LET f == settingCall'[v1] IN
                        /\ f \in [method : MethodsOfService[v1], arguments : {f.arguments},
                                  session : AnySettingSession, queued : BOOLEAN]
                        /\ f.arguments \in SettingArguments(f.method)
                        /\ f.queued => Accepted(f.method, f.arguments)
      BY DEF CallsTyped
    <3>1. CASE v1 = v
      BY <1>2, <1>5, <2>3, <2>4, <3>1
    <3>2. CASE v1 # v
      <4>1. settingCall'[v1] = settingCall[v1] /\ Pending(v1)
        BY <2>2, <3>2 DEF Pending
      <4> QED BY <4>1 DEF SetInv, SettingsTyped, CallsTyped
    <3> QED BY <3>1, <3>2
  <2>7. W \in Writes /\ DOMAIN W \subseteq SettingKeys
    BY <1>2, <1>5, WrittenIs
  <2>8. e \in EventsToSet
    BY <1>2, <2>7 DEF EventsToSet
  <2>9. settingEvents \in Seq(EventsToSet)
    BY DEF SetInv, SettingsTyped
  <2>10. settingEvents' \in Seq(EventsToSet)
    BY <2>1, <2>8, <2>9, LastAppended
  <2>11. SettingsTyped'
    BY <1>1, <2>2, <2>6, <2>10 DEF SetInv, SettingsTyped
  <2>12. Queued(v)' /\ WrittenBy(v)' = W
    BY <2>3, <2>4, <2>5 DEF Queued, Pending, WrittenBy
  <2>13. ASSUME NEW s1 \in SettingSessions, NEW k \in SettingKeys, e \notin EventsSetting(s1, k)
         PROVE  \A x : Accounted(s1, k, x)' <=> Accounted(s1, k, x)
    <3>1. ~(c.session = s1 /\ k \in DOMAIN W)
      BY <2>8, <2>13 DEF EventsSetting
    <3>2. ~AboutTo(v, s1, k) /\ ~AboutTo(v, s1, k)'
      BY <1>1, <2>3, <2>4, <2>12, <3>1 DEF AboutTo
    <3>3. ASSUME NEW v1 \in Services PROVE \A x : Claims(v1, s1, k, x)' <=> Claims(v1, s1, k, x)
      <4>1. CASE v1 = v
        BY <1>1, <3>2, <4>1 DEF Claims
      <4>2. CASE v1 # v
        BY <1>1, <2>2, <4>2 DEF Claims, AboutTo, Queued, Pending, WrittenBy
      <4> QED BY <4>1, <4>2
    <3> QED BY <3>3 DEF Accounted
  <2>14. ASSUME NEW s1 \in SettingSessions, NEW k \in SettingKeys, e \in EventsSetting(s1, k), NEW x, x = W[k]
         PROVE  Accounted(s1, k, x)'
    <3>1. c.session = s1 /\ k \in DOMAIN W
      BY <2>14 DEF EventsSetting
    <3>2. AboutTo(v, s1, k)'
      BY <2>3, <2>4, <2>12, <3>1 DEF AboutTo
    <3>3. Claims(v, s1, k, x)'
      BY <2>12, <2>14, <3>2 DEF Claims
    <3> QED BY <3>3 DEF Accounted
  <2>15. SettingsFollow'
    <3> SUFFICES ASSUME NEW s1 \in SettingSessions, NEW k \in SettingKeys
                 PROVE  /\ \A f : LastIn(settingEvents', EventsSetting(s1, k), f) => Accounted(s1, k, f.set[k])'
                        /\ NoneIn(settingEvents', EventsSetting(s1, k)) => Accounted(s1, k, settings[s1][k])'
      BY DEF SettingsFollow
    <3>1. CASE e \in EventsSetting(s1, k)
      <4>1. ~NoneIn(settingEvents', EventsSetting(s1, k)) /\ \A f : LastIn(settingEvents', EventsSetting(s1, k), f) => f = e
        BY <2>1, <2>8, <2>9, <3>1, LastAppended
      <4>2. e.set[k] = W[k]
        OBVIOUS
      <4> QED BY <2>14, <3>1, <4>1, <4>2
    <3>2. CASE e \notin EventsSetting(s1, k)
      <4>1. /\ NoneIn(settingEvents', EventsSetting(s1, k)) => NoneIn(settingEvents, EventsSetting(s1, k))
            /\ \A f : LastIn(settingEvents', EventsSetting(s1, k), f) => LastIn(settingEvents, EventsSetting(s1, k), f)
        BY <2>1, <2>8, <2>9, <3>2, LastAppended
      <4>2. \A x : Accounted(s1, k, x)' <=> Accounted(s1, k, x)
        BY <2>13, <3>2
      <4> QED BY <1>1, <4>1, <4>2 DEF SetInv, SettingsFollow
    <3> QED BY <3>1, <3>2
  <2> QED BY <1>3, <2>11, <2>15 DEF SetInv
<1> QED BY <1>4, <1>5

\* A service answers and signals what was set.
LEMMA AnswerKeeps ==
  ASSUME SetInv, NEW v \in Services, AnswerSetting(v)
  PROVE  SetInv'
<1>1. PICK c : c = settingCall[v]
  OBVIOUS
<1>2. /\ c # NoSettingCall /\ c.queued /\ DOMAIN settingCall = Services /\ Queued(v)
      /\ settingCall' = [settingCall EXCEPT ![v] = NoSettingCall]
      /\ UNCHANGED <<settingEvents, settings>> /\ UNCHANGED machineSettingVars
  BY <1>1 DEF AnswerSetting, SetInv, SettingsTyped, Queued, Pending, machineSettingVars
<1>3. /\ c.method \in MethodsOfService[v] /\ c.session \in AnySettingSession
      /\ c.arguments \in SettingArguments(c.method) /\ Accepted(c.method, c.arguments)
  BY <1>1, <1>2 DEF SetInv, SettingsTyped, CallsTyped, Pending
<1>4. PICK W : W = Written(c.method, c.arguments)
  OBVIOUS
<1>5a. PICK m \in MethodsOfService[v] : m = c.method
  BY <1>3
<1>5b. PICK a \in SettingArguments(m) : a = c.arguments /\ Accepted(m, a) /\ W = Written(m, a)
  BY <1>3, <1>4, <1>5a
<1>5. /\ DOMAIN W \subseteq SettingKeys
      /\ IF c.method = "setUserBrightness"
         THEN DOMAIN W = {BrightnessKey} /\ W[BrightnessKey] = c.arguments /\ c.arguments \in Nat
         ELSE BrightnessKey \notin DOMAIN W
      /\ IF c.method = "userAutobrightnessEnable"
         THEN DOMAIN W = {AutobrightnessKey} /\ W[AutobrightnessKey] = c.arguments /\ c.arguments \in BOOLEAN
         ELSE AutobrightnessKey \notin DOMAIN W
      /\ c.method \in {"setUserBrightness", "userAutobrightnessEnable"} => v = "screen"
  <2>1. /\ DOMAIN Written(m, a) \subseteq SettingKeys
        /\ IF m = "setUserBrightness"
           THEN DOMAIN Written(m, a) = {BrightnessKey} /\ Written(m, a)[BrightnessKey] = a /\ a \in Nat
           ELSE BrightnessKey \notin DOMAIN Written(m, a)
        /\ IF m = "userAutobrightnessEnable"
           THEN DOMAIN Written(m, a) = {AutobrightnessKey} /\ Written(m, a)[AutobrightnessKey] = a /\ a \in BOOLEAN
           ELSE AutobrightnessKey \notin DOMAIN Written(m, a)
        /\ m \in {"setUserBrightness", "userAutobrightnessEnable"} => v = "screen"
    BY <1>5b, WrittenIs
  <2> QED BY <1>5a, <1>5b, <2>1
<1>6. settingCall'[v] = NoSettingCall /\ DOMAIN settingCall' = Services
      /\ \A v1 \in Services \ {v} : settingCall'[v1] = settingCall[v1]
  BY <1>2
<1>7. answeredSettings' = IF c.session = NullSession THEN answeredSettings
          ELSE [answeredSettings EXCEPT ![v][c.session] = Over(W, @)]
  BY <1>1, <1>4 DEF AnswerSetting
<1>8. /\ DOMAIN answeredSettings' = Services
      /\ \A v1 \in Services : DOMAIN answeredSettings'[v1] = SettingSessions
      /\ \A v1 \in Services, s1 \in SettingSessions :
           answeredSettings'[v1][s1] = IF v1 = v /\ s1 = c.session THEN Over(W, answeredSettings[v1][s1])
                                       ELSE answeredSettings[v1][s1]
  <2>1. DOMAIN answeredSettings = Services /\ \A v1 \in Services : DOMAIN answeredSettings[v1] = SettingSessions
    BY DEF SetInv, SettingsTyped
  <2>2. CASE c.session = NullSession
    BY <1>7, <2>1, <2>2, ClientSettingsAssumption
  <2>3. CASE c.session # NullSession
    <3>1. c.session \in SettingSessions
      BY <1>3, <2>3 DEF AnySettingSession
    <3> QED BY <1>7, <2>1, <2>3, <3>1
  <2> QED BY <2>2, <2>3
<1>9. \A s1 \in SettingSessions : \A k :
        /\ k \in DOMAIN answeredSettings'[v][s1] <=>
             k \in DOMAIN answeredSettings[v][s1] \/ (s1 = c.session /\ k \in DOMAIN W)
        /\ k \in DOMAIN answeredSettings'[v][s1] =>
             answeredSettings'[v][s1][k] = IF s1 = c.session /\ k \in DOMAIN W THEN W[k]
                                           ELSE answeredSettings[v][s1][k]
  <2> SUFFICES ASSUME NEW s1 \in SettingSessions, NEW k
               PROVE /\ k \in DOMAIN answeredSettings'[v][s1] <=>
                          k \in DOMAIN answeredSettings[v][s1] \/ (s1 = c.session /\ k \in DOMAIN W)
                     /\ k \in DOMAIN answeredSettings'[v][s1] =>
                          answeredSettings'[v][s1][k] = IF s1 = c.session /\ k \in DOMAIN W THEN W[k]
                                                        ELSE answeredSettings[v][s1][k]
    OBVIOUS
  <2>1. PICK g : g = answeredSettings[v][s1]
    OBVIOUS
  <2>2. PICK h : h = answeredSettings'[v][s1]
    OBVIOUS
  <2>3. h = IF s1 = c.session THEN Over(W, g) ELSE g
    BY <1>8, <2>1, <2>2
  <2> QED BY <2>1, <2>2, <2>3 DEF Over
<1>10. /\ brightness_params' = ParamsAfter(brightness_params, c.method, c.arguments)
       /\ lastBrightnessFrom \in [{"brightness", "autobrightness"} -> AnySettingSession]
       /\ brightness_params \in [default_value : Nat, autobrightness_supported : BOOLEAN]
  BY <1>1 DEF AnswerSetting, SetInv, SettingsTyped
<1>11. /\ lastBrightnessFrom' \in [{"brightness", "autobrightness"} -> AnySettingSession]
       /\ lastBrightnessFrom'["brightness"] =
            IF c.method = "setUserBrightness" THEN c.session ELSE lastBrightnessFrom["brightness"]
       /\ lastBrightnessFrom'["autobrightness"] =
            IF c.method = "userAutobrightnessEnable" THEN c.session ELSE lastBrightnessFrom["autobrightness"]
  <2>1. CASE c.method = "setUserBrightness"
    <3>1. lastBrightnessFrom' =
            [n \in DOMAIN lastBrightnessFrom |-> IF n \in {"brightness"} THEN c.session ELSE lastBrightnessFrom[n]]
      BY <1>1, <2>1 DEF AnswerSetting
    <3> QED BY <1>3, <1>10, <2>1, <3>1
  <2>2. CASE c.method = "userAutobrightnessEnable"
    <3>1. lastBrightnessFrom' =
            [n \in DOMAIN lastBrightnessFrom |-> IF n \in {"autobrightness"} THEN c.session ELSE lastBrightnessFrom[n]]
      BY <1>1, <2>2 DEF AnswerSetting
    <3> QED BY <1>3, <1>10, <2>2, <3>1
  <2>3. CASE c.method \notin {"setUserBrightness", "userAutobrightnessEnable"}
    <3>1. lastBrightnessFrom' =
            [n \in DOMAIN lastBrightnessFrom |-> IF n \in {} THEN c.session ELSE lastBrightnessFrom[n]]
      BY <1>1, <2>3 DEF AnswerSetting
    <3> QED BY <1>10, <2>3, <3>1
  <2> QED BY <2>1, <2>2, <2>3
<1>12. /\ brightness_params' \in [default_value : Nat, autobrightness_supported : BOOLEAN]
       /\ brightness_params'.default_value =
            IF c.method = "setUserBrightness" THEN c.arguments ELSE brightness_params.default_value
       /\ brightness_params'.autobrightness_supported =
            IF c.method = "userAutobrightnessEnable" THEN c.arguments
            ELSE brightness_params.autobrightness_supported
  BY <1>5, <1>10 DEF ParamsAfter
<1>13. CallsTyped'
  BY <1>6 DEF CallsTyped, Pending, SetInv, SettingsTyped
<1>14. SettingsTyped'
  BY <1>2, <1>6, <1>8, <1>11, <1>12, <1>13 DEF SetInv, SettingsTyped
<1>15. ClaimsStay
  <2> SUFFICES ASSUME NEW v1 \in Services, NEW s1 \in SettingSessions, NEW k \in SettingKeys
               PROVE  \A x : Claims(v1, s1, k, x)' <=> Claims(v1, s1, k, x)
    BY DEF ClaimsStay
  <2>1. CASE v1 # v
    <3>1. answeredSettings'[v1][s1] = answeredSettings[v1][s1] /\ settingCall'[v1] = settingCall[v1]
      BY <1>6, <1>8, <2>1
    <3> QED BY <3>1 DEF Claims, AboutTo, Queued, Pending, WrittenBy
  <2>2. CASE v1 = v
    <3>1. ~AboutTo(v, s1, k)'
      BY <1>6 DEF AboutTo, Queued, Pending
    <3>2. AboutTo(v, s1, k) <=> s1 = c.session /\ k \in DOMAIN W
      BY <1>1, <1>2, <1>4 DEF AboutTo, WrittenBy
    <3>3. WrittenBy(v) = W
      BY <1>1, <1>4 DEF WrittenBy
    <3>4. CASE s1 = c.session
      <4>1. CASE k \in DOMAIN W
        BY <1>9, <2>2, <3>1, <3>2, <3>3, <3>4, <4>1 DEF Claims
      <4>2. CASE k \notin DOMAIN W
        BY <1>9, <2>2, <3>1, <3>2, <3>4, <4>2 DEF Claims
      <4> QED BY <4>1, <4>2
    <3>5. CASE s1 # c.session
      <4>1. answeredSettings'[v][s1] = answeredSettings[v][s1]
        BY <1>8, <3>5
      <4> QED BY <2>2, <3>1, <3>2, <3>5, <4>1 DEF Claims
    <3> QED BY <3>4, <3>5
  <2> QED BY <2>1, <2>2
<1>16. SettingsFollow'
  BY <1>2, <1>15, AccountsStay DEF SetInv, SettingsFollow
<1>17. "screen" \in Services /\ "repowerd" \in Services
  BY DEF Services
<1>18. ASSUME NEW s \in SettingSessions, NEW k, k \notin DOMAIN W, NEW x,
              k \in DOMAIN answeredSettings["screen"][s], answeredSettings["screen"][s][k] = x
       PROVE  k \in DOMAIN answeredSettings'["screen"][s] /\ answeredSettings'["screen"][s][k] = x
  <2>1. CASE v = "screen"
    BY <1>9, <1>18, <2>1
  <2>2. CASE v # "screen"
    BY <1>8, <1>17, <1>18, <2>2
  <2> QED BY <2>1, <2>2
<1>19. ASSUME NEW k \in DOMAIN W, v = "screen", c.session \in SettingSessions
       PROVE  k \in DOMAIN answeredSettings'["screen"][c.session] /\ answeredSettings'["screen"][c.session][k] = W[k]
  BY <1>9, <1>19
<1>20. Reports("brightness", BrightnessKey, brightness_params.default_value)'
  <2>1. CASE c.method = "setUserBrightness"
    BY <1>5, <1>11, <1>12, <1>19, <2>1 DEF Reports
  <2>2. CASE c.method # "setUserBrightness"
    BY <1>5, <1>11, <1>12, <1>18, <2>2 DEF Reports, SetInv, ReportsFollow
  <2> QED BY <2>1, <2>2
<1>21. Reports("autobrightness", AutobrightnessKey, brightness_params.autobrightness_supported)'
  <2>1. CASE c.method = "userAutobrightnessEnable"
    BY <1>5, <1>11, <1>12, <1>19, <2>1 DEF Reports
  <2>2. CASE c.method # "userAutobrightnessEnable"
    BY <1>5, <1>11, <1>12, <1>18, <2>2 DEF Reports, SetInv, ReportsFollow
  <2> QED BY <2>1, <2>2
<1>22. ASSUME NEW s \in SettingSessions
       PROVE  {BrightnessKey, AutobrightnessKey} \cap DOMAIN answeredSettings'["repowerd"][s] = {}
  <2>1. {BrightnessKey, AutobrightnessKey} \cap DOMAIN answeredSettings["repowerd"][s] = {}
    BY DEF SetInv, ReportsFollow
  <2>2. v = "repowerd" => {BrightnessKey, AutobrightnessKey} \cap DOMAIN W = {}
    BY <1>5
  <2>3. CASE v = "repowerd"
    BY <1>9, <2>1, <2>2, <2>3
  <2>4. CASE v # "repowerd"
    <3>1. answeredSettings'["repowerd"][s] = answeredSettings["repowerd"][s]
      BY <1>8, <1>17, <2>4
    <3> QED BY <2>1, <3>1
  <2> QED BY <2>3, <2>4
<1>23. ControlFollows' /\ ControlIsRecord'
  BY <1>2, ControlStays
<1> QED BY <1>14, <1>16, <1>20, <1>21, <1>22, <1>23 DEF SetInv, ReportsFollow

\* The daemon's thread hands an event to its machine.
LEMMA HandleKeeps ==
  ASSUME SetInv, HandleSetting
  PROVE  SetInv'
<1>1. PICK e : e = Head(settingEvents)
  OBVIOUS
<1>2. /\ settingEvents \in Seq(EventsToSet) /\ settingEvents # <<>> /\ settingEvents' = Tail(settingEvents)
      /\ UNCHANGED <<settingCall, settingCallsMade, brightness_params, answeredSettings, lastBrightnessFrom>>
      /\ UNCHANGED frontSession
  BY DEF HandleSetting, SetInv, SettingsTyped, callSettingVars
<1>3. settingEvents' \in Seq(EventsToSet) /\ e \in EventsToSet
  BY <1>1, <1>2, LastTaken
<1>4. e.session \in AnySettingSession /\ DOMAIN e.set \subseteq SettingKeys
      /\ \A k \in DOMAIN e.set : MachineKnows(k, e.set[k])
  BY <1>3, WritesAre DEF EventsToSet
<1>5. {k \in DOMAIN e.set : MachineKnows(k, e.set[k])} = DOMAIN e.set
  BY <1>4
<1>6. settings' = IF e.session = NullSession THEN settings
                  ELSE [settings EXCEPT ![e.session] = Over(Restrict(e.set, DOMAIN e.set), @)]
  BY <1>1, <1>5 DEF HandleSetting
<1>7. DOMAIN settings = SettingSessions /\ \A s \in SettingSessions : DOMAIN settings[s] = SettingKeys
  BY DEF SetInv, SettingsTyped
<1>8. /\ DOMAIN settings' = SettingSessions
      /\ \A s \in SettingSessions :
           settings'[s] = IF s = e.session THEN Over(Restrict(e.set, DOMAIN e.set), settings[s]) ELSE settings[s]
  <2>1. CASE e.session = NullSession
    BY <1>6, <1>7, <2>1, ClientSettingsAssumption
  <2>2. CASE e.session # NullSession
    <3>1. e.session \in SettingSessions
      BY <1>4, <2>2 DEF AnySettingSession
    <3> QED BY <1>6, <1>7, <2>2, <3>1
  <2> QED BY <2>1, <2>2
<1>9. \A s \in SettingSessions :
        /\ DOMAIN settings'[s] = SettingKeys
        /\ \A k \in SettingKeys :
             settings'[s][k] = IF s = e.session /\ k \in DOMAIN e.set THEN e.set[k] ELSE settings[s][k]
  <2> SUFFICES ASSUME NEW s \in SettingSessions
               PROVE /\ DOMAIN settings'[s] = SettingKeys
                     /\ \A k \in SettingKeys :
                          settings'[s][k] = IF s = e.session /\ k \in DOMAIN e.set THEN e.set[k] ELSE settings[s][k]
    OBVIOUS
  <2>1. CASE s # e.session
    BY <1>7, <1>8, <2>1
  <2>2. CASE s = e.session
    <3>1. DOMAIN settings[s] = SettingKeys /\ settings'[s] = Over(Restrict(e.set, DOMAIN e.set), settings[s])
      BY <1>7, <1>8, <2>2
    <3> QED BY <1>4, <2>2, <3>1 DEF Over, Restrict
  <2> QED BY <2>1, <2>2
<1>10. CallsTyped'
  BY <1>2 DEF CallsTyped, Pending, SetInv, SettingsTyped
<1>11. SettingsTyped'
  BY <1>2, <1>3, <1>8, <1>9, <1>10 DEF SetInv, SettingsTyped
<1>12. ReportsFollow'
  BY <1>2 DEF SetInv, ReportsFollow, Reports
<1>13. ClaimsStay
  BY <1>2 DEF ClaimsStay, Claims, AboutTo, Queued, Pending, WrittenBy
<1>14. SettingsFollow'
  <2> SUFFICES ASSUME NEW s \in SettingSessions, NEW k \in SettingKeys
               PROVE  /\ \A f : LastIn(settingEvents', EventsSetting(s, k), f) => Accounted(s, k, f.set[k])'
                      /\ NoneIn(settingEvents', EventsSetting(s, k)) => Accounted(s, k, settings[s][k])'
    BY DEF SettingsFollow
  <2>1. PICK K : K = EventsSetting(s, k)
    OBVIOUS
  <2>2. /\ \A f : LastIn(settingEvents', K, f) => LastIn(settingEvents, K, f)
        /\ NoneIn(settingEvents', K) /\ e \in K => LastIn(settingEvents, K, e)
        /\ NoneIn(settingEvents', K) /\ e \notin K => NoneIn(settingEvents, K)
    BY <1>1, <1>2, LastTaken
  <2>3. \A x : Accounted(s, k, x)' <=> Accounted(s, k, x)
    BY <1>13, AccountsStay
  <2>4. e \in K <=> s = e.session /\ k \in DOMAIN e.set
    BY <1>3, <2>1 DEF EventsSetting
  <2>5. ASSUME NoneIn(settingEvents', K), NEW x, x = settings'[s][k] PROVE Accounted(s, k, x)
    <3>1. CASE e \in K
      <4>1. x = e.set[k]
        BY <1>9, <2>4, <2>5, <3>1
      <4> QED BY <2>1, <2>2, <2>5, <3>1, <4>1 DEF SetInv, SettingsFollow
    <3>2. CASE e \notin K
      <4>1. x = settings[s][k]
        BY <1>9, <2>4, <2>5, <3>2
      <4> QED BY <2>1, <2>2, <2>5, <3>2, <4>1 DEF SetInv, SettingsFollow
    <3> QED BY <3>1, <3>2
  <2> QED BY <2>1, <2>2, <2>3, <2>5 DEF SetInv, SettingsFollow
<1>15. ControlFollows'
  <2>1. PICK front \in BOOLEAN : front <=> (e.session = frontSession /\ frontSession # NullSession)
    OBVIOUS
  <2>2. /\ control' = IF front THEN ControlAfter(control, e.set) ELSE control
        /\ overruled' = IF ~front THEN overruled
                        ELSE BrightnessKey \in DOMAIN e.set
                               \/ (overruled /\ AutobrightnessKey \notin DOMAIN e.set)
    BY <1>1, <2>1 DEF HandleSetting
  <2>3. ControlFollows
    BY DEF SetInv
  <2>4. BrightnessKey \in SettingKeys /\ AutobrightnessKey \in SettingKeys
    BY DEF SettingKeys
  <2>5. CASE ~front
    <3>1. control' = control /\ overruled' = overruled
      BY <2>2, <2>5
    <3>2. CASE frontSession = NullSession
      BY <1>2, <2>3, <3>1, <3>2 DEF ControlFollows
    <3>3. CASE frontSession # NullSession
      <4>1. frontSession \in SettingSessions /\ frontSession # e.session
        BY <2>1, <2>3, <2>5, <3>3 DEF ControlFollows, AnySettingSession
      <4>2. settings'[frontSession] = settings[frontSession]
        BY <1>8, <4>1
      <4> QED BY <1>2, <2>3, <3>1, <3>3, <4>2 DEF ControlFollows
    <3> QED BY <3>2, <3>3
  <2>6. CASE front
    <3>1. e.session = frontSession /\ frontSession # NullSession /\ frontSession \in SettingSessions
      BY <2>1, <2>3, <2>6 DEF ControlFollows, AnySettingSession
    <3>2. /\ settings'[frontSession][BrightnessKey] =
               IF BrightnessKey \in DOMAIN e.set THEN e.set[BrightnessKey] ELSE settings[frontSession][BrightnessKey]
          /\ settings'[frontSession][AutobrightnessKey] =
               IF AutobrightnessKey \in DOMAIN e.set THEN e.set[AutobrightnessKey]
               ELSE settings[frontSession][AutobrightnessKey]
      BY <1>9, <2>4, <3>1
    <3>3. /\ control.value = settings[frontSession][BrightnessKey]
          /\ control.autobrightness <=> (settings[frontSession][AutobrightnessKey] /\ ~overruled)
      BY <2>3, <3>1 DEF ControlFollows
    <3>4. CASE BrightnessKey \in DOMAIN e.set
      <4>1. control' = [value |-> e.set[BrightnessKey], autobrightness |-> FALSE] /\ overruled'
        BY <2>2, <2>6, <3>4 DEF ControlAfter
      <4> QED BY <1>2, <2>3, <3>1, <3>2, <3>4, <4>1 DEF ControlFollows
    <3>5. CASE BrightnessKey \notin DOMAIN e.set /\ AutobrightnessKey \in DOMAIN e.set
      <4>1. control' = [control EXCEPT !.autobrightness = e.set[AutobrightnessKey]] /\ ~overruled'
        BY <2>2, <2>6, <3>5 DEF ControlAfter
      <4>2. ControlIsRecord
        BY DEF SetInv
      <4>3. control'.value = control.value /\ control'.autobrightness = e.set[AutobrightnessKey]
        BY <4>1, <4>2 DEF ControlIsRecord
      <4> QED BY <1>2, <2>3, <3>1, <3>2, <3>3, <3>5, <4>1, <4>3 DEF ControlFollows
    <3>6. CASE BrightnessKey \notin DOMAIN e.set /\ AutobrightnessKey \notin DOMAIN e.set
      <4>1. control' = control /\ (overruled' <=> overruled)
        BY <2>2, <2>6, <3>6 DEF ControlAfter
      <4> QED BY <1>2, <2>3, <3>1, <3>2, <3>3, <3>6, <4>1 DEF ControlFollows
    <3> QED BY <3>4, <3>5, <3>6
  <2> QED BY <2>5, <2>6
<1>16. ControlIsRecord'
  <2>1. ControlIsRecord
    BY DEF SetInv
  <2>2. control' = control \/ control' = ControlAfter(control, e.set)
    BY <1>1 DEF HandleSetting
  <2> QED BY <2>1, <2>2 DEF ControlIsRecord, ControlAfter
<1> QED BY <1>11, <1>12, <1>14, <1>15, <1>16 DEF SetInv

\* Another session comes to the front.
LEMMA FrontKeeps ==
  ASSUME SetInv, NEW s \in AnySettingSession, SessionComesToFront(s)
  PROVE  SetInv'
<1>1. /\ UNCHANGED <<settingCall, settingEvents, settings, brightness_params, answeredSettings,
                     lastBrightnessFrom>>
      /\ frontSession' = s /\ ~overruled'
      /\ control' =
           IF s # NullSession
           THEN [value |-> settings[s][BrightnessKey], autobrightness |-> settings[s][AutobrightnessKey]]
           ELSE IF frontSession # NullSession THEN [control EXCEPT !.autobrightness = FALSE] ELSE control
  BY DEF SessionComesToFront, callSettingVars
<1>2. ControlIsRecord'
  <2>1. ControlIsRecord
    BY DEF SetInv
  <2> QED BY <1>1, <2>1 DEF ControlIsRecord
<1>3. SettingsTyped'
  <2>1. CallsTyped'
    BY <1>1 DEF SetInv, SettingsTyped, CallsTyped, Pending
  <2> QED BY <1>1, <2>1 DEF SetInv, SettingsTyped
<1>4. SettingsFollow' /\ ReportsFollow'
  <2>1. ClaimsStay
    BY <1>1 DEF ClaimsStay, Claims, AboutTo, Queued, Pending, WrittenBy
  <2>2. SettingsFollow'
    BY <1>1, <2>1, AccountsStay DEF SetInv, SettingsFollow
  <2>3. ReportsFollow'
    BY <1>1 DEF SetInv, ReportsFollow, Reports
  <2> QED BY <2>2, <2>3
<1>5. ControlFollows'
  <2>1. CASE s # NullSession
    BY <1>1, <2>1 DEF ControlFollows
  <2>2. CASE s = NullSession /\ frontSession # NullSession
    <3>1. ControlIsRecord /\ control' = [control EXCEPT !.autobrightness = FALSE]
      BY <1>1, <2>2 DEF SetInv
    <3>2. control'.autobrightness = FALSE
      BY <3>1 DEF ControlIsRecord
    <3> QED BY <1>1, <2>2, <3>2 DEF ControlFollows
  <2>3. CASE s = NullSession /\ frontSession = NullSession
    BY <1>1, <2>3 DEF SetInv, ControlFollows
  <2> QED BY <2>1, <2>2, <2>3
<1> QED BY <1>2, <1>3, <1>4, <1>5 DEF SetInv

\* Every step.
LEMMA NextSetInv == SetInv /\ [SettingsNext]_settingVars => SetInv'
<1> SUFFICES ASSUME SetInv, [SettingsNext]_settingVars PROVE SetInv'
  OBVIOUS
<1>1. CASE UNCHANGED settingVars
  BY <1>1 DEF settingVars, SetInv, SettingsTyped, CallsTyped, Pending, SettingsFollow, Accounted, Claims,
              AboutTo, Queued, WrittenBy, ReportsFollow, Reports, ControlFollows, ControlIsRecord,
              callSettingVars, machineSettingVars
<1>2. CASE HandleSetting \/ \E s \in AnySettingSession : SessionComesToFront(s)
  BY <1>2, HandleKeeps, FrontKeeps
<1>3. CASE \E v \in Services : TakeSettingCall(v) \/ QueueSetting(v) \/ AnswerSetting(v)
  BY <1>3, TakeSettingKeeps, QueueKeeps, AnswerKeeps
<1> QED BY <1>1, <1>2, <1>3 DEF SettingsNext, AnySettingSession

\* ClientSettings: for any sessions, arguments and calls on two loops, what was
\* answered as set, and what is reported of the brightness, is what the machine
\* of the session keeps, and the control is told it when that session is in
\* front, but for autobrightness that a brightness has overruled, once nothing
\* is under way.
THEOREM SettingsCorrect == SettingsSpec => []SettingsAreReported
<1>1. SetInv => SettingsAreReported
  <2> SUFFICES ASSUME SetInv, SettingsAreQuiet PROVE SettingsAreReported
    BY DEF SettingsAreReported, SettingsAreAnswered, BrightnessIsReported, BrightnessIsCarriedOut
  <2>1. \A K : NoneIn(settingEvents, K)
    BY NoneHasNoLast DEF SettingsAreQuiet
  <2>2. \A v \in Services : \A s, k : ~AboutTo(v, s, k)
    BY DEF SettingsAreQuiet, AboutTo, Queued, Pending
  <2>3. \A s \in SettingSessions, k \in SettingKeys : Accounted(s, k, settings[s][k])
    BY <2>1 DEF SetInv, SettingsFollow
  <2>4. ASSUME NEW s \in SettingSessions, NEW k \in SettingKeys
        PROVE  settings[s][k] \in
                 IF {v \in Services : k \in DOMAIN answeredSettings[v][s]} = {} THEN {InitialSettings[k]}
                 ELSE {answeredSettings[v][s][k] : v \in {u \in Services : k \in DOMAIN answeredSettings[u][s]}}
    BY <2>2, <2>3 DEF Accounted, Claims
  <2>5. SettingsAreAnswered
    BY <2>4 DEF SettingsAreAnswered
  <2>6. ASSUME NEW s \in SettingSessions, NEW k \in {BrightnessKey, AutobrightnessKey},
               k \in DOMAIN answeredSettings["screen"][s]
        PROVE  settings[s][k] = answeredSettings["screen"][s][k]
    <3>1. k \in SettingKeys /\ k \notin DOMAIN answeredSettings["repowerd"][s]
      BY DEF SettingKeys, SetInv, ReportsFollow
    <3> QED BY <2>2, <2>3, <2>6, <3>1 DEF Accounted, Claims, Services
  <2>7. BrightnessIsReported
    BY <2>6 DEF SetInv, ReportsFollow, Reports, BrightnessIsReported
  <2>8. BrightnessIsCarriedOut
    BY <2>7 DEF SetInv, ControlFollows, AnySettingSession, BrightnessIsReported, BrightnessIsCarriedOut,
                SettingsTyped
  <2> QED BY <2>5, <2>7, <2>8 DEF SettingsAreReported
<1> QED BY <1>1, InitSetInv, NextSetInv, PTL DEF SettingsSpec

=============================================================================
