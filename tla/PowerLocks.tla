----------------------------- MODULE PowerLocks -----------------------------
(***************************************************************************)
(* Automatic suspend: the wake locks that the two system power controls    *)
(* take in the kernel, the temporary inhibitions that end by themselves,   *)
(* and the thread of libsuspend that puts the system to sleep.  The thread *)
(* takes none of the locks of the controls; all that keeps it from falling *)
(* asleep under a new wake lock is the kernel's count of wakeup events,    *)
(* which it reads before it decides and writes back after.                 *)
(***************************************************************************)
EXTENDS Naturals

CONSTANTS
  InhibitionNames,  \* what inhibit_suspend_for is called for
  MaxInhibitions    \* bound: how often

ASSUME PowerLocksAssumption == MaxInhibitions \in Nat

\* The id of the state machines' disallowance, and of an inhibition.
MachineId == [name |-> "repowerd_default_state_machine", id |-> 0]
InhibitionIds == [name : InhibitionNames, id : 1 .. MaxInhibitions]

\* Names of locks that are no client's id.
Lock(n) == [name |-> n, id |-> 0]
CallbackLock == Lock("repowerd_wakeup_callback")
SharedLock == Lock("repowerd")

VARIABLES
  powerControl,          \* which control default_daemon_config chose
  suspend_disallowances, \* of LibsuspendSystemPowerControl
  lockWrite,             \* the write to the kernel that suspend_mutex covers
  wakeLocks,             \* of the kernel
  countIsCurrent,        \* the count that the thread read is the kernel's
  suspend_lockout,       \* the semaphore of libsuspend
  suspendThread,         \* where its thread is
  lastInhibition,        \* id of RealTemporarySuspendInhibition
  inhibitionCalls,       \* inhibitions that are being made
  inhibitions            \* those made that have not timed out

inhibitionVars == <<lastInhibition, inhibitionCalls, inhibitions>>
threadVars == <<suspend_lockout, suspendThread>>
powerVars == <<powerControl, suspend_disallowances, lockWrite, wakeLocks,
               countIsCurrent, threadVars, inhibitionVars>>

PowerInit ==
  /\ powerControl \in {"logind", "libsuspend"}
  /\ suspend_disallowances = {} /\ lockWrite = "none" /\ wakeLocks = {}
  /\ countIsCurrent = FALSE
  /\ suspend_lockout = 0 /\ suspendThread = "none"
  /\ lastInhibition = 0 /\ inhibitionCalls = {} /\ inhibitions = {}

UserSpaceRuns == suspendThread # "asleep"

\* Taking a wake lock is a wakeup event.
AcquireLock(l) == wakeLocks' = wakeLocks \cup {l} /\ countIsCurrent' = FALSE
ReleaseLock(l) == wakeLocks' = wakeLocks \ {l} /\ UNCHANGED countIsCurrent

-----------------------------------------------------------------------------
(* The two controls.  A write to the kernel is one call; libsuspend's      *)
(* control first changes its set, and writes only at the first and last.   *)

disallow_automatic_suspend(i) ==
  /\ lockWrite = "none"
  /\ \/ /\ powerControl = "logind"
        /\ AcquireLock(i)
        /\ UNCHANGED <<suspend_disallowances, lockWrite>>
     \/ /\ powerControl = "libsuspend"
        /\ suspend_disallowances' = suspend_disallowances \cup {i}
        /\ lockWrite' = IF suspend_disallowances = {} THEN "acquire" ELSE "none"
        /\ UNCHANGED <<wakeLocks, countIsCurrent>>

\* Mutant: any allowance releases the lock.
AllowReleasesForAll(i) ==
  /\ lockWrite = "none"
  /\ \/ /\ powerControl = "logind"
        /\ ReleaseLock(i)
        /\ UNCHANGED <<suspend_disallowances, lockWrite>>
     \/ /\ powerControl = "libsuspend"
        /\ suspend_disallowances' = suspend_disallowances \ {i}
        /\ lockWrite' = "release"
        /\ UNCHANGED <<wakeLocks, countIsCurrent>>

allow_automatic_suspend(i) ==
  /\ lockWrite = "none"
  /\ \/ /\ powerControl = "logind"
        /\ ReleaseLock(i)
        /\ UNCHANGED <<suspend_disallowances, lockWrite>>
     \/ /\ powerControl = "libsuspend"
        /\ suspend_disallowances' = suspend_disallowances \ {i}
        /\ lockWrite' = IF suspend_disallowances = {i} THEN "release" ELSE "none"
        /\ UNCHANGED <<wakeLocks, countIsCurrent>>

WriteLock ==
  /\ UserSpaceRuns
  /\ \/ lockWrite = "acquire" /\ AcquireLock(SharedLock)
     \/ lockWrite = "release" /\ ReleaseLock(SharedLock)
  /\ lockWrite' = "none"
  /\ UNCHANGED <<powerControl, suspend_disallowances, threadVars, inhibitionVars>>

\* The state machines' own disallowance, on the daemon's thread.
MachineDisallows ==
  /\ UserSpaceRuns
  /\ disallow_automatic_suspend(MachineId)
  /\ UNCHANGED <<powerControl, threadVars, inhibitionVars>>

MachineAllows ==
  /\ UserSpaceRuns
  /\ allow_automatic_suspend(MachineId)
  /\ UNCHANGED <<powerControl, threadVars, inhibitionVars>>

-----------------------------------------------------------------------------
(* RealTemporarySuspendInhibition, called from the threads of the power    *)
(* source and of the wakeups.                                              *)

\* Mutant: the id is the name alone.
NamedInhibition(name, n) == [name |-> name, id |-> 1]

\* suspend_id is the name and a number of its own for each call.
InhibitionId(name, n) == [name |-> name, id |-> n]

InhibitSuspendFor ==
  /\ UserSpaceRuns
  /\ lastInhibition < MaxInhibitions
  /\ lastInhibition' = lastInhibition + 1
  /\ \E name \in InhibitionNames :
       /\ disallow_automatic_suspend(InhibitionId(name, lastInhibition'))
       /\ inhibitionCalls' = inhibitionCalls \cup {[name |-> name, id |-> lastInhibition']}
  /\ UNCHANGED <<powerControl, threadVars, inhibitions>>

\* disallow_automatic_suspend has returned and the end is scheduled.
ScheduleEnd ==
  /\ UserSpaceRuns /\ lockWrite = "none"
  /\ \E i \in inhibitionCalls :
       /\ inhibitionCalls' = inhibitionCalls \ {i}
       /\ inhibitions' = inhibitions \cup {i}
  /\ UNCHANGED <<powerControl, suspend_disallowances, lockWrite, wakeLocks, countIsCurrent,
                 threadVars, lastInhibition>>

\* Mutant: the scheduled end does not allow anything.
EndInhibitionAllowsNothing ==
  /\ UserSpaceRuns /\ lockWrite = "none"
  /\ \E i \in inhibitions : inhibitions' = inhibitions \ {i}
  /\ UNCHANGED <<powerControl, suspend_disallowances, lockWrite, wakeLocks, countIsCurrent,
                 threadVars, lastInhibition, inhibitionCalls>>

EndInhibition ==
  /\ UserSpaceRuns
  /\ \E i \in inhibitions :
       /\ allow_automatic_suspend(InhibitionId(i.name, i.id))
       /\ inhibitions' = inhibitions \ {i}
  /\ UNCHANGED <<powerControl, threadVars, lastInhibition, inhibitionCalls>>

-----------------------------------------------------------------------------
(* libsuspend.  The control's constructor starts the thread and opens the  *)
(* lockout.                                                                *)

Thread(from, to) == suspendThread = from /\ suspendThread' = to

AutosuspendEnable ==
  /\ Thread("none", "usleep")
  /\ suspend_lockout' = suspend_lockout + 1
  /\ UNCHANGED <<powerControl, suspend_disallowances, lockWrite, wakeLocks, countIsCurrent,
                 inhibitionVars>>

\* Reading the count waits in the kernel while any wake lock is held.
ReadWakeupCount ==
  /\ Thread("usleep", "lockout") /\ wakeLocks = {}
  /\ countIsCurrent' = TRUE
  /\ UNCHANGED <<powerControl, suspend_disallowances, lockWrite, wakeLocks, suspend_lockout,
                 inhibitionVars>>

\* Mutant: the thread looks at the lockout and does not take it.
PassLockout ==
  /\ Thread("lockout", "write_count") /\ suspend_lockout > 0
  /\ UNCHANGED <<powerControl, suspend_disallowances, lockWrite, wakeLocks, countIsCurrent,
                 suspend_lockout, inhibitionVars>>

WaitLockout ==
  /\ Thread("lockout", "write_count") /\ suspend_lockout > 0
  /\ suspend_lockout' = suspend_lockout - 1
  /\ UNCHANGED <<powerControl, suspend_disallowances, lockWrite, wakeLocks, countIsCurrent,
                 inhibitionVars>>

\* Mutant: an error of the write is ignored, and the kernel checks nothing.
WriteAnyWakeupCount ==
  /\ Thread("write_count", "write_state")
  /\ countIsCurrent' = TRUE
  /\ UNCHANGED <<powerControl, suspend_disallowances, lockWrite, wakeLocks, suspend_lockout,
                 inhibitionVars>>

\* The kernel refuses a count that is not its own.
WriteWakeupCount ==
  /\ \/ countIsCurrent /\ Thread("write_count", "write_state")
     \/ ~countIsCurrent /\ Thread("write_count", "post")
  /\ UNCHANGED <<powerControl, suspend_disallowances, lockWrite, wakeLocks, countIsCurrent,
                 suspend_lockout, inhibitionVars>>

\* And gives the suspend up at any wakeup event after it.
WriteSuspendState ==
  /\ \/ countIsCurrent /\ Thread("write_state", "asleep")
     \/ ~countIsCurrent /\ Thread("write_state", "post")
  /\ UNCHANGED <<powerControl, suspend_disallowances, lockWrite, wakeLocks, countIsCurrent,
                 suspend_lockout, inhibitionVars>>

SystemWakesUp ==
  /\ Thread("asleep", "callback")
  /\ countIsCurrent' = FALSE
  /\ UNCHANGED <<powerControl, suspend_disallowances, lockWrite, wakeLocks, suspend_lockout,
                 inhibitionVars>>

\* wakeup_callback releases a lock that ends by itself and takes it anew.
WakeupCallback ==
  /\ Thread("callback", "post")
  /\ AcquireLock(CallbackLock)
  /\ UNCHANGED <<powerControl, suspend_disallowances, lockWrite, suspend_lockout, inhibitionVars>>

PostLockout ==
  /\ Thread("post", "usleep")
  /\ suspend_lockout' = suspend_lockout + 1
  /\ UNCHANGED <<powerControl, suspend_disallowances, lockWrite, wakeLocks, countIsCurrent,
                 inhibitionVars>>

-----------------------------------------------------------------------------
(* The kernel.                                                             *)

CallbackLockEnds ==
  /\ UserSpaceRuns /\ CallbackLock \in wakeLocks
  /\ ReleaseLock(CallbackLock)
  /\ UNCHANGED <<powerControl, suspend_disallowances, lockWrite, threadVars, inhibitionVars>>

WakeupEvent ==
  /\ UserSpaceRuns /\ countIsCurrent
  /\ countIsCurrent' = FALSE
  /\ UNCHANGED <<powerControl, suspend_disallowances, lockWrite, wakeLocks, threadVars,
                 inhibitionVars>>

PowerNext ==
  \/ WriteLock \/ MachineDisallows \/ MachineAllows
  \/ InhibitSuspendFor \/ ScheduleEnd \/ EndInhibition
  \/ AutosuspendEnable \/ ReadWakeupCount \/ WaitLockout \/ WriteWakeupCount
  \/ WriteSuspendState \/ WakeupCallback \/ PostLockout
  \/ SystemWakesUp \/ CallbackLockEnds \/ WakeupEvent

\* The kernel writes what it is asked to, timeouts elapse, something wakes the
\* system up, and the loop of the inhibitions runs.
PowerFairness ==
  /\ WF_powerVars(WriteLock) /\ WF_powerVars(ScheduleEnd) /\ WF_powerVars(SystemWakesUp)
  /\ SF_powerVars(EndInhibition)

PowerSpec == PowerInit /\ [][PowerNext]_powerVars /\ PowerFairness

-----------------------------------------------------------------------------
(* Properties.                                                             *)

PowerTypeOK ==
  /\ suspend_disallowances \subseteq InhibitionIds \cup {MachineId}
  /\ wakeLocks \subseteq InhibitionIds \cup {MachineId, CallbackLock, SharedLock}
  /\ lockWrite \in {"none", "acquire", "release"}
  /\ suspend_lockout \in 0 .. 1 /\ countIsCurrent \in BOOLEAN
  /\ suspendThread \in {"none", "usleep", "lockout", "write_count", "write_state",
                        "asleep", "callback", "post"}

\* Of either control together with libsuspend: it keeps the promise of
\* SuspendLocks.  An id is disallowed when its call returns, wherever the
\* thread is between the read of the count and the suspend, and a control
\* that shares one lock among its ids holds it until the last is allowed.
Disallowed ==
  IF powerControl = "logind" THEN wakeLocks \ {CallbackLock}
  ELSE IF SharedLock \in wakeLocks THEN suspend_disallowances ELSE {}

LocksPort == INSTANCE SuspendLocks WITH
  LockIds <- InhibitionIds \cup {MachineId},
  disallowances <- Disallowed, systemAsleep <- ~UserSpaceRuns

ImplementsSuspendLocks == LocksPort!LocksSpec

\* Of overlapping inhibitions: each one that has been made and has not timed
\* out holds automatic suspend back, whatever else ends before it.
InhibitionsHold == inhibitions \subseteq Disallowed

\* Of inhibitions that nobody ends: none outlasts its time.
InhibitionsEnd ==
  \A i \in InhibitionIds : i \in Disallowed ~> i \notin Disallowed

=============================================================================
