----------------------------- MODULE LogindPower ----------------------------
(***************************************************************************)
(* What LogindSystemPowerControl learns of logind and what it asks of it:  *)
(* blocks of sleep, the return from a sleep, and the inhibition of         *)
(* logind's own idle and lid handling.  Signals wait on the control's      *)
(* loop; for a change of BlockInhibited, whose signal carries the value    *)
(* from before, the loop asks logind again.                                *)
(***************************************************************************)
EXTENDS Naturals, Sequences

CONSTANTS
  LogindAnswers,    \* logind answers every question
  MaxBlockChanges,  \* bound: how often blocks of sleep come and go
  MaxSleeps,        \* bound: how often logind suspends the system
  MaxPowerSignals   \* bound: signals that wait on the loop

ASSUME LogindPowerAssumption ==
  LogindAnswers \in BOOLEAN /\ {MaxBlockChanges, MaxSleeps, MaxPowerSignals} \subseteq Nat

VARIABLES
  sleepBlocked,        \* of logind: something blocks sleep
  blockChanges,
  logindSleep,         \* "awake" or "asleep"
  sleeps,
  powerSignals,        \* signals on their way to the control
  powerPhase,          \* how far start_processing has come
  is_suspend_blocked,
  powerQueue,          \* what the daemon has been told and not handled
  machinesBlocked,     \* what the machines know: "unknown", "free", "blocked"
  resumesTold,
  idle_and_lid_inhibition_fd  \* whether it holds an inhibitor

logindStateVars == <<sleepBlocked, blockChanges, logindSleep, sleeps>>
controlVars == <<powerPhase, is_suspend_blocked>>
fdVars == <<idle_and_lid_inhibition_fd>>
daemonSideVars == <<machinesBlocked, resumesTold>>
logindPowerVars == <<logindStateVars, powerSignals, controlVars, fdVars, powerQueue, daemonSideVars>>

LogindPowerInit ==
  /\ sleepBlocked \in BOOLEAN /\ blockChanges = 0
  /\ logindSleep = "awake" /\ sleeps = 0
  /\ powerSignals = <<>> /\ powerPhase = "stopped" /\ is_suspend_blocked = FALSE
  /\ powerQueue = <<>> /\ machinesBlocked = "unknown" /\ resumesTold = 0
  /\ idle_and_lid_inhibition_fd = FALSE

-----------------------------------------------------------------------------
(* Logind.                                                                 *)

Sent(m) ==
  powerSignals' = IF powerPhase = "stopped" THEN powerSignals ELSE Append(powerSignals, m)

\* The signal carries the value before the change.
BlockInhibitedChanges ==
  /\ blockChanges < MaxBlockChanges /\ Len(powerSignals) < MaxPowerSignals
  /\ blockChanges' = blockChanges + 1
  /\ sleepBlocked' = ~sleepBlocked
  /\ Sent([signal |-> "BlockInhibited", value |-> sleepBlocked])
  /\ UNCHANGED <<logindSleep, sleeps, controlVars, fdVars, powerQueue, daemonSideVars>>

LogindSleeps ==
  /\ logindSleep = "awake" /\ sleeps < MaxSleeps /\ Len(powerSignals) < MaxPowerSignals
  /\ logindSleep' = "asleep" /\ sleeps' = sleeps + 1
  /\ Sent([signal |-> "PrepareForSleep", value |-> TRUE])
  /\ UNCHANGED <<sleepBlocked, blockChanges, controlVars, fdVars, powerQueue, daemonSideVars>>

LogindResumes ==
  /\ logindSleep = "asleep" /\ Len(powerSignals) < MaxPowerSignals
  /\ logindSleep' = "awake"
  /\ Sent([signal |-> "PrepareForSleep", value |-> FALSE])
  /\ UNCHANGED <<sleepBlocked, blockChanges, sleeps, controlVars, fdVars, powerQueue, daemonSideVars>>

-----------------------------------------------------------------------------
(* The control.                                                            *)

StartLogindPower ==
  /\ powerPhase = "stopped"
  /\ powerPhase' = "subscribed"
  /\ UNCHANGED <<logindStateVars, powerSignals, is_suspend_blocked, fdVars, powerQueue, daemonSideVars>>

\* What logind answers; no answer counts as no block, and is not asked again.
dbus_get_block_inhibited == {sleepBlocked} \cup (IF LogindAnswers THEN {} ELSE {FALSE})

NotifySuspendBlockState(blocked) ==
  Append(powerQueue, IF blocked THEN "system_disallow_suspend" ELSE "system_allow_suspend")

\* The state at the start is always told.
initialize_is_suspend_blocked ==
  /\ powerPhase = "subscribed"
  /\ powerPhase' = "started"
  /\ \E b \in dbus_get_block_inhibited :
       is_suspend_blocked' = b /\ powerQueue' = NotifySuspendBlockState(b)
  /\ UNCHANGED <<logindStateVars, powerSignals, fdVars, daemonSideVars>>

\* Mutant: the value that the signal carries is believed.
BelieveManagerProperties(m) ==
  /\ is_suspend_blocked' = m.value
  /\ powerQueue' = IF m.value # is_suspend_blocked THEN NotifySuspendBlockState(m.value) ELSE powerQueue

\* A change is told, and only a change.
handle_dbus_change_manager_properties(m) ==
  \E b \in dbus_get_block_inhibited :
    /\ is_suspend_blocked' = b
    /\ powerQueue' = IF b # is_suspend_blocked THEN NotifySuspendBlockState(b) ELSE powerQueue

HandlePowerSignal ==
  /\ powerSignals # <<>>
  /\ LET m == Head(powerSignals)
     IN IF m.signal = "BlockInhibited" THEN handle_dbus_change_manager_properties(m)
        ELSE /\ powerQueue' = IF m.value THEN powerQueue ELSE Append(powerQueue, "system_resume")
             /\ UNCHANGED is_suspend_blocked
  /\ powerSignals' = Tail(powerSignals)
  /\ UNCHANGED <<logindStateVars, powerPhase, fdVars, daemonSideVars>>

\* Logind may refuse the new inhibitor, and then the old one is closed too.
DisallowDefaultSystemHandlers ==
  /\ idle_and_lid_inhibition_fd' \in BOOLEAN
  /\ UNCHANGED <<logindStateVars, powerSignals, controlVars, powerQueue, daemonSideVars>>

AllowDefaultSystemHandlers ==
  /\ idle_and_lid_inhibition_fd
  /\ idle_and_lid_inhibition_fd' = FALSE
  /\ UNCHANGED <<logindStateVars, powerSignals, controlVars, powerQueue, daemonSideVars>>

-----------------------------------------------------------------------------
(* The daemon's thread.                                                    *)

DaemonTakesPowerEvent ==
  /\ powerQueue # <<>>
  /\ powerQueue' = Tail(powerQueue)
  /\ \/ /\ Head(powerQueue) = "system_resume"
        /\ resumesTold' = resumesTold + 1 /\ UNCHANGED machinesBlocked
     \/ /\ Head(powerQueue) = "system_allow_suspend"
        /\ machinesBlocked' = "free" /\ UNCHANGED resumesTold
     \/ /\ Head(powerQueue) = "system_disallow_suspend"
        /\ machinesBlocked' = "blocked" /\ UNCHANGED resumesTold
  /\ UNCHANGED <<logindStateVars, powerSignals, controlVars, fdVars>>

LogindPowerNext ==
  \/ BlockInhibitedChanges \/ LogindSleeps \/ LogindResumes
  \/ StartLogindPower \/ initialize_is_suspend_blocked \/ HandlePowerSignal
  \/ DisallowDefaultSystemHandlers \/ AllowDefaultSystemHandlers
  \/ DaemonTakesPowerEvent

LogindPowerSpec == LogindPowerInit /\ [][LogindPowerNext]_logindPowerVars

-----------------------------------------------------------------------------
(* Properties.                                                             *)

LogindPowerTypeOK ==
  /\ powerPhase \in {"stopped", "subscribed", "started"}
  /\ machinesBlocked \in {"unknown", "free", "blocked"}
  /\ resumesTold \in 0 .. sleeps

\* Of the start and of blocks that come and go: when nothing is on its way,
\* the machines know whether something blocks sleep, though changes before
\* the first question, changes told twice and signals that carry an old value
\* reach the control in any number, and it tells only changes.
BlockIsKnown ==
  (powerPhase = "started" /\ powerSignals = <<>> /\ powerQueue = <<>>) =>
    machinesBlocked = IF sleepBlocked THEN "blocked" ELSE "free"

=============================================================================
