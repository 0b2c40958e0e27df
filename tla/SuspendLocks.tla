---------------------------- MODULE SuspendLocks ----------------------------
(***************************************************************************)
(* What the port SystemPowerControl promises about automatic suspend: once *)
(* disallow_automatic_suspend has returned for an id, the system does not  *)
(* fall asleep by itself until that id is allowed again.                   *)
(***************************************************************************)

CONSTANT LockIds

VARIABLES
  disallowances,  \* ids that hold automatic suspend back
  systemAsleep

locksVars == <<disallowances, systemAsleep>>

LocksInit == disallowances = {} /\ systemAsleep = FALSE

disallow_automatic_suspend(i) ==
  /\ disallowances' = disallowances \cup {i}
  /\ UNCHANGED systemAsleep

allow_automatic_suspend(i) ==
  /\ disallowances' = disallowances \ {i}
  /\ UNCHANGED systemAsleep

FallAsleep ==
  /\ disallowances = {} /\ ~systemAsleep
  /\ systemAsleep' = TRUE
  /\ UNCHANGED disallowances

WakeUp ==
  /\ systemAsleep
  /\ systemAsleep' = FALSE
  /\ UNCHANGED disallowances

LocksNext ==
  \/ \E i \in LockIds : disallow_automatic_suspend(i) \/ allow_automatic_suspend(i)
  \/ FallAsleep \/ WakeUp

LocksSpec == LocksInit /\ [][LocksNext]_locksVars

=============================================================================
