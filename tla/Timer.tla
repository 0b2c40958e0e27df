------------------------------- MODULE Timer -------------------------------
(***************************************************************************)
(* What the port Timer promises its one caller, the daemon: an alarm that  *)
(* was scheduled goes off at most once, and never after cancel_alarm has   *)
(* returned for it.                                                        *)
(***************************************************************************)

CONSTANT Alarms

VARIABLES
  scheduled,  \* alarms that schedule_alarm_in has made
  stopped,    \* alarms whose cancel_alarm has returned
  wentOff     \* alarms the handler was called for

timerVars == <<scheduled, stopped, wentOff>>

TimerInit == scheduled = {} /\ stopped = {} /\ wentOff = {}

schedule_alarm_in(a) ==
  /\ a \notin scheduled
  /\ scheduled' = scheduled \cup {a}
  /\ UNCHANGED <<stopped, wentOff>>

cancel_alarm(a) ==
  /\ a \in scheduled \ stopped
  /\ stopped' = stopped \cup {a}
  /\ UNCHANGED <<scheduled, wentOff>>

alarm_handler(a) ==
  /\ a \in scheduled \ (stopped \cup wentOff)
  /\ wentOff' = wentOff \cup {a}
  /\ UNCHANGED <<scheduled, stopped>>

TimerNext ==
  \E a \in Alarms : schedule_alarm_in(a) \/ cancel_alarm(a) \/ alarm_handler(a)

TimerSpec == TimerInit /\ [][TimerNext]_timerVars

=============================================================================
