------------------------------ MODULE Wakeups ------------------------------
(***************************************************************************)
(* The two wakeup services behind requestWakeup and clearWakeup: one with  *)
(* a thread that waits on /dev/alarm, one with a timerfd on an event loop. *)
(* Both keep a table of wakeups by time and arm one alarm for the first.   *)
(* The thread of the first takes the table's mutex only after the wait has *)
(* ended, so requests may come between; on the loop of the second nothing  *)
(* comes between.                                                          *)
(***************************************************************************)
EXTENDS Naturals, FiniteSets, FiniteSetsExt

CONSTANTS
  MaxTime,     \* bound: of the clock; wakeups are for 1 .. MaxTime
  MaxWakeups   \* bound: how many are requested

ASSUME WakeupsAssumption == MaxTime \in Nat \ {0} /\ MaxWakeups \in Nat

Cookies == 1 .. MaxWakeups

\* What the alarm is set to when there is no wakeup: thirty days ahead, never,
\* and for the destructor a time that is past.
Far == MaxTime + 1
Disarmed == MaxTime + 2
Past == 0

VARIABLES
  wakeupService,   \* which service default_daemon_config chose
  wallClock,
  wakeups,         \* requests by time: [at, cookie]
  cookie_pool,
  lastCookie,      \* cookies are random, here they are numbered
  alarmSetTo,      \* what the hardware, or the timerfd, is set to
  alarmPending,    \* it has gone off and nobody has waited for it
  wakeupThread,    \* of /dev/alarm: "wait", "woken", "handler", "reset", "ended"
  wakeupTaken,     \* the cookie that the handler is called with
  wakeupsRunning,  \* running
  wakeupsGiven,    \* history: [at, cookie, time] that the handler got
  wakeupsCancelled \* history: cookies found by a cancel

tableVars == <<wakeups, cookie_pool>>
hardwareVars == <<alarmSetTo, alarmPending>>
givenVars == <<wakeupsGiven, wakeupsCancelled>>
wakeupVars == <<wakeupService, wallClock, tableVars, lastCookie, hardwareVars,
                wakeupThread, wakeupTaken, wakeupsRunning, givenVars>>

WakeupsInit ==
  /\ wakeupService \in {"dev_alarm", "timerfd"}
  /\ wallClock = 1 /\ wakeups = {} /\ cookie_pool = {} /\ lastCookie = 0
  /\ alarmSetTo = IF wakeupService = "dev_alarm" THEN Far ELSE Disarmed
  /\ alarmPending = FALSE
  /\ wakeupThread = IF wakeupService = "dev_alarm" THEN "wait" ELSE "none"
  /\ wakeupTaken = 0 /\ wakeupsRunning = TRUE
  /\ wakeupsGiven = {} /\ wakeupsCancelled = {}

\* Mutant: the destructor's alarm is that of the table.
AlarmIgnoresStop(table, running) ==
  Min({w.at : w \in table} \cup {IF wakeupService = "dev_alarm" THEN Far ELSE Disarmed})

\* reset_hardware_alarm and reset_timerfd: what the alarm is set to.
NextAlarm(table, running) ==
  IF ~running THEN Past
  ELSE Min({w.at : w \in table}
             \cup {IF wakeupService = "dev_alarm" THEN Far ELSE Disarmed})

\* Setting a timerfd forgets that it went off; setting /dev/alarm does not.
ResetAlarm(table, running) ==
  /\ alarmSetTo' = NextAlarm(table, running)
  /\ alarmPending' = (alarmPending /\ wakeupService = "dev_alarm")

\* Mutant: in the order of the requests.
FirstRequested(table) == CHOOSE w \in table : \A v \in table : w.cookie <= v.cookie

First(table) == CHOOSE w \in table : \A v \in table : w.at < v.at \/ (w.at = v.at /\ w.cookie <= v.cookie)

\* Mutant: the cookie is never free again.
EraseKeepsCookie(w) == wakeups' = wakeups \ {w} /\ cookie_pool' = cookie_pool

EraseWakeup(w) == wakeups' = wakeups \ {w} /\ cookie_pool' = cookie_pool \ {w.cookie}

-----------------------------------------------------------------------------
(* Requests.                                                               *)

schedule_wakeup_at ==
  /\ wakeupsRunning /\ lastCookie < MaxWakeups
  /\ \E at \in 1 .. MaxTime : wakeups' = wakeups \cup {[at |-> at, cookie |-> lastCookie + 1]}
  /\ lastCookie' = lastCookie + 1
  /\ cookie_pool' = cookie_pool \cup {lastCookie'}
  /\ ResetAlarm(wakeups', TRUE)
  /\ UNCHANGED <<wakeupService, wallClock, wakeupThread, wakeupTaken, wakeupsRunning, givenVars>>

\* A cookie that is not in the table, any more or ever, changes nothing.
cancel_wakeup ==
  /\ wakeupsRunning
  /\ \E c \in 1 .. lastCookie :
       LET found == {w \in wakeups : w.cookie = c}
       IN /\ wakeups' = wakeups \ found
          /\ cookie_pool' = IF found = {} THEN cookie_pool ELSE cookie_pool \ {c}
          /\ wakeupsCancelled' = IF found = {} THEN wakeupsCancelled ELSE wakeupsCancelled \cup {c}
  /\ ResetAlarm(wakeups', TRUE)
  /\ UNCHANGED <<wakeupService, wallClock, lastCookie, wakeupThread, wakeupTaken,
                 wakeupsRunning, wakeupsGiven>>

-----------------------------------------------------------------------------
(* The clock and the alarm.                                                *)

WallClockTicks ==
  /\ wallClock < MaxTime
  /\ wallClock' = wallClock + 1
  /\ UNCHANGED <<wakeupService, tableVars, lastCookie, hardwareVars, wakeupThread, wakeupTaken,
                 wakeupsRunning, givenVars>>

AlarmFires ==
  /\ alarmSetTo <= wallClock
  /\ alarmSetTo' = Disarmed /\ alarmPending' = TRUE
  /\ UNCHANGED <<wakeupService, wallClock, tableVars, lastCookie, wakeupThread, wakeupTaken,
                 wakeupsRunning, givenVars>>

-----------------------------------------------------------------------------
(* /dev/alarm's thread.                                                    *)

AlarmWaitReturns ==
  /\ wakeupThread = "wait" /\ alarmPending
  /\ alarmPending' = FALSE /\ wakeupThread' = "woken"
  /\ UNCHANGED <<wakeupService, wallClock, tableVars, lastCookie, alarmSetTo, wakeupTaken,
                 wakeupsRunning, givenVars>>

\* With the mutex, the first wakeup is taken, whatever its time.
TakeWakeup ==
  /\ wakeupThread = "woken"
  /\ IF wakeupsRunning /\ wakeups # {}
     THEN LET w == First(wakeups)
          IN /\ EraseWakeup(w)
             /\ wakeupTaken' = w.cookie /\ wakeupThread' = "handler"
             /\ wakeupsGiven' = wakeupsGiven \cup {[at |-> w.at, cookie |-> w.cookie, time |-> wallClock]}
     ELSE wakeupThread' = "reset" /\ UNCHANGED <<tableVars, wakeupTaken, wakeupsGiven>>
  /\ UNCHANGED <<wakeupService, wallClock, lastCookie, hardwareVars, wakeupsRunning, wakeupsCancelled>>

\* The handler inhibits suspend for three seconds and queues the signal.
CallWakeupHandler ==
  /\ wakeupThread = "handler"
  /\ wakeupTaken' = 0 /\ wakeupThread' = "reset"
  /\ UNCHANGED <<wakeupService, wallClock, tableVars, lastCookie, hardwareVars, wakeupsRunning, givenVars>>

\* Mutant: the alarm is not set again.
WaitWithoutReset ==
  /\ wakeupThread = "reset"
  /\ wakeupThread' = IF wakeupsRunning THEN "wait" ELSE "ended"
  /\ UNCHANGED <<wakeupService, wallClock, tableVars, lastCookie, hardwareVars, wakeupTaken,
                 wakeupsRunning, givenVars>>

ResetAndWait ==
  /\ wakeupThread = "reset"
  /\ ResetAlarm(wakeups, wakeupsRunning)
  /\ wakeupThread' = IF wakeupsRunning THEN "wait" ELSE "ended"
  /\ UNCHANGED <<wakeupService, wallClock, tableVars, lastCookie, wakeupTaken, wakeupsRunning, givenVars>>

\* The destructor sets an alarm that is past, and joins the thread.
StopWakeups ==
  /\ wakeupsRunning /\ wakeupService = "dev_alarm"
  /\ wakeupsRunning' = FALSE
  /\ ResetAlarm(wakeups, FALSE)
  /\ UNCHANGED <<wakeupService, wallClock, tableVars, lastCookie, wakeupThread, wakeupTaken, givenVars>>

-----------------------------------------------------------------------------
(* The timerfd's loop: the callback of the descriptor runs as a whole.     *)

TimerfdReadable ==
  /\ wakeupService = "timerfd" /\ alarmPending
  /\ LET w == First(wakeups)
     IN /\ EraseWakeup(w)
        /\ wakeupsGiven' = wakeupsGiven \cup {[at |-> w.at, cookie |-> w.cookie, time |-> wallClock]}
  /\ ResetAlarm(wakeups', TRUE)
  /\ UNCHANGED <<wakeupService, wallClock, lastCookie, wakeupThread, wakeupTaken,
                 wakeupsRunning, wakeupsCancelled>>

WakeupsNext ==
  \/ schedule_wakeup_at \/ cancel_wakeup \/ StopWakeups
  \/ WallClockTicks \/ AlarmFires
  \/ AlarmWaitReturns \/ TakeWakeup \/ CallWakeupHandler \/ ResetAndWait
  \/ TimerfdReadable

\* Time passes, the alarm goes off when it is due, and the thread and the loop
\* run; on the loop the descriptor comes before requests that are queued, so a
\* request can take its turn only by resetting the alarm between two polls.
WakeupsFairness ==
  /\ WF_wakeupVars(WallClockTicks) /\ WF_wakeupVars(AlarmFires)
  /\ WF_wakeupVars(AlarmWaitReturns \/ TakeWakeup \/ CallWakeupHandler \/ ResetAndWait)
  /\ SF_wakeupVars(TimerfdReadable)

WakeupsSpec == WakeupsInit /\ [][WakeupsNext]_wakeupVars /\ WakeupsFairness

-----------------------------------------------------------------------------
(* Properties.                                                             *)

WakeupsTypeOK ==
  /\ wallClock \in 1 .. MaxTime /\ alarmSetTo \in 0 .. Disarmed
  /\ wakeups \subseteq [at : 1 .. MaxTime, cookie : Cookies]
  /\ wakeupThread \in {"none", "wait", "woken", "handler", "reset", "ended"}

\* Of the pool of cookies and the table: they agree, whichever of an alarm and
\* a cancel comes first, so that no cookie is lost or given twice.
CookiesAreAccountedFor ==
  /\ cookie_pool = {w.cookie : w \in wakeups}
  /\ \A g, h \in wakeupsGiven : g.cookie = h.cookie => g = h
  /\ \A g \in wakeupsGiven : g.cookie \notin wakeupsCancelled

\* Of the timerfd: no wakeup comes before its time.  (The thread of /dev/alarm
\* may give one early, when the one that was due is cancelled first.)
TimerfdIsNeverEarly ==
  wakeupService = "timerfd" => \A g \in wakeupsGiven : g.time >= g.at

\* Of both: every wakeup that is requested is given in the end, unless it is
\* cancelled or the service stops, whatever is requested and cancelled while
\* an alarm is pending.
WakeupsAreGiven ==
  \A c \in Cookies :
    (\E w \in wakeups : w.cookie = c) ~> (~wakeupsRunning \/ \A w \in wakeups : w.cookie # c)

\* Of the destructor: the thread it joins ends, wherever it is.
WakeupThreadEnds ==
  (~wakeupsRunning) ~> wakeupThread = "ended"

\* Of both wakeup services: cookies and table agree, and the timerfd gives no
\* wakeup before its time.
WakeupsAreSound == CookiesAreAccountedFor /\ TimerfdIsNeverEarly

=============================================================================
