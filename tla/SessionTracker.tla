--------------------------- MODULE SessionTracker ---------------------------
(***************************************************************************)
(* Which session is active: from logind's seat through                     *)
(* LogindSessionTracker to the daemon.  Three things run by themselves:    *)
(* logind, whose signals arrive in order; the tracker's loop, which        *)
(* handles a signal or looks up a process; and the daemon's thread, which  *)
(* takes what the tracker announced off its queue.                         *)
(***************************************************************************)
EXTENDS Naturals, Sequences, FiniteSets, Functions, Tables

CONSTANTS
  Sessions,            \* ids of logind's sessions, each used once
  CompatibleSessions,  \* those of type mir or wayland
  UserOf,              \* the user of each session
  InvalidSession,      \* invalid_session_id, and the path of no session
  MaxSwitches,         \* bound: how often the seat changes
  MaxSeatSignals       \* bound: logind's signals that wait for the tracker

ASSUME SessionTrackerAssumption ==
  /\ CompatibleSessions \subseteq Sessions /\ InvalidSession \notin Sessions
  /\ DOMAIN UserOf = Sessions
  /\ MaxSwitches \in Nat /\ MaxSeatSignals \in Nat

VARIABLES
  loginSessions,      \* sessions that logind has
  loggedOut,          \* sessions that logind had
  seatActive,         \* ActiveSession of the seat
  seatSwitches,       \* how often it has changed
  seatSignals,        \* logind's signals on their way to the tracker
  trackerPhase,       \* how far start_processing has come
  tracked_sessions,   \* path and type by session id
  active_session_id,
  ignore_session_deactivation, \* the quirk: always for Android's, not for the tests'
  daemonQueue,        \* what is queued at the daemon
  daemonSessions,     \* sessions of the daemon, the null session included
  daemonActive        \* active_session of the daemon

logindVars == <<loginSessions, loggedOut, seatActive, seatSwitches>>
trackerVars == <<trackerPhase, tracked_sessions, active_session_id, ignore_session_deactivation>>
daemonVars == <<daemonQueue, daemonSessions, daemonActive>>
sessionVars == <<logindVars, seatSignals, trackerVars, daemonVars>>

TrackerInit ==
  /\ seatActive \in Sessions \cup {InvalidSession}
  /\ loginSessions = {seatActive} \ {InvalidSession} /\ loggedOut = {}
  /\ seatSwitches = 0 /\ seatSignals = <<>>
  /\ trackerPhase = "stopped"
  /\ tracked_sessions = [s \in {} |-> {}] /\ active_session_id = InvalidSession
  /\ ignore_session_deactivation \in BOOLEAN
  /\ daemonQueue = <<>> /\ daemonActive = InvalidSession
  /\ daemonSessions = {InvalidSession}

-----------------------------------------------------------------------------
(* Logind.  Its signals reach the tracker once that has subscribed.        *)

ActiveSession(s) == [signal |-> "ActiveSession", session |-> s]
SessionRemoved(s) == [signal |-> "SessionRemoved", session |-> s]

Signalled(signals) ==
  seatSignals' = IF trackerPhase = "stopped" THEN seatSignals ELSE seatSignals \o signals

\* A session of the seat comes to the front, or none is.
SwitchSeat ==
  /\ seatSwitches < MaxSwitches /\ Len(seatSignals) < MaxSeatSignals
  /\ \E s \in (Sessions \ loggedOut) \cup {InvalidSession} :
       /\ s # seatActive
       /\ seatActive' = s
       /\ loginSessions' = loginSessions \cup ({s} \ {InvalidSession})
       /\ Signalled(<<ActiveSession(s)>>)
  /\ seatSwitches' = seatSwitches + 1
  /\ UNCHANGED <<loggedOut, trackerVars, daemonVars>>

\* A session ends.  If it is in front the seat has none, and the two signals
\* may come in either order.
EndSession ==
  /\ seatSwitches < MaxSwitches /\ Len(seatSignals) < MaxSeatSignals
  /\ \E s \in loginSessions :
       /\ loginSessions' = loginSessions \ {s}
       /\ loggedOut' = loggedOut \cup {s}
       /\ IF s = seatActive
          THEN /\ seatActive' = InvalidSession
               /\ \/ Signalled(<<ActiveSession(InvalidSession), SessionRemoved(s)>>)
                  \/ Signalled(<<SessionRemoved(s), ActiveSession(InvalidSession)>>)
          ELSE Signalled(<<SessionRemoved(s)>>) /\ UNCHANGED seatActive
  /\ seatSwitches' = seatSwitches + 1
  /\ UNCHANGED <<trackerVars, daemonVars>>

-----------------------------------------------------------------------------
(* The tracker's loop.                                                     *)

Tracked == DOMAIN tracked_sessions

Activation(s, compatible) ==
  [event |-> "session_activated", session |-> s, compatible |-> compatible]

Removal(s) == [event |-> "session_removed", session |-> s]

\* The type is asked for when a session is first in front, and remembered; a
\* session whose type logind does not tell counts as incompatible.
TypesTold(s) ==
  {compatible \in BOOLEAN : compatible => s \in loginSessions \cap CompatibleSessions}

activate_session(s) ==
  \E compatible \in IF s \in Tracked THEN {tracked_sessions[s].compatible} ELSE TypesTold(s) :
    /\ tracked_sessions' =
         IF s \in Tracked THEN tracked_sessions
         ELSE With(tracked_sessions, s, [path |-> s, compatible |-> compatible])
    /\ active_session_id' = s
    /\ daemonQueue' = IF s = active_session_id THEN daemonQueue
                      ELSE Append(daemonQueue, Activation(s, compatible))

\* Mutant: the deactivation is announced, but the id stays.
DeactivateKeepsId ==
  /\ daemonQueue' = IF ignore_session_deactivation THEN daemonQueue
                    ELSE Append(daemonQueue, Activation(InvalidSession, FALSE))
  /\ UNCHANGED <<tracked_sessions, active_session_id>>

deactivate_session ==
  /\ UNCHANGED tracked_sessions
  /\ IF ignore_session_deactivation THEN UNCHANGED <<active_session_id, daemonQueue>>
     ELSE /\ active_session_id' = InvalidSession
          /\ daemonQueue' = Append(daemonQueue, Activation(InvalidSession, FALSE))

remove_session(s) ==
  /\ tracked_sessions' = Restrict(tracked_sessions, Tracked \ {s})
  /\ daemonQueue' = IF s \in Tracked THEN Append(daemonQueue, Removal(s)) ELSE daemonQueue
  /\ UNCHANGED active_session_id

handle_dbus_change_seat_properties(s) ==
  IF s = InvalidSession THEN deactivate_session ELSE activate_session(s)

StartTracker ==
  /\ trackerPhase = "stopped"
  /\ trackerPhase' = "subscribed"
  /\ UNCHANGED <<logindVars, seatSignals, tracked_sessions, active_session_id,
                 ignore_session_deactivation, daemonVars>>

\* What logind answers when it is asked for the session in front, if it does.
dbus_get_active_session == {seatActive, "no answer"}

\* The seat is asked only after the subscription; no answer is as no session,
\* but then the tracker knows nothing until the seat changes.
SetInitialActiveSession ==
  /\ trackerPhase = "subscribed"
  /\ \E s \in dbus_get_active_session :
       /\ trackerPhase' = IF s = "no answer" THEN "unanswered" ELSE "started"
       /\ IF s \in {InvalidSession, "no answer"}
          THEN UNCHANGED <<tracked_sessions, active_session_id, daemonQueue>>
          ELSE activate_session(s)
  /\ UNCHANGED <<logindVars, seatSignals, ignore_session_deactivation, daemonSessions, daemonActive>>

HandleSeatSignal ==
  /\ trackerPhase # "stopped" /\ seatSignals # <<>>
  /\ LET m == Head(seatSignals)
     IN IF m.signal = "ActiveSession"
        THEN /\ handle_dbus_change_seat_properties(m.session)
             /\ trackerPhase' = IF trackerPhase = "unanswered" THEN "started" ELSE trackerPhase
        ELSE remove_session(m.session) /\ UNCHANGED trackerPhase
  /\ seatSignals' = Tail(seatSignals)
  /\ UNCHANGED <<logindVars, ignore_session_deactivation, daemonSessions, daemonActive>>

\* session_for_pid, of a process in session s or in none.  A process of no
\* tracked session belongs to the active one if its user is root or the user
\* of that session; when neither user is known, they are equal.  The lookup of
\* the active session in the map adds an entry for it if it is not there.
SessionOfPath(s) == {t \in Tracked : s # InvalidSession /\ tracked_sessions[t].path = s}

UsersOfActive ==
  LET s == IF active_session_id \in Tracked THEN tracked_sessions[active_session_id].path
           ELSE InvalidSession
  IN IF s \in loginSessions THEN {UserOf[s], "unknown"} ELSE {"unknown"}

session_for_pid(path, user) ==
  IF SessionOfPath(path) # {} THEN SessionOfPath(path)
  ELSE {IF user = "root" \/ user = u THEN active_session_id ELSE InvalidSession : u \in UsersOfActive}

TrackedAfterLookup(path) ==
  IF SessionOfPath(path) # {} \/ active_session_id \in Tracked THEN tracked_sessions
  ELSE With(tracked_sessions, active_session_id, [path |-> InvalidSession, compatible |-> TRUE])

-----------------------------------------------------------------------------
(* The daemon's thread.  What the machines do is in module Session.        *)

handle_session_activated(m) ==
  /\ daemonActive' = IF m.compatible THEN m.session ELSE InvalidSession
  /\ daemonSessions' = IF m.compatible THEN daemonSessions \cup {m.session} ELSE daemonSessions

handle_session_removed(m) ==
  /\ daemonActive' = IF daemonActive = m.session THEN InvalidSession ELSE daemonActive
  /\ daemonSessions' = daemonSessions \ {m.session}

DaemonTakesSessionEvent ==
  /\ daemonQueue # <<>>
  /\ \/ Head(daemonQueue).event = "session_activated" /\ handle_session_activated(Head(daemonQueue))
     \/ Head(daemonQueue).event = "session_removed" /\ handle_session_removed(Head(daemonQueue))
  /\ daemonQueue' = Tail(daemonQueue)
  /\ UNCHANGED <<logindVars, seatSignals, trackerVars>>

TrackerNext ==
  \/ SwitchSeat \/ EndSession
  \/ StartTracker \/ SetInitialActiveSession \/ HandleSeatSignal

-----------------------------------------------------------------------------
(* Properties.                                                             *)

TrackerTypeOK ==
  /\ loginSessions \subseteq Sessions /\ loggedOut \subseteq Sessions
  /\ {seatActive, active_session_id, daemonActive} \subseteq Sessions \cup {InvalidSession}
  /\ Tracked \subseteq Sessions \cup {InvalidSession}
  /\ daemonSessions \subseteq Sessions \cup {InvalidSession}
  /\ trackerPhase \in {"stopped", "subscribed", "started", "unanswered"}

\* The session in front; with the quirk, the last one, while there is none.
SessionInFront ==
  IF seatActive = InvalidSession /\ ignore_session_deactivation THEN active_session_id
  ELSE seatActive

\* Of the way from the seat to the daemon: when every signal and every event
\* is handled, the daemon's active session is the one in front, or the null
\* session if there is none, or one that counts as incompatible or has ended.
\* This is so whatever comes between the subscription, the first question and
\* the first signals, in whichever order logind says that the session in front
\* ends, and whatever a lookup of a process adds for a session that has ended.
DaemonFollowsSeat ==
  (trackerPhase = "started" /\ seatSignals = <<>> /\ daemonQueue = <<>>) =>
    daemonActive =
      IF SessionInFront \in Tracked /\ tracked_sessions[SessionInFront].path # InvalidSession
           /\ tracked_sessions[SessionInFront].compatible
      THEN SessionInFront ELSE InvalidSession

=============================================================================
