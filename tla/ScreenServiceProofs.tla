------------------------- MODULE ScreenServiceProofs -------------------------
(***************************************************************************)
(* That the daemon follows logind's seat, and that requests are kept and   *)
(* end with their clients, for any sessions, clients and calls.            *)
(*                                                                         *)
(* Two queues lie between them.  The last ActiveSession signal on its way  *)
(* is of the session in front, and when there is none the tracker has the  *)
(* session already (TrackerFollowsSeat).  What the last activation on the  *)
(* daemon's queue makes active, unless its removal comes after it, is what *)
(* the tracker says (DaemonFollowsTracker).  The tracker announces nothing *)
(* when its active session comes to the front again; that is right because *)
(* a session that has ended never does (SignalsAreInOrder), so an entry    *)
(* that a lookup has added for it is never taken for a session             *)
(* (EntriesAreSessions).                                                   *)
(*                                                                         *)
(* The same queue carries the requests of clients.  The last that is on it *)
(* about a request says whether it is asked for (LastRequestSays), so once *)
(* there is none the session has been told.  It was not told in vain: the  *)
(* session is announced before what begins in it (BeginsFollowSessions),   *)
(* and is not removed and made anew, for an ended session stays ended      *)
(* (SessionsFollow).  What ends must reach the session that holds it       *)
(* (EndsAreRouted): it does where the client is still on the bus when its  *)
(* call is handled, is answered of and makes the call itself (CallIsOf),   *)
(* and where the daemon has every session that the tracker has announced   *)
(* when it is asked for all of them.                                       *)
(***************************************************************************)
EXTENDS ScreenService, QueueLemmas, FiniteSetTheorems

AnySession == Sessions \cup {InvalidSession}

SeatSignals == [signal : {"ActiveSession", "SessionRemoved"}, session : AnySession]
Whats == [kind : {"inactivity", "suspend", "notification"}, client : Clients, id : Nat]
SessionEvents ==
  [event : {"session_activated"}, session : AnySession, compatible : BOOLEAN]
    \cup [event : {"session_removed"}, session : Sessions]
RequestEvents == [event : {"begin", "end"}, what : Whats, sessions : SUBSET AnySession]
DaemonEvents == SessionEvents \cup RequestEvents

TrackerTyped ==
  /\ loginSessions \subseteq Sessions /\ loggedOut \subseteq Sessions
  /\ seatActive \in AnySession /\ active_session_id \in AnySession /\ daemonActive \in AnySession
  /\ Tracked \subseteq AnySession /\ daemonSessions \subseteq AnySession
  /\ InvalidSession \in daemonSessions
  /\ \A s \in Tracked : tracked_sessions[s] \in [path : AnySession, compatible : BOOLEAN]
  /\ ignore_session_deactivation \in BOOLEAN
  /\ trackerPhase \in {"stopped", "subscribed", "started", "unanswered"}
  /\ seatSignals \in Seq(SeatSignals) /\ daemonQueue \in Seq(DaemonEvents)

Methods == (UNION {MethodsOf[c] : c \in Clients}) \cup {"NameOwnerChanged"}

Pids == Clients \cup {EveryProcess, NoProcess}

\* A client names clients and processes where the call asks for a name, and
\* nobody but itself where it does not.
Calls ==
  {m \in [sender : Clients, method : Methods, id : Nat, name : Clients, pid : Pids] :
     IF m.method \in NamingMethods THEN m.name \in NamesOf[m.sender] /\ m.pid \in PidsOf[m.sender]
     ELSE m.name = m.sender}

TablesTyped ==
  /\ nextIds \in [inactivity : Nat, suspend : Nat]
  /\ DOMAIN keep_display_on_ids \subseteq Nat /\ IsFiniteSet(DOMAIN keep_display_on_ids)
  /\ DOMAIN request_sys_state_ids \subseteq Nat /\ IsFiniteSet(DOMAIN request_sys_state_ids)
  /\ active_notifications \in [Clients -> Nat]

ServiceTyped == onBus \subseteq Clients /\ busCalls \in Seq(Calls) /\ TablesTyped

-----------------------------------------------------------------------------
(* From the seat to the tracker.                                           *)

IsActive(k) == seatSignals[k].signal = "ActiveSession"
IsRemoved(k) == seatSignals[k].signal = "SessionRemoved"

\* No signal says of an ended session that it is in front, once its end has
\* been said.
SignalsAreInOrder ==
  /\ seatActive \notin loggedOut
  /\ trackerPhase = "stopped" => seatSignals = <<>> /\ active_session_id = InvalidSession
  /\ \A k \in DOMAIN seatSignals : IsRemoved(k) =>
       /\ seatSignals[k].session \in loggedOut
       /\ \A j \in DOMAIN seatSignals :
            j > k /\ IsActive(j) => seatSignals[j].session # seatSignals[k].session

Gone(s) ==
  /\ s \in loggedOut
  /\ \A k \in DOMAIN seatSignals : IsActive(k) => seatSignals[k].session # s

NoneActive == \A k \in DOMAIN seatSignals : ~IsActive(k)
LastActive(k) == IsActive(k) /\ \A j \in DOMAIN seatSignals : j > k => ~IsActive(j)
Agrees ==
  active_session_id = seatActive \/ (ignore_session_deactivation /\ seatActive = InvalidSession)

TrackerFollowsSeat ==
  /\ \A k \in DOMAIN seatSignals : LastActive(k) => seatSignals[k].session = seatActive
  /\ trackerPhase = "started" /\ NoneActive => Agrees
  /\ trackerPhase = "subscribed" /\ NoneActive => Agrees \/ active_session_id = InvalidSession

\* An entry is of the session it is for, or was added for one that is gone.
EntriesAreSessions ==
  /\ \A s \in Tracked : tracked_sessions[s].path # s =>
       tracked_sessions[s].path = InvalidSession /\ Gone(s)
  /\ active_session_id \in Tracked \cup {InvalidSession} \/ Gone(active_session_id)

-----------------------------------------------------------------------------
(* From the tracker to the daemon.                                         *)

Announces(k) == daemonQueue[k].event = "session_activated"
RemovedAfter(k, s) ==
  \E j \in DOMAIN daemonQueue :
    j > k /\ daemonQueue[j].event = "session_removed" /\ daemonQueue[j].session = s
LeftAfter(k, s) == IF RemovedAfter(k, s) THEN InvalidSession ELSE s
LastAnnounced(k) == Announces(k) /\ \A j \in DOMAIN daemonQueue : j > k => ~Announces(j)

\* The session that the tracker has made active, as the daemon should see it.
TrackerSays ==
  IF active_session_id \in Tracked /\ tracked_sessions[active_session_id].path # InvalidSession
       /\ tracked_sessions[active_session_id].compatible
  THEN active_session_id ELSE InvalidSession

DaemonFollowsTracker ==
  /\ \A k \in DOMAIN daemonQueue : LastAnnounced(k) =>
       TrackerSays = IF daemonQueue[k].compatible THEN LeftAfter(k, daemonQueue[k].session)
                     ELSE InvalidSession
  /\ (\A k \in DOMAIN daemonQueue : ~Announces(k)) => TrackerSays = LeftAfter(0, daemonActive)

TrackerInv ==
  /\ TrackerTyped /\ SignalsAreInOrder /\ TrackerFollowsSeat /\ EntriesAreSessions
  /\ DaemonFollowsTracker

-----------------------------------------------------------------------------
(* Lemmas about the two queues.                                            *)

\* Signals arrive: t, behind those that are on their way.
LEMMA SignalsArrive ==
  ASSUME TrackerTyped, NEW t \in Seq(SeatSignals), seatSignals' = seatSignals \o t
  PROVE  \E n \in Nat :
           /\ seatSignals' \in Seq(SeatSignals) /\ DOMAIN seatSignals \subseteq DOMAIN seatSignals'
           /\ \A k \in DOMAIN seatSignals : k \in Nat /\ k <= n /\ seatSignals'[k] = seatSignals[k]
           /\ \A k \in DOMAIN seatSignals' \ DOMAIN seatSignals :
                k \in Nat /\ n < k /\ k - n \in DOMAIN t /\ seatSignals'[k] = t[k - n]
           /\ \A k \in DOMAIN t : k \in Nat /\ n + k \in DOMAIN seatSignals' /\ seatSignals'[n + k] = t[k]
<1> DEFINE q == seatSignals
<1>1. q \in Seq(SeatSignals)
  BY DEF TrackerTyped
<1> HIDE DEF q
<1>2. /\ q \o t \in Seq(SeatSignals) /\ DOMAIN q \subseteq DOMAIN (q \o t)
      /\ \A k \in DOMAIN q : k \in Nat /\ 0 < k /\ k <= Len(q) /\ (q \o t)[k] = q[k]
      /\ \A k \in DOMAIN (q \o t) \ DOMAIN q :
           k \in Nat /\ Len(q) < k /\ k - Len(q) \in DOMAIN t /\ (q \o t)[k] = t[k - Len(q)]
      /\ \A k \in DOMAIN t : k \in Nat /\ Len(q) + k \in DOMAIN (q \o t)
                             /\ (q \o t)[Len(q) + k] = t[k]
      /\ Len(q) \in Nat
  BY <1>1, JoinedByPlace
<1>3. seatSignals' = q \o t /\ seatSignals = q
  BY DEF q
<1> DEFINE n == Len(q)
<1>4. n \in Nat
  BY <1>2
<1> HIDE DEF n
<1>5. /\ seatSignals' \in Seq(SeatSignals) /\ DOMAIN seatSignals \subseteq DOMAIN seatSignals'
      /\ \A k \in DOMAIN seatSignals : k \in Nat /\ k <= n /\ seatSignals'[k] = seatSignals[k]
      /\ \A k \in DOMAIN seatSignals' \ DOMAIN seatSignals :
           k \in Nat /\ n < k /\ k - n \in DOMAIN t /\ seatSignals'[k] = t[k - n]
      /\ \A k \in DOMAIN t : k \in Nat /\ n + k \in DOMAIN seatSignals' /\ seatSignals'[n + k] = t[k]
  BY <1>2, <1>3 DEF n
<1> QED BY <1>4, <1>5

\* What the tracker says is unchanged by events that are put behind the
\* others and announce nothing.
LEMMA RequestsQueued ==
  ASSUME TrackerTyped, DaemonFollowsTracker, NEW t \in Seq(RequestEvents),
         daemonQueue' = daemonQueue \o t, UNCHANGED daemonActive, TrackerSays' = TrackerSays
  PROVE  daemonQueue' \in Seq(DaemonEvents) /\ DaemonFollowsTracker'
<1> DEFINE q == daemonQueue
<1> DEFINE n == Len(q)
<1>1. q \in Seq(DaemonEvents) /\ t \in Seq(DaemonEvents)
  <2>1. RequestEvents \subseteq DaemonEvents
    BY DEF DaemonEvents
  <2> QED BY <2>1 DEF TrackerTyped
<1> HIDE DEF q
<1>2. /\ q \o t \in Seq(DaemonEvents) /\ DOMAIN q \subseteq DOMAIN (q \o t)
      /\ \A k \in DOMAIN q : k \in Nat /\ 0 < k /\ k <= n /\ (q \o t)[k] = q[k]
      /\ \A k \in DOMAIN (q \o t) \ DOMAIN q :
           k \in Nat /\ n < k /\ k - n \in DOMAIN t /\ (q \o t)[k] = t[k - n]
      /\ n \in Nat
  BY <1>1, JoinedByPlace
<1>3. daemonQueue' = q \o t /\ daemonQueue = q
  BY DEF q
<1> HIDE DEF n
<1>4. \A k \in DOMAIN t : t[k].event \in {"begin", "end"}
  <2>1. \A k \in DOMAIN t : t[k] \in RequestEvents
    OBVIOUS
  <2> QED BY <2>1 DEF RequestEvents
<1>5. \A k \in DOMAIN daemonQueue' :
        /\ k \in DOMAIN daemonQueue => daemonQueue'[k] = daemonQueue[k]
        /\ k \notin DOMAIN daemonQueue => daemonQueue'[k].event \in {"begin", "end"}
  BY <1>2, <1>3, <1>4
<1>6. DOMAIN daemonQueue \subseteq DOMAIN daemonQueue'
  BY <1>2, <1>3
<1>7. \A k : \A s : RemovedAfter(k, s)' <=> RemovedAfter(k, s)
  BY <1>5, <1>6 DEF RemovedAfter
<1>8. \A k \in DOMAIN daemonQueue' : Announces(k)' <=> k \in DOMAIN daemonQueue /\ Announces(k)
  BY <1>5 DEF Announces
<1>9. \A k \in DOMAIN daemonQueue' : LastAnnounced(k)' => k \in DOMAIN daemonQueue /\ LastAnnounced(k)
  BY <1>6, <1>8 DEF LastAnnounced
<1>10. \A k : \A s : LeftAfter(k, s)' = LeftAfter(k, s)
  BY <1>7 DEF LeftAfter
<1>11. LeftAfter(0, daemonActive)' = LeftAfter(0, daemonActive)
  BY <1>7 DEF LeftAfter
<1>12. (\A k \in DOMAIN daemonQueue' : ~Announces(k)') => \A k \in DOMAIN daemonQueue : ~Announces(k)
  BY <1>6, <1>8
<1>13. \A k \in DOMAIN daemonQueue' : LastAnnounced(k)' =>
         TrackerSays' = IF daemonQueue'[k].compatible THEN LeftAfter(k, daemonQueue[k].session)'
                        ELSE InvalidSession
  BY <1>5, <1>7, <1>9 DEF DaemonFollowsTracker, LeftAfter
<1> QED BY <1>2, <1>3, <1>11, <1>12, <1>13 DEF DaemonFollowsTracker

\* The tracker announces the session it has made active.
LEMMA ActivationQueued ==
  ASSUME TrackerTyped, NEW s \in AnySession, NEW c \in BOOLEAN,
         daemonQueue' = Append(daemonQueue, Activation(s, c)),
         TrackerSays' = IF c THEN s ELSE InvalidSession
  PROVE  daemonQueue' \in Seq(DaemonEvents) /\ DaemonFollowsTracker'
<1> DEFINE q == daemonQueue
<1> DEFINE e == Activation(s, c)
<1>1. q \in Seq(DaemonEvents) /\ e \in DaemonEvents
  BY DEF TrackerTyped, DaemonEvents, SessionEvents, Activation
<1>2. e.event = "session_activated" /\ e.session = s /\ e.compatible = c
  BY DEF Activation
<1>3. daemonQueue' = Append(q, e) /\ daemonQueue = q
  OBVIOUS
<1> HIDE DEF q, e
<1>4. PICK last \in Nat :
      /\ Append(q, e) \in Seq(DaemonEvents)
      /\ DOMAIN Append(q, e) = DOMAIN q \cup {last} /\ Append(q, e)[last] = e
      /\ \A k \in DOMAIN q : k \in Nat /\ 0 < k /\ k < last /\ Append(q, e)[k] = q[k]
  BY <1>1, AppendedByPlace
<1>5. daemonQueue'[last].event = "session_activated" /\ daemonQueue'[last].session = s
      /\ daemonQueue'[last].compatible = c /\ last \in DOMAIN daemonQueue'
      /\ \A k \in DOMAIN daemonQueue' : k \in Nat /\ k <= last
  BY <1>2, <1>3, <1>4
<1>6. \A k \in DOMAIN daemonQueue' : LastAnnounced(k)' => k = last
  BY <1>4, <1>5 DEF LastAnnounced, Announces
<1>7. ~RemovedAfter(last, s)'
  BY <1>4, <1>5 DEF RemovedAfter
<1>8. ASSUME NEW k \in DOMAIN daemonQueue', LastAnnounced(k)'
      PROVE  TrackerSays' = IF daemonQueue'[k].compatible THEN LeftAfter(k, daemonQueue[k].session)'
                            ELSE InvalidSession
  <2>1. k = last
    BY <1>6, <1>8
  <2>2. ~RemovedAfter(k, daemonQueue[k].session)'
    BY <1>5, <1>7, <2>1 DEF RemovedAfter
  <2> QED BY <1>5, <2>1, <2>2 DEF LeftAfter
<1>9. ~(\A k \in DOMAIN daemonQueue' : ~Announces(k)')
  BY <1>5 DEF Announces
<1> QED BY <1>3, <1>4, <1>8, <1>9 DEF DaemonFollowsTracker

\* The tracker announces the end of a session.
LEMMA RemovalQueued ==
  ASSUME TrackerTyped, DaemonFollowsTracker, NEW s \in Sessions,
         daemonQueue' = Append(daemonQueue, Removal(s)), UNCHANGED daemonActive,
         TrackerSays' = IF TrackerSays = s THEN InvalidSession ELSE TrackerSays
  PROVE  daemonQueue' \in Seq(DaemonEvents) /\ DaemonFollowsTracker'
<1> DEFINE q == daemonQueue
<1> DEFINE e == Removal(s)
<1>1. q \in Seq(DaemonEvents) /\ e \in DaemonEvents
  BY DEF TrackerTyped, DaemonEvents, SessionEvents, Removal
<1>2. e.event = "session_removed" /\ e.session = s
  BY DEF Removal
<1>3. daemonQueue' = Append(q, e) /\ daemonQueue = q
  OBVIOUS
<1> HIDE DEF q, e
<1> DEFINE last == Len(q) + 1
<1>4. /\ Append(q, e) \in Seq(DaemonEvents) /\ last \in Nat
      /\ DOMAIN Append(q, e) = DOMAIN q \cup {last} /\ Append(q, e)[last] = e
      /\ \A k \in DOMAIN q : k \in Nat /\ 0 < k /\ k < last /\ Append(q, e)[k] = q[k]
  BY <1>1, AppendedByPlace
<1>5. 0 < last
  BY <1>1, LenProperties DEF last
<1> HIDE DEF last
<1>6. \A k : \A t : k \in DOMAIN daemonQueue \/ k = 0 =>
         (RemovedAfter(k, t)' <=> RemovedAfter(k, t) \/ t = s)
  BY <1>2, <1>3, <1>4, <1>5 DEF RemovedAfter
<1>7. \A k \in DOMAIN daemonQueue' :
        /\ k \in DOMAIN daemonQueue => daemonQueue'[k] = daemonQueue[k] /\ (Announces(k)' <=> Announces(k))
        /\ k \notin DOMAIN daemonQueue => ~Announces(k)'
  BY <1>2, <1>3, <1>4 DEF Announces
<1>8. DOMAIN daemonQueue \subseteq DOMAIN daemonQueue'
  BY <1>3, <1>4
<1>9. ASSUME NEW k \in DOMAIN daemonQueue', LastAnnounced(k)'
      PROVE  TrackerSays' = IF daemonQueue'[k].compatible THEN LeftAfter(k, daemonQueue[k].session)'
                            ELSE InvalidSession
  <2>1. k \in DOMAIN daemonQueue /\ LastAnnounced(k) /\ daemonQueue'[k] = daemonQueue[k]
    BY <1>7, <1>8, <1>9 DEF LastAnnounced
  <2>2. TrackerSays = IF daemonQueue[k].compatible THEN LeftAfter(k, daemonQueue[k].session)
                      ELSE InvalidSession
    BY <2>1 DEF DaemonFollowsTracker
  <2>3. RemovedAfter(k, daemonQueue[k].session)'
          <=> RemovedAfter(k, daemonQueue[k].session) \/ daemonQueue[k].session = s
    <3>1. RemovedAfter(k, daemonQueue[k].session)'
            <=> \E j \in DOMAIN daemonQueue' :
                  j > k /\ daemonQueue'[j].event = "session_removed" /\ daemonQueue'[j].session = daemonQueue[k].session
      BY <2>1 DEF RemovedAfter
    <3> QED BY <1>2, <1>3, <1>4, <2>1, <3>1 DEF RemovedAfter
  <2>4. LeftAfter(k, daemonQueue[k].session)' =
          IF RemovedAfter(k, daemonQueue[k].session)' THEN InvalidSession ELSE daemonQueue'[k].session
    BY DEF LeftAfter
  <2> QED BY <2>1, <2>2, <2>3, <2>4 DEF LeftAfter
<1>10. ASSUME \A k \in DOMAIN daemonQueue' : ~Announces(k)'
       PROVE  TrackerSays' = LeftAfter(0, daemonActive)'
  <2>1. \A k \in DOMAIN daemonQueue : ~Announces(k)
    BY <1>7, <1>8, <1>10
  <2>2. TrackerSays = LeftAfter(0, daemonActive)
    BY <2>1 DEF DaemonFollowsTracker
  <2>3. RemovedAfter(0, daemonActive)' <=> RemovedAfter(0, daemonActive) \/ daemonActive = s
    BY <1>2, <1>3, <1>4, <1>5 DEF RemovedAfter
  <2>4. LeftAfter(0, daemonActive)' = IF RemovedAfter(0, daemonActive)' THEN InvalidSession ELSE daemonActive
    BY DEF LeftAfter
  <2> QED BY <2>2, <2>3, <2>4 DEF LeftAfter
<1> QED BY <1>3, <1>4, <1>9, <1>10 DEF DaemonFollowsTracker

\* The daemon takes the first event; what it is, and what the daemon makes of
\* it.
LEMMA EventTaken ==
  ASSUME TrackerTyped, DaemonFollowsTracker, daemonQueue # <<>>, daemonQueue' = Tail(daemonQueue),
         TrackerSays' = TrackerSays,
         \/ Head(daemonQueue).event \in {"begin", "end"} /\ UNCHANGED daemonActive
         \/ /\ Head(daemonQueue).event = "session_activated"
            /\ daemonActive' = IF Head(daemonQueue).compatible THEN Head(daemonQueue).session
                               ELSE InvalidSession
         \/ /\ Head(daemonQueue).event = "session_removed"
            /\ daemonActive' = IF daemonActive = Head(daemonQueue).session THEN InvalidSession
                               ELSE daemonActive
  PROVE  daemonQueue' \in Seq(DaemonEvents) /\ DaemonFollowsTracker'
<1> DEFINE q == daemonQueue
<1> DEFINE e == Head(daemonQueue)
<1>1. q \in Seq(DaemonEvents) /\ q # <<>>
  BY DEF TrackerTyped
<1>2. daemonQueue' = Tail(q) /\ daemonQueue = q /\ e = Head(q)
  OBVIOUS
<1> HIDE DEF q
<1>3. /\ Tail(q) \in Seq(DaemonEvents) /\ 1 \in DOMAIN q /\ Head(q) = q[1] /\ q[1] \in DaemonEvents
      /\ \A k \in DOMAIN Tail(q) : k \in Nat /\ 0 < k /\ k + 1 \in DOMAIN q /\ Tail(q)[k] = q[k + 1]
      /\ \A k \in DOMAIN q : k \in Nat /\ 0 < k /\ (k # 1 =>
           k - 1 \in DOMAIN Tail(q) /\ Tail(q)[k - 1] = q[k])
  BY <1>1, TakenByPlace
<1> HIDE DEF e
<1>4. /\ e = daemonQueue[1] /\ 1 \in DOMAIN daemonQueue
      /\ \A k \in DOMAIN daemonQueue' : /\ k \in Nat /\ 0 < k /\ k + 1 \in DOMAIN daemonQueue
                                        /\ daemonQueue'[k] = daemonQueue[k + 1]
      /\ \A k \in DOMAIN daemonQueue : k \in Nat /\ 0 < k /\ (k # 1 =>
           k - 1 \in DOMAIN daemonQueue' /\ daemonQueue'[k - 1] = daemonQueue[k])
  BY <1>2, <1>3
<1>5. \A k \in DOMAIN daemonQueue' : Announces(k)' <=> Announces(k + 1)
  BY <1>4 DEF Announces
<1>6. \A k \in Nat : \A s : RemovedAfter(k, s)' <=> RemovedAfter(k + 1, s)
  <2> SUFFICES ASSUME NEW k \in Nat, NEW s PROVE RemovedAfter(k, s)' <=> RemovedAfter(k + 1, s)
    OBVIOUS
  <2>1. ASSUME RemovedAfter(k, s)' PROVE RemovedAfter(k + 1, s)
    <3>1. PICK j \in DOMAIN daemonQueue' : j > k /\ daemonQueue'[j].event = "session_removed"
                                            /\ daemonQueue'[j].session = s
      BY <2>1 DEF RemovedAfter
    <3>2. j + 1 \in DOMAIN daemonQueue /\ j + 1 > k + 1 /\ daemonQueue[j + 1] = daemonQueue'[j]
      BY <1>4, <3>1
    <3> QED BY <3>1, <3>2 DEF RemovedAfter
  <2>2. ASSUME RemovedAfter(k + 1, s) PROVE RemovedAfter(k, s)'
    <3>1. PICK j \in DOMAIN daemonQueue : j > k + 1 /\ daemonQueue[j].event = "session_removed"
                                           /\ daemonQueue[j].session = s
      BY <2>2 DEF RemovedAfter
    <3>2. j - 1 \in DOMAIN daemonQueue' /\ j - 1 > k /\ daemonQueue'[j - 1] = daemonQueue[j]
      BY <1>4, <3>1
    <3> QED BY <3>1, <3>2 DEF RemovedAfter
  <2> QED BY <2>1, <2>2
<1>7. \A k \in DOMAIN daemonQueue' : LastAnnounced(k)' => LastAnnounced(k + 1)
  <2> SUFFICES ASSUME NEW k \in DOMAIN daemonQueue', LastAnnounced(k)',
                      NEW j \in DOMAIN daemonQueue, j > k + 1
               PROVE  ~Announces(j)
    BY <1>5 DEF LastAnnounced
  <2>1. j - 1 \in DOMAIN daemonQueue' /\ j - 1 > k /\ daemonQueue'[j - 1] = daemonQueue[j]
    BY <1>4
  <2> QED BY <2>1 DEF LastAnnounced, Announces
<1>8. ASSUME NEW k \in DOMAIN daemonQueue', LastAnnounced(k)'
      PROVE  TrackerSays' = IF daemonQueue'[k].compatible THEN LeftAfter(k, daemonQueue[k].session)'
                            ELSE InvalidSession
  <2>1. k + 1 \in DOMAIN daemonQueue /\ LastAnnounced(k + 1) /\ daemonQueue'[k] = daemonQueue[k + 1]
        /\ k \in Nat
    BY <1>4, <1>7, <1>8
  <2>2. TrackerSays = IF daemonQueue[k + 1].compatible THEN LeftAfter(k + 1, daemonQueue[k + 1].session)
                      ELSE InvalidSession
    BY <2>1 DEF DaemonFollowsTracker
  <2>3. PICK s : s = daemonQueue'[k].session
    OBVIOUS
  <2>4. LeftAfter(k, daemonQueue[k].session)' = IF RemovedAfter(k, s)' THEN InvalidSession ELSE s
    BY <2>3 DEF LeftAfter, RemovedAfter
  <2> QED BY <1>6, <2>1, <2>2, <2>3, <2>4 DEF LeftAfter
<1>9. ASSUME \A k \in DOMAIN daemonQueue' : ~Announces(k)'
      PROVE  TrackerSays' = LeftAfter(0, daemonActive)'
  <2>1. PICK s : s = daemonActive'
    OBVIOUS
  <2>2. LeftAfter(0, daemonActive)' = IF RemovedAfter(1, s) THEN InvalidSession ELSE s
    <3>1. LeftAfter(0, daemonActive)' = IF RemovedAfter(0, s)' THEN InvalidSession ELSE s
      BY <2>1 DEF LeftAfter, RemovedAfter
    <3>2. RemovedAfter(0, s)' <=> RemovedAfter(0 + 1, s)
      BY <1>6
    <3> QED BY <3>1, <3>2
  <2>3. \A j \in DOMAIN daemonQueue : j > 1 => ~Announces(j)
    <3> SUFFICES ASSUME NEW j \in DOMAIN daemonQueue, j > 1 PROVE ~Announces(j)
      OBVIOUS
    <3>1. j - 1 \in DOMAIN daemonQueue' /\ daemonQueue'[j - 1] = daemonQueue[j]
      BY <1>4
    <3> QED BY <1>9, <3>1 DEF Announces
  <2>4. CASE e.event = "session_activated"
    <3>1. LastAnnounced(1)
      BY <1>4, <2>3, <2>4 DEF LastAnnounced, Announces
    <3>2. TrackerSays = IF daemonQueue[1].compatible THEN LeftAfter(1, daemonQueue[1].session)
                        ELSE InvalidSession
      BY <1>4, <3>1 DEF DaemonFollowsTracker
    <3>3. s = IF e.compatible THEN e.session ELSE InvalidSession
      BY <2>1, <2>4 DEF e
    <3> QED BY <1>4, <2>2, <3>2, <3>3 DEF LeftAfter
  <2>5. CASE e.event # "session_activated"
    <3>1. TrackerSays = LeftAfter(0, daemonActive)
      <4>1. \A k \in DOMAIN daemonQueue : ~Announces(k)
        BY <1>4, <2>3, <2>5 DEF Announces
      <4> QED BY <4>1 DEF DaemonFollowsTracker
    <3>2. \A t : RemovedAfter(0, t) <=> RemovedAfter(1, t) \/ (e.event = "session_removed" /\ e.session = t)
      <4>1. \A j \in DOMAIN daemonQueue : j > 0 <=> j > 1 \/ j = 1
        BY <1>4
      <4> QED BY <1>4, <4>1 DEF RemovedAfter
    <3>3. s = IF e.event = "session_removed" /\ daemonActive = e.session THEN InvalidSession ELSE daemonActive
      BY <2>1, <2>5 DEF e
    <3> QED BY <2>2, <3>1, <3>2, <3>3 DEF LeftAfter
  <2> QED BY <2>4, <2>5
<1> QED BY <1>2, <1>3, <1>8, <1>9 DEF DaemonFollowsTracker

-----------------------------------------------------------------------------
(* What the tracker does.                                                  *)

\* InvalidSession is none of logind's sessions.
LEMMA NoSession == InvalidSession \notin Sessions /\ CompatibleSessions \subseteq Sessions
BY SessionTrackerAssumption

\* activate_session of a session that is not gone.
LEMMA ActivateFollows ==
  ASSUME TrackerTyped, EntriesAreSessions, DaemonFollowsTracker,
         NEW s \in Sessions, ~Gone(s), activate_session(s), UNCHANGED daemonActive
  PROVE  /\ active_session_id' = s /\ s \in Tracked' /\ Tracked \subseteq Tracked'
         /\ Tracked' \subseteq Tracked \cup {s}
         /\ \A t \in Tracked' : tracked_sessions'[t] \in [path : AnySession, compatible : BOOLEAN]
         /\ \A t \in Tracked' : tracked_sessions'[t].path # t =>
              t \in Tracked /\ tracked_sessions'[t] = tracked_sessions[t]
         /\ daemonQueue' \in Seq(DaemonEvents) /\ DaemonFollowsTracker'
<1> USE NoSession DEF TrackerTyped
<1>1. PICK c \in (IF s \in Tracked THEN {tracked_sessions[s].compatible} ELSE TypesTold(s)) :
        /\ tracked_sessions' = IF s \in Tracked THEN tracked_sessions
                               ELSE With(tracked_sessions, s, [path |-> s, compatible |-> c])
        /\ active_session_id' = s
        /\ daemonQueue' = IF s = active_session_id THEN daemonQueue
                          ELSE Append(daemonQueue, Activation(s, c))
  BY DEF activate_session
<1>2. c \in BOOLEAN /\ s \in AnySession
  <2> USE DEF AnySession
  <2>1. CASE s \in Tracked
    BY <1>1, <2>1
  <2>2. CASE s \notin Tracked
    <3>1. TypesTold(s) \subseteq BOOLEAN
      BY DEF TypesTold
    <3> QED BY <1>1, <2>2, <3>1
  <2> QED BY <2>1, <2>2
<1>3. /\ Tracked' = Tracked \cup {s} /\ tracked_sessions'[s].compatible = c
      /\ tracked_sessions'[s].path = s
      /\ tracked_sessions'[s] \in [path : AnySession, compatible : BOOLEAN]
      /\ \A t \in Tracked \ {s} : tracked_sessions'[t] = tracked_sessions[t]
  <2>1. CASE s \in Tracked
    <3>1. tracked_sessions[s].path = s
      BY <2>1 DEF EntriesAreSessions
    <3> QED BY <1>1, <2>1, <3>1 DEF Tracked
  <2>2. CASE s \notin Tracked
    <3>1. tracked_sessions' = [t \in Tracked \cup {s} |-> IF t = s THEN [path |-> s, compatible |-> c]
                                                          ELSE tracked_sessions[t]]
      BY <1>1, <2>2 DEF With, Tracked
    <3> QED BY <1>2, <2>2, <3>1 DEF Tracked
  <2> QED BY <2>1, <2>2
<1>4. TrackerSays' = IF c THEN s ELSE InvalidSession
  BY <1>1, <1>3 DEF TrackerSays
<1>5. daemonQueue' \in Seq(DaemonEvents) /\ DaemonFollowsTracker'
  <2>1. CASE s = active_session_id
    <3>1. s \in Tracked
      BY <2>1 DEF EntriesAreSessions
    <3>2. UNCHANGED <<daemonQueue, tracked_sessions, active_session_id>>
      BY <1>1, <2>1, <3>1
    <3> QED BY <3>2 DEF DaemonFollowsTracker, LastAnnounced, Announces, LeftAfter, RemovedAfter,
               TrackerSays, Tracked
  <2>2. CASE s # active_session_id
    <3>1. daemonQueue' = Append(daemonQueue, Activation(s, c))
      BY <1>1, <2>2
    <3> QED BY <1>2, <1>4, <3>1, ActivationQueued
  <2> QED BY <2>1, <2>2
<1> QED BY <1>1, <1>3, <1>5

\* A deactivation.
LEMMA DeactivateFollows ==
  ASSUME TrackerTyped, EntriesAreSessions, DaemonFollowsTracker, deactivate_session,
         UNCHANGED daemonActive
  PROVE  /\ UNCHANGED tracked_sessions
         /\ active_session_id' = IF ignore_session_deactivation THEN active_session_id
                                 ELSE InvalidSession
         /\ daemonQueue' \in Seq(DaemonEvents) /\ DaemonFollowsTracker'
<1> USE DEF TrackerTyped
<1>1. CASE ignore_session_deactivation
  <2>1. UNCHANGED <<tracked_sessions, active_session_id, daemonQueue>>
    BY <1>1 DEF deactivate_session
  <2> QED BY <1>1, <2>1 DEF DaemonFollowsTracker, LastAnnounced, Announces, LeftAfter, RemovedAfter,
             TrackerSays, Tracked
<1>2. CASE ~ignore_session_deactivation
  <2>1. UNCHANGED tracked_sessions /\ active_session_id' = InvalidSession
        /\ daemonQueue' = Append(daemonQueue, Activation(InvalidSession, FALSE))
    BY <1>2 DEF deactivate_session
  <2>2. TrackerSays' = InvalidSession
    BY <2>1 DEF TrackerSays
  <2>3. InvalidSession \in AnySession
    BY DEF AnySession
  <2> QED BY <1>2, <2>1, <2>2, <2>3, ActivationQueued
<1> QED BY <1>1, <1>2

\* A removal, of the active session or of another.
LEMMA RemoveFollows ==
  ASSUME TrackerTyped, DaemonFollowsTracker, NEW s \in Sessions, remove_session(s),
         UNCHANGED daemonActive
  PROVE  /\ UNCHANGED active_session_id /\ Tracked' = Tracked \ {s}
         /\ \A t \in Tracked' : tracked_sessions'[t] = tracked_sessions[t]
         /\ daemonQueue' \in Seq(DaemonEvents) /\ DaemonFollowsTracker'
<1> USE DEF TrackerTyped
<1>1. /\ tracked_sessions' = Restrict(tracked_sessions, Tracked \ {s}) /\ UNCHANGED active_session_id
      /\ daemonQueue' = IF s \in Tracked THEN Append(daemonQueue, Removal(s)) ELSE daemonQueue
  BY DEF remove_session
<1>2. Tracked' = Tracked \ {s} /\ \A t \in Tracked' : tracked_sessions'[t] = tracked_sessions[t]
  BY <1>1 DEF Restrict, Tracked
<1>3. TrackerSays' = IF TrackerSays = s THEN InvalidSession ELSE TrackerSays
  BY <1>1, <1>2, NoSession DEF TrackerSays
<1>4. daemonQueue' \in Seq(DaemonEvents) /\ DaemonFollowsTracker'
  <2>1. CASE s \in Tracked
    <3>1. s \in AnySession /\ daemonQueue' = Append(daemonQueue, Removal(s))
      BY <1>1, <2>1 DEF AnySession
    <3> QED BY <1>3, <3>1, RemovalQueued
  <2>2. CASE s \notin Tracked
    <3>1. UNCHANGED daemonQueue /\ TrackerSays' = TrackerSays
      BY <1>1, <1>3, <2>2, NoSession DEF TrackerSays
    <3> QED BY <3>1 DEF DaemonFollowsTracker, LastAnnounced, Announces, LeftAfter, RemovedAfter
  <2> QED BY <2>1, <2>2
<1> QED BY <1>1, <1>2, <1>4

\* A lookup of a process changes nothing that the tracker says.
LEMMA LookupFollows ==
  ASSUME TrackerTyped, EntriesAreSessions, NEW path, tracked_sessions' \in {tracked_sessions, TrackedAfterLookup(path)},
         UNCHANGED active_session_id
  PROVE  /\ Tracked \subseteq Tracked' /\ Tracked' \subseteq Tracked \cup {active_session_id}
         /\ \A t \in Tracked' : tracked_sessions'[t] \in [path : AnySession, compatible : BOOLEAN]
         /\ \A t \in Tracked' :
              IF t \in Tracked THEN tracked_sessions'[t] = tracked_sessions[t]
              ELSE tracked_sessions'[t].path = InvalidSession
         /\ TrackerSays' = TrackerSays
<1> USE DEF TrackerTyped
<1>1. CASE tracked_sessions' = tracked_sessions
  BY <1>1 DEF Tracked, TrackerSays
<1>2. CASE /\ active_session_id \notin Tracked
           /\ tracked_sessions' =
                With(tracked_sessions, active_session_id, [path |-> InvalidSession, compatible |-> TRUE])
  <2>1. /\ Tracked' = Tracked \cup {active_session_id}
        /\ tracked_sessions'[active_session_id] = [path |-> InvalidSession, compatible |-> TRUE]
        /\ \A t \in Tracked : tracked_sessions'[t] = tracked_sessions[t]
    BY <1>2 DEF With, Tracked
  <2>2. [path |-> InvalidSession, compatible |-> TRUE] \in [path : AnySession, compatible : BOOLEAN]
    BY DEF AnySession
  <2>3. \A t \in Tracked' : tracked_sessions'[t] \in [path : AnySession, compatible : BOOLEAN]
    BY <2>1, <2>2
  <2>4. TrackerSays' = TrackerSays
    BY <1>2, <2>1 DEF TrackerSays
  <2>5. \A t \in Tracked' :
          IF t \in Tracked THEN tracked_sessions'[t] = tracked_sessions[t]
          ELSE tracked_sessions'[t].path = InvalidSession
    BY <2>1
  <2>6. Tracked \subseteq Tracked' /\ Tracked' \subseteq Tracked \cup {active_session_id}
    BY <2>1
  <2> QED BY <2>3, <2>4, <2>5, <2>6
<1> QED BY <1>1, <1>2 DEF TrackedAfterLookup

-----------------------------------------------------------------------------
(* Logind and the tracker keep the invariant.                              *)

\* A step that queues nothing for the daemon.
LEMMA NothingAnnounced ==
  ASSUME DaemonFollowsTracker,
         UNCHANGED <<tracked_sessions, active_session_id, daemonVars>>
  PROVE  DaemonFollowsTracker'
BY DEF DaemonFollowsTracker, LastAnnounced, Announces, LeftAfter, RemovedAfter, TrackerSays, Tracked,
       daemonVars

\* What logind does: a session that it says to be in front is, and has not
\* ended; one that it says to be removed has ended.
LEMMA LogindSignals ==
  ASSUME TrackerInv, NEW t \in Seq(SeatSignals), Signalled(t),
         \A k \in DOMAIN t : t[k].signal = "SessionRemoved" => t[k].session \in loggedOut',
         \A k \in DOMAIN t : t[k].signal = "ActiveSession" => t[k].session = seatActive',
         seatActive' = seatActive \/ \E k \in DOMAIN t : t[k].signal = "ActiveSession",
         seatActive' \in AnySession, seatActive' \notin loggedOut',
         loggedOut \subseteq loggedOut', loggedOut' \subseteq Sessions, loginSessions' \subseteq Sessions,
         UNCHANGED <<trackerVars, daemonVars>>
  PROVE  TrackerInv' /\ \A s : Gone(s) => Gone(s)'
<1> USE DEF TrackerInv
<1>1. UNCHANGED <<trackerPhase, tracked_sessions, active_session_id, ignore_session_deactivation,
                  daemonQueue, daemonSessions, daemonActive>>
  BY DEF trackerVars, daemonVars
<1>2. DaemonFollowsTracker'
  BY NothingAnnounced DEF trackerVars
<1>3. CASE trackerPhase = "stopped"
  <2>1. seatSignals = <<>> /\ UNCHANGED seatSignals
    BY <1>3 DEF Signalled, SignalsAreInOrder
  <2>2. TrackerTyped'
    BY <1>1, <2>1 DEF TrackerTyped, Tracked
  <2>3. DOMAIN seatSignals' = {}
    BY <2>1
  <2>4. SignalsAreInOrder'
    BY <1>1, <1>3, <2>1, <2>3 DEF SignalsAreInOrder
  <2>5. TrackerFollowsSeat'
    BY <1>1, <1>3, <2>3 DEF TrackerFollowsSeat
  <2>6. EntriesAreSessions'
    BY <1>1, <2>3 DEF EntriesAreSessions, Gone, Tracked, IsActive
  <2>7. \A s : Gone(s) => Gone(s)'
    BY <2>3 DEF Gone
  <2> QED BY <1>2, <2>2, <2>4, <2>5, <2>6, <2>7
<1>4. CASE trackerPhase # "stopped"
  <2>1. seatSignals' = seatSignals \o t
    BY <1>4 DEF Signalled
  <2>2. PICK n \in Nat :
          /\ seatSignals' \in Seq(SeatSignals) /\ DOMAIN seatSignals \subseteq DOMAIN seatSignals'
          /\ \A k \in DOMAIN seatSignals : k \in Nat /\ k <= n /\ seatSignals'[k] = seatSignals[k]
          /\ \A k \in DOMAIN seatSignals' \ DOMAIN seatSignals :
               k \in Nat /\ n < k /\ k - n \in DOMAIN t /\ seatSignals'[k] = t[k - n]
          /\ \A k \in DOMAIN t : k \in Nat /\ n + k \in DOMAIN seatSignals' /\ seatSignals'[n + k] = t[k]
    BY <2>1, SignalsArrive
  <2>3. TrackerTyped'
    BY <1>1, <2>2 DEF TrackerTyped, Tracked
  <2>4. \A k \in DOMAIN seatSignals' \ DOMAIN seatSignals :
          /\ IsActive(k)' => seatSignals'[k].session = seatActive'
          /\ IsRemoved(k)' => seatSignals'[k].session \in loggedOut'
    BY <2>2 DEF IsActive, IsRemoved
  <2>5. \A k \in DOMAIN seatSignals : (IsActive(k)' <=> IsActive(k)) /\ (IsRemoved(k)' <=> IsRemoved(k))
    BY <2>2 DEF IsActive, IsRemoved
  <2>6. \A k \in DOMAIN seatSignals : \A j \in DOMAIN seatSignals' : k >= j => j \in DOMAIN seatSignals
    BY <2>2
  <2>7. SignalsAreInOrder'
    <3>1. ASSUME NEW k \in DOMAIN seatSignals', IsRemoved(k)'
          PROVE  /\ seatSignals'[k].session \in loggedOut'
                 /\ \A j \in DOMAIN seatSignals' :
                      j > k /\ IsActive(j)' => seatSignals'[j].session # seatSignals'[k].session
      <4>1. seatSignals'[k].session \in loggedOut'
        BY <2>2, <2>4, <2>5, <3>1 DEF SignalsAreInOrder
      <4>2. ASSUME NEW j \in DOMAIN seatSignals', j > k, IsActive(j)'
            PROVE  seatSignals'[j].session # seatSignals'[k].session
        <5>1. CASE j \in DOMAIN seatSignals
          <6>1. k \in DOMAIN seatSignals
            BY <2>2, <4>2, <5>1
          <6> QED BY <2>2, <2>5, <3>1, <4>2, <5>1, <6>1 DEF SignalsAreInOrder
        <5>2. CASE j \notin DOMAIN seatSignals
          BY <2>4, <4>1, <4>2, <5>2
        <5> QED BY <5>1, <5>2
      <4> QED BY <4>1, <4>2
    <3> QED BY <1>1, <1>4, <3>1 DEF SignalsAreInOrder, IsRemoved, IsActive
  <2>8. \A s : Gone(s) => Gone(s)'
    <3> SUFFICES ASSUME NEW s, Gone(s) PROVE Gone(s)'
      OBVIOUS
    <3>1. s \in loggedOut'
      BY DEF Gone
    <3>2. ASSUME NEW k \in DOMAIN seatSignals', IsActive(k)' PROVE seatSignals'[k].session # s
      BY <2>2, <2>4, <2>5, <3>1, <3>2 DEF Gone
    <3> QED BY <3>1, <3>2 DEF Gone
  <2>9. EntriesAreSessions'
    <3>1. \A s \in Tracked' : tracked_sessions'[s].path # s =>
            tracked_sessions'[s].path = InvalidSession /\ Gone(s)'
      BY <1>1, <2>8 DEF EntriesAreSessions, Tracked
    <3>2. PICK a : a = active_session_id
      OBVIOUS
    <3>3. a \in Tracked \cup {InvalidSession} \/ Gone(a)'
      BY <2>8, <3>2 DEF EntriesAreSessions
    <3>4. active_session_id' \in Tracked' \cup {InvalidSession} \/ Gone(active_session_id)'
      BY <1>1, <3>2, <3>3 DEF Tracked, Gone
    <3> QED BY <3>1, <3>4 DEF EntriesAreSessions
  <2>10. TrackerFollowsSeat'
    <3>1. CASE \E k \in DOMAIN t : t[k].signal = "ActiveSession"
      <4>1. PICK i \in DOMAIN t : t[i].signal = "ActiveSession"
        BY <3>1
      <4>2. n + i \in DOMAIN seatSignals' /\ IsActive(n + i)' /\ n + i > n
        BY <2>2, <4>1 DEF IsActive
      <4>3. \A k \in DOMAIN seatSignals' : LastActive(k)' => k \notin DOMAIN seatSignals /\ IsActive(k)'
        BY <2>2, <4>2 DEF LastActive
      <4>4. ~NoneActive'
        BY <4>2 DEF NoneActive
      <4> QED BY <2>4, <4>3, <4>4 DEF TrackerFollowsSeat
    <3>2. CASE ~ \E k \in DOMAIN t : t[k].signal = "ActiveSession"
      <4>1. seatActive' = seatActive
        BY <3>2
      <4>2. \A k \in DOMAIN seatSignals' : IsActive(k)' => k \in DOMAIN seatSignals
        BY <2>2, <3>2 DEF IsActive
      <4>3. \A k \in DOMAIN seatSignals' : LastActive(k)' => k \in DOMAIN seatSignals /\ LastActive(k)
        BY <2>2, <2>5, <4>2 DEF LastActive
      <4>4. NoneActive' => NoneActive
        BY <2>2, <2>5 DEF NoneActive
      <4>5. Agrees' <=> Agrees
        BY <1>1, <4>1 DEF Agrees
      <4>6. \A k \in DOMAIN seatSignals' : LastActive(k)' => seatSignals'[k].session = seatActive'
        BY <2>2, <4>1, <4>3 DEF TrackerFollowsSeat
      <4>7. trackerPhase' = "started" /\ NoneActive' => Agrees'
        BY <1>1, <4>4, <4>5 DEF TrackerFollowsSeat
      <4>8. trackerPhase' = "subscribed" /\ NoneActive' => Agrees' \/ active_session_id' = InvalidSession
        BY <1>1, <4>4, <4>5 DEF TrackerFollowsSeat
      <4> QED BY <4>6, <4>7, <4>8 DEF TrackerFollowsSeat
    <3> QED BY <3>1, <3>2
  <2> QED BY <1>2, <2>3, <2>7, <2>8, <2>9, <2>10
<1> QED BY <1>3, <1>4

\* The seat switches, and a signal says so.
LEMMA SwitchSeatKeeps ==
  ASSUME TrackerInv, SwitchSeat
  PROVE  TrackerInv' /\ \A s : Gone(s) => Gone(s)'
<1>1. PICK s \in (Sessions \ loggedOut) \cup {InvalidSession} :
        /\ seatActive' = s /\ loginSessions' = loginSessions \cup ({s} \ {InvalidSession})
        /\ Signalled(<<ActiveSession(s)>>)
  BY DEF SwitchSeat
<1>2. PICK t : t = <<ActiveSession(s)>>
  OBVIOUS
<1>3. s \in AnySession /\ s \notin loggedOut
  BY NoSession DEF TrackerInv, TrackerTyped, AnySession
<1>4. t \in Seq(SeatSignals) /\ DOMAIN t = {1} /\ t[1].signal = "ActiveSession" /\ t[1].session = s
  BY <1>2, <1>3 DEF ActiveSession, SeatSignals
<1>5. /\ UNCHANGED <<loggedOut, trackerVars, daemonVars>>
      /\ loggedOut \subseteq Sessions /\ loginSessions' \subseteq Sessions
  BY <1>1 DEF SwitchSeat, TrackerInv, TrackerTyped
<1>6. Signalled(t)
  BY <1>1, <1>2
<1> QED BY <1>1, <1>3, <1>4, <1>5, <1>6, LogindSignals

\* A session ends, and a signal says so.
LEMMA EndSessionKeeps ==
  ASSUME TrackerInv, EndSession
  PROVE  TrackerInv' /\ \A s : Gone(s) => Gone(s)'
<1>1. PICK s \in loginSessions :
        /\ loginSessions' = loginSessions \ {s} /\ loggedOut' = loggedOut \cup {s}
        /\ IF s = seatActive
           THEN /\ seatActive' = InvalidSession
                /\ \/ Signalled(<<ActiveSession(InvalidSession), SessionRemoved(s)>>)
                   \/ Signalled(<<SessionRemoved(s), ActiveSession(InvalidSession)>>)
           ELSE Signalled(<<SessionRemoved(s)>>) /\ UNCHANGED seatActive
  BY DEF EndSession
<1>2. /\ UNCHANGED <<trackerVars, daemonVars>>
      /\ loggedOut' \subseteq Sessions /\ loginSessions' \subseteq Sessions
      /\ loggedOut \subseteq loggedOut'
  BY <1>1 DEF EndSession, TrackerInv, TrackerTyped
<1>3. s \in AnySession /\ s \in loggedOut' /\ InvalidSession \in AnySession
  BY <1>1 DEF TrackerInv, TrackerTyped, AnySession
<1>4. seatActive' \in AnySession /\ seatActive' \notin loggedOut'
  BY <1>1, <1>2, NoSession DEF TrackerInv, TrackerTyped, SignalsAreInOrder, AnySession
<1>5. CASE s # seatActive
  <2>1. PICK t : t = <<SessionRemoved(s)>>
    OBVIOUS
  <2>2. t \in Seq(SeatSignals) /\ DOMAIN t = {1} /\ t[1].signal = "SessionRemoved" /\ t[1].session = s
    BY <1>3, <2>1 DEF SessionRemoved, SeatSignals
  <2>3. Signalled(t) /\ seatActive' = seatActive
    BY <1>1, <1>5, <2>1
  <2> QED BY <1>2, <1>3, <1>4, <2>2, <2>3, LogindSignals
<1>6. CASE s = seatActive
  <2>1. PICK a : a = <<ActiveSession(InvalidSession), SessionRemoved(s)>>
    OBVIOUS
  <2>2. PICK b : b = <<SessionRemoved(s), ActiveSession(InvalidSession)>>
    OBVIOUS
  <2>3. /\ a \in Seq(SeatSignals) /\ DOMAIN a = {1, 2}
        /\ a[1].signal = "ActiveSession" /\ a[1].session = InvalidSession
        /\ a[2].signal = "SessionRemoved" /\ a[2].session = s
    BY <1>3, <2>1 DEF SessionRemoved, ActiveSession, SeatSignals
  <2>4. /\ b \in Seq(SeatSignals) /\ DOMAIN b = {1, 2}
        /\ b[2].signal = "ActiveSession" /\ b[2].session = InvalidSession
        /\ b[1].signal = "SessionRemoved" /\ b[1].session = s
    BY <1>3, <2>2 DEF SessionRemoved, ActiveSession, SeatSignals
  <2>5. seatActive' = InvalidSession /\ (Signalled(a) \/ Signalled(b))
    BY <1>1, <1>6, <2>1, <2>2
  <2>6. CASE Signalled(a)
    BY <1>2, <1>3, <1>4, <2>3, <2>5, <2>6, LogindSignals
  <2>7. CASE Signalled(b)
    BY <1>2, <1>3, <1>4, <2>4, <2>5, <2>7, LogindSignals
  <2> QED BY <2>5, <2>6, <2>7
<1> QED BY <1>5, <1>6

\* The tracker reads the seat as it starts.
LEMMA StartTrackerKeeps ==
  ASSUME TrackerInv, StartTracker
  PROVE  TrackerInv'
<1> USE DEF TrackerInv
<1>1. /\ trackerPhase = "stopped" /\ trackerPhase' = "subscribed"
      /\ UNCHANGED <<loginSessions, loggedOut, seatActive, seatSignals, tracked_sessions,
                     active_session_id, ignore_session_deactivation, daemonQueue,
                     daemonSessions, daemonActive>>
  BY DEF StartTracker, logindVars, daemonVars
<1>2. TrackerTyped'
  BY <1>1 DEF TrackerTyped, Tracked
<1>3. seatSignals = <<>> /\ active_session_id = InvalidSession
  BY <1>1 DEF SignalsAreInOrder
<1>4. DOMAIN seatSignals' = {}
  BY <1>1, <1>3
<1>5. SignalsAreInOrder'
  BY <1>1, <1>4 DEF SignalsAreInOrder
<1>6. TrackerFollowsSeat'
  BY <1>1, <1>3, <1>4 DEF TrackerFollowsSeat
<1>7. EntriesAreSessions'
  BY <1>1, <1>4 DEF EntriesAreSessions, Gone, IsActive, Tracked
<1>8. DaemonFollowsTracker'
  BY <1>1, NothingAnnounced DEF daemonVars
<1> QED BY <1>2, <1>5, <1>6, <1>7, <1>8

\* What it read becomes the first active session.
LEMMA SetInitialKeeps ==
  ASSUME TrackerInv, SetInitialActiveSession
  PROVE  TrackerInv'
<1> USE DEF TrackerInv
<1>1. PICK s \in {seatActive, "no answer"} :
        /\ trackerPhase' = IF s = "no answer" THEN "unanswered" ELSE "started"
        /\ IF s \in {InvalidSession, "no answer"}
           THEN UNCHANGED <<tracked_sessions, active_session_id, daemonQueue>>
           ELSE activate_session(s)
  BY DEF SetInitialActiveSession, dbus_get_active_session
<1>2. /\ trackerPhase = "subscribed"
      /\ UNCHANGED <<loginSessions, loggedOut, seatActive, seatSignals, ignore_session_deactivation,
                     daemonSessions, daemonActive>>
  BY DEF SetInitialActiveSession, logindVars
<1>3. \A t : Gone(t)' <=> Gone(t)
  BY <1>2 DEF Gone, IsActive
<1>4. SignalsAreInOrder'
  <2>1. trackerPhase' # "stopped"
    BY <1>1
  <2>2. \A k \in DOMAIN seatSignals' : (IsRemoved(k)' <=> IsRemoved(k)) /\ (IsActive(k)' <=> IsActive(k))
    BY <1>2 DEF IsRemoved, IsActive
  <2>3. \A k \in DOMAIN seatSignals' : IsRemoved(k)' =>
          /\ seatSignals'[k].session \in loggedOut'
          /\ \A j \in DOMAIN seatSignals' :
               j > k /\ IsActive(j)' => seatSignals'[j].session # seatSignals'[k].session
    BY <1>2, <2>2 DEF SignalsAreInOrder
  <2>4. seatActive' \notin loggedOut'
    BY <1>2 DEF SignalsAreInOrder
  <2> QED BY <2>1, <2>3, <2>4 DEF SignalsAreInOrder, IsRemoved, IsActive
<1>5. (\A k : LastActive(k)' <=> LastActive(k)) /\ (NoneActive' <=> NoneActive)
  BY <1>2 DEF LastActive, NoneActive, IsActive
<1>6. \A k \in DOMAIN seatSignals' : LastActive(k)' => seatSignals'[k].session = seatActive'
  BY <1>2, <1>5 DEF TrackerFollowsSeat
<1>7. CASE s \in {InvalidSession, "no answer"}
  <2>1. UNCHANGED <<tracked_sessions, active_session_id, daemonQueue>>
    BY <1>1, <1>7
  <2>2. TrackerTyped'
    BY <1>1, <1>2, <2>1 DEF TrackerTyped, Tracked
  <2>3. EntriesAreSessions'
    BY <1>2, <2>1 DEF EntriesAreSessions, Gone, IsActive, Tracked
  <2>4. DaemonFollowsTracker'
    BY <1>2, <2>1, NothingAnnounced DEF daemonVars
  <2>5. trackerPhase' = "started" /\ NoneActive' => Agrees'
    <3>1. CASE s = "no answer"
      BY <1>1, <3>1
    <3>2. CASE s # "no answer"
      <4>1. seatActive = InvalidSession
        BY <1>1, <1>7, <3>2
      <4>2. NoneActive => Agrees
        BY <1>2, <4>1 DEF TrackerFollowsSeat, Agrees
      <4> QED BY <1>2, <1>5, <2>1, <4>2 DEF Agrees
    <3> QED BY <3>1, <3>2
  <2>6. trackerPhase' # "subscribed"
    BY <1>1
  <2>7. TrackerFollowsSeat'
    BY <1>6, <2>5, <2>6 DEF TrackerFollowsSeat
  <2> QED BY <1>4, <2>2, <2>3, <2>4, <2>7
<1>8. CASE s \notin {InvalidSession, "no answer"}
  <2>1. s = seatActive /\ s \in Sessions /\ activate_session(s) /\ ~Gone(s)
    BY <1>1, <1>8 DEF TrackerTyped, AnySession, SignalsAreInOrder, Gone
  <2>2. /\ active_session_id' = s /\ s \in Tracked' /\ Tracked \subseteq Tracked'
        /\ Tracked' \subseteq Tracked \cup {s}
        /\ \A t \in Tracked' : tracked_sessions'[t] \in [path : AnySession, compatible : BOOLEAN]
        /\ \A t \in Tracked' : tracked_sessions'[t].path # t =>
             t \in Tracked /\ tracked_sessions'[t] = tracked_sessions[t]
        /\ daemonQueue' \in Seq(DaemonEvents) /\ DaemonFollowsTracker'
    BY <1>2, <2>1, ActivateFollows
  <2>3. TrackerTyped'
    BY <1>1, <1>2, <2>1, <2>2 DEF TrackerTyped, AnySession
  <2>4. EntriesAreSessions'
    BY <1>3, <2>2 DEF EntriesAreSessions
  <2>5. TrackerFollowsSeat'
    BY <1>2, <1>6, <2>1, <2>2 DEF TrackerFollowsSeat, Agrees
  <2> QED BY <1>4, <2>2, <2>3, <2>4, <2>5
<1> QED BY <1>7, <1>8

\* The first signal is taken.
LEMMA SignalTaken ==
  ASSUME TrackerInv, seatSignals # <<>>, seatSignals' = Tail(seatSignals),
         UNCHANGED <<loggedOut, seatActive>>, trackerPhase # "stopped", trackerPhase' # "stopped"
  PROVE  /\ seatSignals' \in Seq(SeatSignals)
         /\ Head(seatSignals) = seatSignals[1] /\ seatSignals[1] \in SeatSignals
         /\ 1 \in DOMAIN seatSignals /\ SignalsAreInOrder'
         /\ \A s : Gone(s) => Gone(s)'
         /\ \A k \in DOMAIN seatSignals' : LastActive(k)' => seatSignals'[k].session = seatActive'
         /\ NoneActive' /\ IsActive(1) => seatSignals[1].session = seatActive
         /\ NoneActive' /\ ~IsActive(1) => NoneActive
         /\ \A s : IsRemoved(1) /\ seatSignals[1].session = s => Gone(s)'
<1> USE DEF TrackerInv
<1> DEFINE q == seatSignals
<1>1. q \in Seq(SeatSignals) /\ q # <<>>
  BY DEF TrackerTyped
<1>2. seatSignals' = Tail(q) /\ seatSignals = q
  OBVIOUS
<1> HIDE DEF q
<1>3. /\ Tail(q) \in Seq(SeatSignals) /\ 1 \in DOMAIN q /\ Head(q) = q[1] /\ q[1] \in SeatSignals
      /\ \A k \in DOMAIN Tail(q) : k \in Nat /\ 0 < k /\ k + 1 \in DOMAIN q /\ Tail(q)[k] = q[k + 1]
      /\ \A k \in DOMAIN q : k \in Nat /\ 0 < k /\ (k # 1 =>
           k - 1 \in DOMAIN Tail(q) /\ Tail(q)[k - 1] = q[k])
  BY <1>1, TakenByPlace
<1>4. /\ \A k \in DOMAIN seatSignals' : /\ k \in Nat /\ 0 < k /\ k + 1 \in DOMAIN seatSignals
                                        /\ seatSignals'[k] = seatSignals[k + 1]
      /\ \A k \in DOMAIN seatSignals : k \in Nat /\ 0 < k /\ (k # 1 =>
           k - 1 \in DOMAIN seatSignals' /\ seatSignals'[k - 1] = seatSignals[k])
  BY <1>2, <1>3
<1>5. \A k \in DOMAIN seatSignals' : /\ IsActive(k)' <=> IsActive(k + 1)
                                     /\ IsRemoved(k)' <=> IsRemoved(k + 1)
  BY <1>4 DEF IsActive, IsRemoved
<1>6. SignalsAreInOrder'
  <2>1. ASSUME NEW k \in DOMAIN seatSignals', IsRemoved(k)'
        PROVE  /\ seatSignals'[k].session \in loggedOut'
               /\ \A j \in DOMAIN seatSignals' :
                    j > k /\ IsActive(j)' => seatSignals'[j].session # seatSignals'[k].session
    <3>1. k + 1 \in DOMAIN seatSignals /\ IsRemoved(k + 1) /\ seatSignals'[k] = seatSignals[k + 1]
      BY <1>4, <1>5, <2>1
    <3>2. ASSUME NEW j \in DOMAIN seatSignals', j > k, IsActive(j)'
          PROVE  seatSignals'[j].session # seatSignals'[k].session
      <4>1. j + 1 \in DOMAIN seatSignals /\ IsActive(j + 1) /\ j + 1 > k + 1
            /\ seatSignals'[j] = seatSignals[j + 1]
        BY <1>4, <1>5, <3>2
      <4> QED BY <3>1, <4>1 DEF SignalsAreInOrder
    <3> QED BY <3>1, <3>2 DEF SignalsAreInOrder
  <2> QED BY <2>1 DEF SignalsAreInOrder, IsRemoved, IsActive
<1>7. \A s : Gone(s) => Gone(s)'
  BY <1>4, <1>5 DEF Gone
<1>8. \A k \in DOMAIN seatSignals' : LastActive(k)' => seatSignals'[k].session = seatActive'
  <2> SUFFICES ASSUME NEW k \in DOMAIN seatSignals', LastActive(k)'
               PROVE  seatSignals'[k].session = seatActive'
    OBVIOUS
  <2>1. k + 1 \in DOMAIN seatSignals /\ IsActive(k + 1) /\ seatSignals'[k] = seatSignals[k + 1]
    BY <1>4, <1>5 DEF LastActive
  <2>2. ASSUME NEW j \in DOMAIN seatSignals, j > k + 1 PROVE ~IsActive(j)
    <3>1. j - 1 \in DOMAIN seatSignals' /\ seatSignals'[j - 1] = seatSignals[j] /\ j - 1 > k
      BY <1>4, <2>2
    <3> QED BY <3>1 DEF LastActive, IsActive
  <2>3. LastActive(k + 1)
    BY <2>1, <2>2 DEF LastActive
  <2> QED BY <2>1, <2>3 DEF TrackerFollowsSeat
<1>9. ASSUME NoneActive'
      PROVE  /\ IsActive(1) => seatSignals[1].session = seatActive
             /\ ~IsActive(1) => NoneActive
  <2>1. ASSUME NEW j \in DOMAIN seatSignals, j # 1 PROVE ~IsActive(j)
    <3>1. j - 1 \in DOMAIN seatSignals' /\ seatSignals'[j - 1] = seatSignals[j]
      BY <1>4, <2>1
    <3>2. ~(seatSignals'[j - 1].signal = "ActiveSession")
      BY <1>9, <3>1 DEF NoneActive, IsActive
    <3> QED BY <3>1, <3>2 DEF IsActive
  <2>2. IsActive(1) => LastActive(1)
    BY <2>1, <1>4 DEF LastActive
  <2> QED BY <1>2, <1>3, <2>1, <2>2 DEF NoneActive, TrackerFollowsSeat
<1>10. ASSUME NEW s, IsRemoved(1), seatSignals[1].session = s PROVE Gone(s)'
  <2>2. s \in loggedOut' /\ \A j \in DOMAIN seatSignals : j > 1 /\ IsActive(j) => seatSignals[j].session # s
    BY <1>2, <1>3, <1>10 DEF SignalsAreInOrder
  <2>3. \A k \in DOMAIN seatSignals' : IsActive(k)' => seatSignals'[k].session # s
    BY <1>4, <1>5, <2>2
  <2> QED BY <2>2, <2>3 DEF Gone
<1> QED BY <1>2, <1>3, <1>6, <1>7, <1>8, <1>9, <1>10

\* The tracker takes the next signal.
LEMMA HandleSeatSignalKeeps ==
  ASSUME TrackerInv, HandleSeatSignal
  PROVE  TrackerInv'
<1> USE DEF TrackerInv
<1>1. /\ trackerPhase # "stopped" /\ seatSignals # <<>> /\ seatSignals' = Tail(seatSignals)
      /\ UNCHANGED <<loginSessions, loggedOut, seatActive, ignore_session_deactivation,
                     daemonSessions, daemonActive>>
  BY DEF HandleSeatSignal, logindVars
<1>2. PICK m : m = Head(seatSignals)
  OBVIOUS
<1>3. IF m.signal = "ActiveSession"
      THEN /\ handle_dbus_change_seat_properties(m.session)
           /\ trackerPhase' = IF trackerPhase = "unanswered" THEN "started" ELSE trackerPhase
      ELSE remove_session(m.session) /\ UNCHANGED trackerPhase
  BY <1>2 DEF HandleSeatSignal
<1>4. /\ trackerPhase' # "stopped" /\ (trackerPhase' = "subscribed" => trackerPhase = "subscribed")
      /\ trackerPhase' \in {"stopped", "subscribed", "started", "unanswered"}
  <2>1. trackerPhase' \in {"started", trackerPhase}
    BY <1>3
  <2> QED BY <1>1, <2>1 DEF TrackerTyped
<1>5. /\ seatSignals' \in Seq(SeatSignals) /\ m = seatSignals[1] /\ m \in SeatSignals
      /\ 1 \in DOMAIN seatSignals /\ SignalsAreInOrder'
      /\ \A s : Gone(s) => Gone(s)'
      /\ \A k \in DOMAIN seatSignals' : LastActive(k)' => seatSignals'[k].session = seatActive'
      /\ NoneActive' /\ m.signal = "ActiveSession" => m.session = seatActive
      /\ NoneActive' /\ m.signal # "ActiveSession" => NoneActive
      /\ \A s : m.signal = "SessionRemoved" /\ m.session = s => Gone(s)'
  BY <1>1, <1>2, <1>4, SignalTaken DEF IsActive, IsRemoved
<1>6. PICK s : s = m.session
  OBVIOUS
<1>7. s \in AnySession /\ m.signal \in {"ActiveSession", "SessionRemoved"}
  BY <1>5, <1>6 DEF SeatSignals
<1>8. \A t : active_session_id = t /\ t \notin Tracked \cup {InvalidSession} => Gone(t)'
  BY <1>5 DEF EntriesAreSessions
<1>9. ASSUME m.signal = "ActiveSession", s = InvalidSession
      PROVE  TrackerInv'
  <2>1. deactivate_session
    BY <1>3, <1>6, <1>9 DEF handle_dbus_change_seat_properties
  <2>2. /\ UNCHANGED tracked_sessions
        /\ active_session_id' = IF ignore_session_deactivation THEN active_session_id
                                ELSE InvalidSession
        /\ daemonQueue' \in Seq(DaemonEvents) /\ DaemonFollowsTracker'
    BY <1>1, <2>1, DeactivateFollows
  <2>3. TrackerTyped'
    BY <1>1, <1>4, <1>5, <1>7, <1>9, <2>2 DEF TrackerTyped, Tracked
  <2>4. EntriesAreSessions'
    <3>1. \A t \in Tracked' : tracked_sessions'[t].path # t =>
            tracked_sessions'[t].path = InvalidSession /\ Gone(t)'
      BY <1>5, <2>2 DEF EntriesAreSessions, Tracked
    <3>2. PICK a : a = active_session_id'
      OBVIOUS
    <3>3. a = active_session_id \/ a = InvalidSession
      BY <2>2, <3>2
    <3>4. a \in Tracked' \cup {InvalidSession} \/ Gone(a)'
      BY <1>8, <2>2, <3>3 DEF Tracked
    <3> QED BY <3>1, <3>2, <3>4 DEF EntriesAreSessions, Gone
  <2>5. TrackerFollowsSeat'
    <3>1. NoneActive' => Agrees'
      BY <1>1, <1>5, <1>6, <1>9, <2>2 DEF Agrees
    <3> QED BY <1>5, <3>1 DEF TrackerFollowsSeat
  <2> QED BY <1>5, <2>2, <2>3, <2>4, <2>5
<1>10. ASSUME m.signal = "ActiveSession", s # InvalidSession
       PROVE  TrackerInv'
  <2>1. activate_session(s) /\ s \in Sessions
    BY <1>3, <1>6, <1>7, <1>10 DEF handle_dbus_change_seat_properties, AnySession
  <2>2. ~Gone(s)
    BY <1>5, <1>6, <1>10 DEF Gone, IsActive
  <2>3. /\ active_session_id' = s /\ s \in Tracked' /\ Tracked \subseteq Tracked'
        /\ Tracked' \subseteq Tracked \cup {s}
        /\ \A t \in Tracked' : tracked_sessions'[t] \in [path : AnySession, compatible : BOOLEAN]
        /\ \A t \in Tracked' : tracked_sessions'[t].path # t =>
             t \in Tracked /\ tracked_sessions'[t] = tracked_sessions[t]
        /\ daemonQueue' \in Seq(DaemonEvents) /\ DaemonFollowsTracker'
    BY <1>1, <2>1, <2>2, ActivateFollows
  <2>4. TrackerTyped'
    BY <1>1, <1>4, <1>5, <1>7, <2>3 DEF TrackerTyped
  <2>5. EntriesAreSessions'
    BY <1>5, <2>3 DEF EntriesAreSessions
  <2>6. TrackerFollowsSeat'
    <3>1. NoneActive' => Agrees'
      BY <1>1, <1>5, <1>6, <1>10, <2>3 DEF Agrees
    <3> QED BY <1>5, <3>1 DEF TrackerFollowsSeat
  <2> QED BY <1>5, <2>3, <2>4, <2>5, <2>6
<1>11. ASSUME m.signal = "SessionRemoved"
       PROVE  TrackerInv'
  <2>1. remove_session(s) /\ UNCHANGED trackerPhase /\ Gone(s)'
    BY <1>3, <1>5, <1>6, <1>11
  <2>2. s \in Sessions
    BY <1>1, <2>1 DEF Gone, TrackerTyped
  <2>3. /\ UNCHANGED active_session_id /\ Tracked' = Tracked \ {s}
        /\ \A t \in Tracked' : tracked_sessions'[t] = tracked_sessions[t]
        /\ daemonQueue' \in Seq(DaemonEvents) /\ DaemonFollowsTracker'
    BY <1>1, <2>1, <2>2, RemoveFollows
  <2>4. TrackerTyped'
    BY <1>1, <1>4, <1>5, <1>7, <2>3 DEF TrackerTyped
  <2>5. EntriesAreSessions'
    <3>1. \A t \in Tracked' : tracked_sessions'[t].path # t =>
            tracked_sessions'[t].path = InvalidSession /\ Gone(t)'
      BY <1>5, <2>3 DEF EntriesAreSessions
    <3>2. PICK a : a = active_session_id
      OBVIOUS
    <3>3. a \in Tracked' \cup {InvalidSession} \/ Gone(a)'
      BY <1>8, <2>1, <2>3, <3>2
    <3> QED BY <2>3, <3>1, <3>2, <3>3 DEF EntriesAreSessions, Gone
  <2>6. TrackerFollowsSeat'
    <3>1. NoneActive' => NoneActive
      BY <1>5, <1>11
    <3>2. Agrees' <=> Agrees
      BY <1>1, <2>3 DEF Agrees
    <3>3. trackerPhase' = "started" /\ NoneActive' => Agrees'
      BY <2>1, <3>1, <3>2 DEF TrackerFollowsSeat
    <3>4. trackerPhase' = "subscribed" /\ NoneActive' => Agrees' \/ active_session_id' = InvalidSession
      BY <2>1, <2>3, <3>1, <3>2 DEF TrackerFollowsSeat
    <3> QED BY <1>5, <3>3, <3>4 DEF TrackerFollowsSeat
  <2> QED BY <1>5, <2>3, <2>4, <2>5, <2>6
<1> QED BY <1>7, <1>9, <1>10, <1>11

-----------------------------------------------------------------------------
(* The service keeps it: it only looks processes up and queues requests.   *)

\* The elements of a finite set can be put in a sequence.
LEMMA SetToSeqType ==
  ASSUME NEW S, IsFiniteSet(S)
  PROVE  SetToSeq(S) \in Seq(S)
<1>1. PICK f \in [1 .. Cardinality(S) -> S] : IsInjective(f)
  BY FS_CardinalityType DEF ExistsBijection, Bijection, Injection
<1>2. SetToSeq(S) \in [1 .. Cardinality(S) -> S]
  BY <1>1 DEF SetToSeq
<1>3. Cardinality(S) \in Nat
  BY FS_CardinalityType
<1> QED BY <1>2, <1>3

serviceKeeps ==
  <<logindVars, seatSignals, trackerPhase, active_session_id, ignore_session_deactivation,
    daemonSessions, daemonActive>>

OnlyLooksUp ==
  \/ UNCHANGED tracked_sessions
  \/ \E path : tracked_sessions' = TrackedAfterLookup(path)

OnlyRequests == \E t \in Seq(RequestEvents) : daemonQueue' = daemonQueue \o t

\* A step of the service that looks up its caller's session at most, and queues
\* requests behind what is there.
LEMMA ServiceQueues ==
  ASSUME TrackerInv, OnlyLooksUp, OnlyRequests, UNCHANGED serviceKeeps
  PROVE  TrackerInv'
<1> USE DEF TrackerInv
<1>0. PICK t \in Seq(RequestEvents) : daemonQueue' = daemonQueue \o t
  BY DEF OnlyRequests
<1>1. UNCHANGED <<loginSessions, loggedOut, seatActive, seatSignals, trackerPhase, active_session_id,
                  ignore_session_deactivation, daemonSessions, daemonActive>>
  BY DEF serviceKeeps, logindVars
<1>2. /\ Tracked \subseteq Tracked' /\ Tracked' \subseteq Tracked \cup {active_session_id}
      /\ \A s \in Tracked' : tracked_sessions'[s] \in [path : AnySession, compatible : BOOLEAN]
      /\ \A s \in Tracked' :
           IF s \in Tracked THEN tracked_sessions'[s] = tracked_sessions[s]
           ELSE tracked_sessions'[s].path = InvalidSession
      /\ TrackerSays' = TrackerSays
  <2>1. PICK path : tracked_sessions' \in {tracked_sessions, TrackedAfterLookup(path)}
    BY DEF OnlyLooksUp
  <2> QED BY <1>1, <2>1, LookupFollows
<1>3. daemonQueue' \in Seq(DaemonEvents) /\ DaemonFollowsTracker'
  BY <1>0, <1>1, <1>2, RequestsQueued
<1>4. TrackerTyped'
  BY <1>1, <1>2, <1>3 DEF TrackerTyped
<1>5. \A s : Gone(s)' <=> Gone(s)
  BY <1>1 DEF Gone, IsActive
<1>6. EntriesAreSessions'
  <2>1. PICK a : a = active_session_id
    OBVIOUS
  <2>2. a \in Tracked \cup {InvalidSession} \/ Gone(a)'
    BY <1>5, <2>1 DEF EntriesAreSessions
  <2>3. ASSUME NEW s \in Tracked', tracked_sessions'[s].path # s
        PROVE  tracked_sessions'[s].path = InvalidSession /\ Gone(s)'
    <3>1. CASE s \in Tracked
      BY <1>2, <1>5, <2>3, <3>1 DEF EntriesAreSessions
    <3>2. CASE s \notin Tracked
      <4>1. s = a /\ tracked_sessions'[s].path = InvalidSession
        BY <1>2, <2>1, <3>2
      <4> QED BY <2>2, <2>3, <3>2, <4>1
    <3> QED BY <3>1, <3>2
  <2> QED BY <1>1, <1>2, <2>1, <2>2, <2>3 DEF EntriesAreSessions, Gone
<1>7. SignalsAreInOrder'
  BY <1>1 DEF SignalsAreInOrder, IsRemoved, IsActive
<1>8. TrackerFollowsSeat'
  BY <1>1 DEF TrackerFollowsSeat, LastActive, NoneActive, Agrees, IsActive
<1> QED BY <1>3, <1>4, <1>6, <1>7, <1>8

\* An operation of the service that queues nothing.
LEMMA NothingQueuedKeeps ==
  ASSUME TrackerInv, UNCHANGED <<tracked_sessions, daemonQueue>>, UNCHANGED serviceKeeps
  PROVE  TrackerInv'
<1>1. daemonQueue' = daemonQueue \o <<>> /\ <<>> \in Seq(RequestEvents)
  <2>1. daemonQueue \in Seq(DaemonEvents)
    BY DEF TrackerInv, TrackerTyped
  <2> QED BY <2>1
<1> QED BY <1>1, ServiceQueues DEF OnlyLooksUp, OnlyRequests

\* One that queues something for every session that the daemon has, or for
\* those of a process.
LEMMA QueuedForKeeps ==
  ASSUME TrackerInv, NEW pid, NEW e \in {"begin", "end"}, NEW what \in Whats,
         QueuedFor(pid, e, what), UNCHANGED serviceKeeps
  PROVE  TrackerInv'
<1>1. PICK S : S \subseteq AnySession /\ EventQueued(e, what, S) /\ OnlyLooksUp
  <2>1. CASE pid = EveryProcess
    <3>1. EventQueued(e, what, daemonSessions) /\ UNCHANGED tracked_sessions
      BY <2>1 DEF QueuedFor
    <3>2. daemonSessions \subseteq AnySession
      BY DEF TrackerInv, TrackerTyped
    <3> QED BY <3>1, <3>2 DEF OnlyLooksUp
  <2>2. CASE pid # EveryProcess
    <3>1. PICK path, user : /\ \E s \in session_for_pid(path, user) : EventQueued(e, what, {s})
                            /\ tracked_sessions' = TrackedAfterLookup(path)
      BY <2>2 DEF QueuedFor
    <3>2. PICK s \in session_for_pid(path, user) : EventQueued(e, what, {s})
      BY <3>1
    <3>3. s \in AnySession
      BY <3>2 DEF session_for_pid, SessionOfPath, TrackerInv, TrackerTyped, AnySession
    <3>4. OnlyLooksUp
      BY <3>1 DEF OnlyLooksUp
    <3> QED BY <3>2, <3>3, <3>4
  <2> QED BY <2>1, <2>2
<1>2. PICK v : v = Event(e, what, S)
  OBVIOUS
<1>3. v \in RequestEvents /\ v \in DaemonEvents
  BY <1>1, <1>2 DEF Event, RequestEvents, DaemonEvents
<1>4. daemonQueue' = daemonQueue \o <<v>> /\ <<v>> \in Seq(RequestEvents)
  <2>1. daemonQueue \in Seq(DaemonEvents)
    BY DEF TrackerInv, TrackerTyped
  <2>2. daemonQueue' = Append(daemonQueue, v)
    BY <1>1, <1>2 DEF EventQueued
  <2> QED BY <1>3, <2>1, <2>2, AppendJoins
<1> QED BY <1>1, <1>4, ServiceQueues DEF OnlyRequests

\* What a client asked for, as a sequence.
LEMMA AskedByType ==
  ASSUME TablesTyped, NEW c \in Clients
  PROVE  AskedBy(c) \in Seq(Whats)
<1> DEFINE a == SetToSeq(Owned(keep_display_on_ids, c))
<1> DEFINE b == SetToSeq(Owned(request_sys_state_ids, c))
<1> DEFINE n == active_notifications[c]
<1>1. a \in Seq(Nat) /\ b \in Seq(Nat)
  <2>1. ASSUME NEW f, IsFiniteSet(DOMAIN f), DOMAIN f \subseteq Nat
        PROVE  SetToSeq(Owned(f, c)) \in Seq(Nat)
    <3>1. Owned(f, c) \in SUBSET DOMAIN f
      BY DEF Owned
    <3>2. IsFiniteSet(Owned(f, c))
      BY <2>1, <3>1, FS_Subset
    <3>3. SetToSeq(Owned(f, c)) \in Seq(Owned(f, c))
      BY <3>2, SetToSeqType
    <3> QED BY <2>1, <3>1, <3>3
  <2> QED BY <2>1 DEF TablesTyped
<1>2. n \in Nat
  BY DEF TablesTyped
<1> DEFINE A == [k \in DOMAIN a |-> What("inactivity", c, a[k])]
<1> DEFINE B == [k \in DOMAIN b |-> What("suspend", c, b[k])]
<1> DEFINE N == [k \in 1 .. n |-> What("notification", c, k - 1)]
<1>3. AskedBy(c) = A \o B \o N
  BY DEF AskedBy
<1> HIDE DEF a, b, n
<1>4. A \in Seq(Whats)
  <2>1. DOMAIN a = 1 .. Len(a) /\ Len(a) \in Nat /\ \A k \in DOMAIN a : a[k] \in Nat
    BY <1>1
  <2>2. \A k \in DOMAIN a : What("inactivity", c, a[k]) \in Whats
    BY <2>1 DEF What, Whats
  <2> QED BY <2>1, <2>2
<1>5. B \in Seq(Whats)
  <2>1. DOMAIN b = 1 .. Len(b) /\ Len(b) \in Nat /\ \A k \in DOMAIN b : b[k] \in Nat
    BY <1>1
  <2>2. \A k \in DOMAIN b : What("suspend", c, b[k]) \in Whats
    BY <2>1 DEF What, Whats
  <2> QED BY <2>1, <2>2
<1>6. N \in Seq(Whats)
  <2>1. \A k \in 1 .. n : k - 1 \in Nat
    BY <1>2
  <2>2. \A k \in 1 .. n : What("notification", c, k - 1) \in Whats
    BY <2>1 DEF What, Whats
  <2>3. N \in [1 .. n -> Whats]
    BY <2>2
  <2> HIDE DEF N
  <2> QED BY <1>2, <2>3
<1> HIDE DEF A, B, N
<1> QED BY <1>3, <1>4, <1>5, <1>6

\* The tables of requests, when one is added, removed, or all of a client's.
LEMMA TableChanges ==
  ASSUME NEW f, DOMAIN f \subseteq Nat, IsFiniteSet(DOMAIN f), NEW i \in Nat, NEW c, NEW s
  PROVE  /\ DOMAIN With(f, i, c) \subseteq Nat /\ IsFiniteSet(DOMAIN With(f, i, c))
         /\ DOMAIN Restrict(f, DOMAIN f \ s) \subseteq Nat
         /\ IsFiniteSet(DOMAIN Restrict(f, DOMAIN f \ s))
<1>1. DOMAIN With(f, i, c) = DOMAIN f \cup {i}
  BY DEF With
<1>2. DOMAIN Restrict(f, DOMAIN f \ s) = DOMAIN f \ s
  BY DEF Restrict
<1>3. IsFiniteSet(DOMAIN f \cup {i})
  BY FS_AddElement
<1>4. IsFiniteSet(DOMAIN f \ s)
  <2>1. DOMAIN f \ s \in SUBSET DOMAIN f
    OBVIOUS
  <2> QED BY <2>1, FS_Subset
<1> QED BY <1>1, <1>2, <1>3, <1>4

\* A client keeps the display on, or the system awake.
LEMMA RequestBegins ==
  ASSUME TrackerInv, TablesTyped, NEW c \in Clients, NEW pid, UNCHANGED serviceKeeps,
         dbus_keepDisplayOn(c, pid) \/ dbus_requestSysState(c, pid)
  PROVE  TrackerInv' /\ TablesTyped'
<1>1. CASE dbus_keepDisplayOn(c, pid)
  <2>1. /\ keep_display_on_ids' = With(keep_display_on_ids, nextIds.inactivity, c)
        /\ nextIds' = [nextIds EXCEPT !.inactivity = nextIds.inactivity + 1]
        /\ QueuedFor(pid, "begin", What("inactivity", c, nextIds.inactivity))
        /\ UNCHANGED <<request_sys_state_ids, active_notifications>>
    BY <1>1 DEF dbus_keepDisplayOn
  <2>2. PICK i : i = nextIds.inactivity
    OBVIOUS
  <2>3. i \in Nat /\ nextIds' \in [inactivity : Nat, suspend : Nat]
    BY <2>1, <2>2 DEF TablesTyped
  <2>4. PICK w : w = What("inactivity", c, i)
    OBVIOUS
  <2>5. w \in Whats
    BY <2>3, <2>4 DEF What, Whats
  <2>6. TrackerInv'
    BY <2>1, <2>2, <2>4, <2>5, QueuedForKeeps
  <2>7. /\ DOMAIN With(keep_display_on_ids, i, c) \subseteq Nat
        /\ IsFiniteSet(DOMAIN With(keep_display_on_ids, i, c))
    BY <2>3, TableChanges DEF TablesTyped
  <2> QED BY <2>1, <2>2, <2>3, <2>6, <2>7 DEF TablesTyped
<1>2. CASE dbus_requestSysState(c, pid)
  <2>1. /\ request_sys_state_ids' = With(request_sys_state_ids, nextIds.suspend, c)
        /\ nextIds' = [nextIds EXCEPT !.suspend = nextIds.suspend + 1]
        /\ QueuedFor(pid, "begin", What("suspend", c, nextIds.suspend))
        /\ UNCHANGED <<keep_display_on_ids, active_notifications>>
    BY <1>2 DEF dbus_requestSysState
  <2>2. PICK i : i = nextIds.suspend
    OBVIOUS
  <2>3. i \in Nat /\ nextIds' \in [inactivity : Nat, suspend : Nat]
    BY <2>1, <2>2 DEF TablesTyped
  <2>4. PICK w : w = What("suspend", c, i)
    OBVIOUS
  <2>5. w \in Whats
    BY <2>3, <2>4 DEF What, Whats
  <2>6. TrackerInv'
    BY <2>1, <2>2, <2>4, <2>5, QueuedForKeeps
  <2>7. /\ DOMAIN With(request_sys_state_ids, i, c) \subseteq Nat
        /\ IsFiniteSet(DOMAIN With(request_sys_state_ids, i, c))
    BY <2>3, TableChanges DEF TablesTyped
  <2> QED BY <2>1, <2>2, <2>3, <2>6, <2>7 DEF TablesTyped
<1> QED BY <1>1, <1>2

\* A client takes that back.
LEMMA RequestEnds ==
  ASSUME TrackerInv, TablesTyped, NEW c \in Clients, NEW i \in Nat, NEW pid, UNCHANGED serviceKeeps,
         dbus_removeDisplayOnRequest(c, i, pid) \/ dbus_clearSysState(c, i, pid)
  PROVE  TrackerInv' /\ TablesTyped'
<1>1. What("inactivity", c, i) \in Whats /\ What("suspend", c, i) \in Whats
  BY DEF What, Whats
<1>2. NothingQueued => TrackerInv'
  BY NothingQueuedKeeps DEF NothingQueued
<1>3. CASE dbus_removeDisplayOnRequest(c, i, pid)
  <2>1. /\ keep_display_on_ids' \in {keep_display_on_ids,
                                     Restrict(keep_display_on_ids, DOMAIN keep_display_on_ids \ {i})}
        /\ QueuedFor(pid, "end", What("inactivity", c, i)) \/ NothingQueued
        /\ UNCHANGED <<request_sys_state_ids, nextIds, active_notifications>>
    BY <1>3 DEF dbus_removeDisplayOnRequest
  <2>2. TrackerInv'
    BY <1>1, <1>2, <2>1, QueuedForKeeps
  <2>3. /\ DOMAIN Restrict(keep_display_on_ids, DOMAIN keep_display_on_ids \ {i}) \subseteq Nat
        /\ IsFiniteSet(DOMAIN Restrict(keep_display_on_ids, DOMAIN keep_display_on_ids \ {i}))
    BY TableChanges DEF TablesTyped
  <2> QED BY <2>1, <2>2, <2>3 DEF TablesTyped
<1>4. CASE dbus_clearSysState(c, i, pid)
  <2>1. /\ request_sys_state_ids' \in {request_sys_state_ids,
                                       Restrict(request_sys_state_ids, DOMAIN request_sys_state_ids \ {i})}
        /\ QueuedFor(pid, "end", What("suspend", c, i)) \/ NothingQueued
        /\ UNCHANGED <<keep_display_on_ids, nextIds, active_notifications>>
    BY <1>4 DEF dbus_clearSysState
  <2>2. TrackerInv'
    BY <1>1, <1>2, <2>1, QueuedForKeeps
  <2>3. /\ DOMAIN Restrict(request_sys_state_ids, DOMAIN request_sys_state_ids \ {i}) \subseteq Nat
        /\ IsFiniteSet(DOMAIN Restrict(request_sys_state_ids, DOMAIN request_sys_state_ids \ {i}))
    BY TableChanges DEF TablesTyped
  <2> QED BY <2>1, <2>2, <2>3 DEF TablesTyped
<1> QED BY <1>3, <1>4

\* A notification begins or ends.
LEMMA NotificationKeeps ==
  ASSUME TrackerInv, TablesTyped, NEW c \in Clients, NEW mode, NEW pid, UNCHANGED serviceKeeps,
         dbus_setScreenPowerMode(c, mode, pid)
  PROVE  TrackerInv' /\ TablesTyped'
<1>1. PICK n : n = active_notifications[c]
  OBVIOUS
<1>2. n \in Nat
  BY <1>1 DEF TablesTyped
<1>3. /\ \/ /\ active_notifications' = [active_notifications EXCEPT ![c] = n + 1]
            /\ QueuedFor(pid, "begin", What("notification", c, n))
         \/ /\ n > 0 /\ active_notifications' = [active_notifications EXCEPT ![c] = n - 1]
            /\ QueuedFor(pid, "end", What("notification", c, n - 1))
         \/ NothingQueued /\ UNCHANGED active_notifications
      /\ UNCHANGED <<keep_display_on_ids, request_sys_state_ids, nextIds>>
  BY <1>1 DEF dbus_setScreenPowerMode
<1>4. What("notification", c, n) \in Whats /\ (n > 0 => What("notification", c, n - 1) \in Whats)
  <2>1. n > 0 => n - 1 \in Nat
    BY <1>2
  <2> QED BY <1>2, <2>1 DEF What, Whats
<1>5. TrackerInv'
  <2>1. NothingQueued => TrackerInv'
    BY NothingQueuedKeeps DEF NothingQueued
  <2> QED BY <1>3, <1>4, <2>1, QueuedForKeeps
<1>6. active_notifications' \in [Clients -> Nat]
  BY <1>2, <1>3 DEF TablesTyped
<1> QED BY <1>3, <1>5, <1>6 DEF TablesTyped

\* A client's name is gone from the bus, with all of its requests.
LEMMA NameOwnerChangedKeeps ==
  ASSUME TrackerInv, TablesTyped, NEW c \in Clients, UNCHANGED serviceKeeps, dbus_NameOwnerChanged(c)
  PROVE  TrackerInv' /\ TablesTyped'
<1>1. PICK q : q = AskedBy(c)
  OBVIOUS
<1>2. PICK d : d = daemonSessions
  OBVIOUS
<1>3. q \in Seq(Whats) /\ d \subseteq AnySession
  BY <1>1, <1>2, AskedByType DEF TrackerInv, TrackerTyped
<1>4. PICK t : t = [k \in DOMAIN q |-> Event("end", q[k], d)]
  OBVIOUS
<1>5. t \in Seq(RequestEvents)
  <2>1. DOMAIN q = 1 .. Len(q) /\ Len(q) \in Nat /\ \A k \in DOMAIN q : q[k] \in Whats
    BY <1>3
  <2>2. \A k \in DOMAIN q : Event("end", q[k], d) \in RequestEvents
    BY <1>3, <2>1 DEF Event, RequestEvents
  <2> QED BY <1>4, <2>1, <2>2
<1>6. daemonQueue' = daemonQueue \o t /\ UNCHANGED tracked_sessions
  BY <1>1, <1>2, <1>4 DEF dbus_NameOwnerChanged
<1>7. TrackerInv'
  BY <1>5, <1>6, ServiceQueues DEF OnlyLooksUp, OnlyRequests
<1>8. /\ DOMAIN keep_display_on_ids' \subseteq Nat /\ IsFiniteSet(DOMAIN keep_display_on_ids')
  BY TableChanges DEF TablesTyped, dbus_NameOwnerChanged
<1>9. /\ DOMAIN request_sys_state_ids' \subseteq Nat /\ IsFiniteSet(DOMAIN request_sys_state_ids')
  BY TableChanges DEF TablesTyped, dbus_NameOwnerChanged
<1>10. active_notifications' \in [Clients -> Nat] /\ UNCHANGED nextIds
  BY DEF TablesTyped, dbus_NameOwnerChanged
<1> QED BY <1>7, <1>8, <1>9, <1>10 DEF TablesTyped

\* Every operation of the service.
LEMMA ServiceHandlesKeeps ==
  ASSUME TrackerInv, ServiceTyped, ServiceHandles
  PROVE  TrackerInv' /\ ServiceTyped'
<1>1. PICK m : m = Head(busCalls)
  OBVIOUS
<1>2. /\ busCalls # <<>> /\ dbus_method_call(m) /\ busCalls' = Tail(busCalls) /\ UNCHANGED onBus
      /\ UNCHANGED serviceKeeps
  BY <1>1 DEF ServiceHandles, serviceKeeps
<1>3. m \in Calls /\ busCalls' \in Seq(Calls)
  BY <1>1, <1>2, Taken DEF ServiceTyped
<1>4. m.sender \in Clients /\ m.name \in Clients /\ m.id \in Nat
  BY <1>3 DEF Calls
<1>5. TablesTyped
  BY DEF ServiceTyped
<1>6. PICK c \in Clients, i \in Nat : \E pid :
        \/ dbus_keepDisplayOn(c, pid) \/ dbus_requestSysState(c, pid)
        \/ dbus_removeDisplayOnRequest(c, i, pid) \/ dbus_clearSysState(c, i, pid)
        \/ dbus_setScreenPowerMode(c, "on", pid) \/ dbus_setScreenPowerMode(c, "off", pid)
        \/ dbus_NameOwnerChanged(c)
  <2>1. CASE m.method \in NamingMethods \cup {"NameOwnerChanged"}
    <3>1. \/ dbus_keepDisplayOn(m.name, m.pid) \/ dbus_removeDisplayOnRequest(m.name, m.id, m.pid)
          \/ dbus_NameOwnerChanged(m.name)
      BY <1>2, <2>1 DEF dbus_method_call, NamingMethods
    <3> QED BY <1>4, <3>1
  <2>2. CASE m.method \notin NamingMethods \cup {"NameOwnerChanged"}
    <3>1. PICK pid : \/ dbus_keepDisplayOn(m.sender, pid) \/ dbus_requestSysState(m.sender, pid)
                     \/ dbus_removeDisplayOnRequest(m.sender, m.id, pid)
                     \/ dbus_clearSysState(m.sender, m.id, pid)
                     \/ dbus_setScreenPowerMode(m.sender, "on", pid)
                     \/ dbus_setScreenPowerMode(m.sender, "off", pid)
      BY <1>2, <2>2 DEF dbus_method_call, NamingMethods
    <3> QED BY <1>4, <3>1
  <2> QED BY <2>1, <2>2
<1>7. TrackerInv' /\ TablesTyped'
  BY <1>2, <1>5, <1>6, RequestBegins, RequestEnds, NotificationKeeps, NameOwnerChangedKeeps
<1> QED BY <1>2, <1>3, <1>7 DEF ServiceTyped

-----------------------------------------------------------------------------
(* The clients, and the daemon.                                            *)

\* A client calls in its own name, or names whom it can name.
LEMMA CallsOfClient ==
  ASSUME TablesTyped, NEW c \in Clients, NEW m \in ClientCalls(c)
  PROVE  m \in Calls /\ m.sender = c
<1>1. \A method : Ids(method) \subseteq Nat
  <2> SUFFICES ASSUME NEW method PROVE Ids(method) \subseteq Nat
    OBVIOUS
  <2>1. nextIds.inactivity \in Nat /\ nextIds.suspend \in Nat
    BY DEF TablesTyped
  <2>2. CASE method \in {"removeDisplayOnRequest", "keepDisplayOff"}
    BY <2>1, <2>2 DEF Ids
  <2>3. CASE method = "clearSysState"
    BY <2>1, <2>3 DEF Ids
  <2>4. CASE method \notin {"removeDisplayOnRequest", "keepDisplayOff", "clearSysState"}
    BY <2>4 DEF Ids
  <2> QED BY <2>2, <2>3, <2>4
<1>2. NamesOf[c] \subseteq Clients /\ PidsOf[c] \subseteq Pids /\ c \in Pids
  BY ScreenServiceAssumption DEF Pids
<1>3. ASSUME NEW method \in MethodsOf[c], NEW i \in Ids(method), NEW n \in Clients, NEW p \in Pids,
             IF method \in NamingMethods THEN n \in NamesOf[c] /\ p \in PidsOf[c] ELSE n = c
      PROVE  Call(c, method, i, n, p) \in Calls /\ Call(c, method, i, n, p).sender = c
  BY <1>1, <1>3 DEF Call, Calls, Methods
<1>4. CASE m \in OwnCalls(c)
  <2>1. PICK method \in MethodsOf[c] \ NamingMethods : m \in {Call(c, method, i, c, c) : i \in Ids(method)}
    BY <1>4 DEF OwnCalls
  <2>2. PICK i \in Ids(method) : m = Call(c, method, i, c, c)
    BY <2>1
  <2>3. method \in MethodsOf[c] /\ method \notin NamingMethods
    BY <2>1
  <2>4. Call(c, method, i, c, c) \in Calls /\ Call(c, method, i, c, c).sender = c
    BY <1>2, <1>3, <2>2, <2>3
  <2> QED BY <2>2, <2>4
<1>5. CASE m \in NamingCalls(c)
  <2>1. PICK method \in MethodsOf[c] \cap NamingMethods :
          m \in {Call(c, method, i, n, p) : i \in Ids(method), n \in NamesOf[c], p \in PidsOf[c]}
    BY <1>5 DEF NamingCalls
  <2>2. PICK i \in Ids(method), n \in NamesOf[c], p \in PidsOf[c] : m = Call(c, method, i, n, p)
    BY <2>1
  <2>3. method \in MethodsOf[c] /\ method \in NamingMethods /\ n \in Clients /\ p \in Pids
    BY <1>2, <2>1
  <2>4. Call(c, method, i, n, p) \in Calls /\ Call(c, method, i, n, p).sender = c
    BY <1>3, <2>2, <2>3
  <2> QED BY <2>2, <2>4
<1> QED BY <1>4, <1>5 DEF ClientCalls

\* What a client sends, or takes with it when it leaves, waits on the bus.
LEMMA ClientKeeps ==
  ASSUME TrackerInv, ServiceTyped, ClientCalling \/ ClientLeaves
  PROVE  TrackerInv' /\ ServiceTyped'
<1>1. UNCHANGED <<loginSessions, loggedOut, seatActive, seatSignals, trackerPhase, tracked_sessions,
                  active_session_id, ignore_session_deactivation, daemonQueue, daemonSessions,
                  daemonActive, keep_display_on_ids, request_sys_state_ids, nextIds,
                  active_notifications>>
  BY DEF ClientCalling, ClientLeaves, sessionVars, logindVars, trackerVars, daemonVars, serviceVars
<1>2. TrackerInv'
  <2>1. UNCHANGED <<tracked_sessions, daemonQueue>> /\ UNCHANGED serviceKeeps
    BY DEF ClientCalling, ClientLeaves, sessionVars, logindVars, trackerVars, daemonVars, serviceKeeps
  <2> QED BY <2>1, NothingQueuedKeeps
<1>3. PICK m \in Calls : busCalls' = Append(busCalls, m)
  <2>1. CASE ClientCalling
    <3>1. PICK c \in Clients : \E m \in ClientCalls(c) : busCalls' = Append(busCalls, m)
      BY <2>1 DEF ClientCalling, ServiceTyped
    <3>2. ClientCalls(c) \subseteq Calls
      BY CallsOfClient DEF ServiceTyped
    <3> QED BY <3>1, <3>2
  <2>2. CASE ClientLeaves
    <3>1. PICK c \in Clients : busCalls' = Append(busCalls, NameOwnerChanged(c))
      BY <2>2 DEF ClientLeaves, ServiceTyped
    <3>2. NameOwnerChanged(c) \in Calls
      BY DEF NameOwnerChanged, Call, Calls, Methods, Pids, NamingMethods
    <3> QED BY <3>1, <3>2
  <2> QED BY <2>1, <2>2
<1>4. busCalls' \in Seq(Calls)
  BY <1>3, Appended DEF ServiceTyped
<1>5. onBus' \subseteq Clients
  BY DEF ClientCalling, ClientLeaves, ServiceTyped
<1>6. TablesTyped'
  BY <1>1 DEF ServiceTyped, TablesTyped
<1> QED BY <1>2, <1>4, <1>5, <1>6 DEF ServiceTyped

\* Every step of the daemon.
LEMMA DaemonKeeps ==
  ASSUME TrackerInv, ServiceTyped, DaemonTakesRequest \/ DaemonTakesSession
  PROVE  TrackerInv' /\ ServiceTyped'
<1> USE DEF TrackerInv
<1>1. UNCHANGED <<loginSessions, loggedOut, seatActive, seatSignals, trackerPhase, tracked_sessions,
                  active_session_id, ignore_session_deactivation, onBus, busCalls,
                  keep_display_on_ids, request_sys_state_ids, nextIds, active_notifications>>
  BY DEF DaemonTakesRequest, DaemonTakesSession, DaemonTakesSessionEvent, logindVars, trackerVars,
         serviceVars
<1>2. daemonQueue # <<>> /\ daemonQueue' = Tail(daemonQueue)
  BY DEF DaemonTakesRequest, DaemonTakesSession, DaemonTakesSessionEvent
<1>3. PICK m : m = Head(daemonQueue)
  OBVIOUS
<1>4. m \in DaemonEvents
  BY <1>2, <1>3, Taken DEF TrackerTyped
<1>5. \/ m.event \in {"begin", "end"} /\ UNCHANGED <<daemonActive, daemonSessions>>
      \/ m.event = "session_activated" /\ handle_session_activated(m)
      \/ m.event = "session_removed" /\ handle_session_removed(m)
  BY <1>3 DEF DaemonTakesRequest, DaemonTakesSession, DaemonTakesSessionEvent
<1>6. daemonQueue' \in Seq(DaemonEvents) /\ DaemonFollowsTracker'
  <2>1. TrackerSays' = TrackerSays
    BY <1>1 DEF TrackerSays, Tracked
  <2> QED BY <1>2, <1>3, <1>5, <2>1, EventTaken DEF handle_session_activated, handle_session_removed
<1>7. /\ daemonActive' \in AnySession /\ daemonSessions' \subseteq AnySession
      /\ InvalidSession \in daemonSessions'
  <2>1. /\ m.event = "session_activated" => m.session \in AnySession
        /\ m.event = "session_removed" => m.session \in Sessions
    BY <1>4 DEF DaemonEvents, SessionEvents, RequestEvents
  <2> QED BY <1>5, <2>1, NoSession DEF handle_session_activated, handle_session_removed, TrackerTyped, AnySession
<1>8. TrackerTyped'
  BY <1>1, <1>6, <1>7 DEF TrackerTyped, Tracked
<1>9. SignalsAreInOrder'
  BY <1>1 DEF SignalsAreInOrder, IsRemoved, IsActive
<1>10. TrackerFollowsSeat'
  BY <1>1 DEF TrackerFollowsSeat, LastActive, NoneActive, Agrees, IsActive
<1>11. EntriesAreSessions'
  BY <1>1 DEF EntriesAreSessions, Gone, IsActive, Tracked
<1>12. ServiceTyped'
  BY <1>1 DEF ServiceTyped, TablesTyped
<1> QED BY <1>6, <1>8, <1>9, <1>10, <1>11, <1>12

-----------------------------------------------------------------------------

\* No session is tracked, no signal sent and nothing queued.
LEMMA InitSInv == ScreenInit => TrackerInv /\ ServiceTyped
<1> SUFFICES ASSUME ScreenInit PROVE TrackerInv /\ ServiceTyped
  OBVIOUS
<1> USE DEF ScreenInit, TrackerInit
<1>1. Tracked = {} /\ DOMAIN seatSignals = {} /\ DOMAIN daemonQueue = {}
  BY DEF Tracked
<1>2. TrackerTyped
  BY <1>1 DEF TrackerTyped, AnySession
<1>3. SignalsAreInOrder
  BY <1>1 DEF SignalsAreInOrder
<1>4. TrackerFollowsSeat
  BY <1>1 DEF TrackerFollowsSeat
<1>5. EntriesAreSessions
  BY <1>1 DEF EntriesAreSessions
<1>6. DaemonFollowsTracker
  <2>1. TrackerSays = InvalidSession
    BY <1>1 DEF TrackerSays
  <2>2. LeftAfter(0, daemonActive) = InvalidSession
    BY DEF LeftAfter
  <2> QED BY <1>1, <2>1, <2>2 DEF DaemonFollowsTracker
<1>7. ServiceTyped
  <2>1. TablesTyped
    BY FS_EmptySet DEF TablesTyped
  <2> QED BY <2>1 DEF ServiceTyped
<1> QED BY <1>2, <1>3, <1>4, <1>5, <1>6, <1>7 DEF TrackerInv

\* Every step of seat, tracker, service, clients and daemon keeps the invariant.
LEMMA NextSInv == TrackerInv /\ ServiceTyped /\ [ScreenNext]_screenVars => TrackerInv' /\ ServiceTyped'
<1> SUFFICES ASSUME TrackerInv, ServiceTyped, [ScreenNext]_screenVars
             PROVE  TrackerInv' /\ ServiceTyped'
  OBVIOUS
<1>1. CASE LogindOrTracker
  <2>1. UNCHANGED <<onBus, busCalls, keep_display_on_ids, request_sys_state_ids, nextIds,
                    active_notifications>>
    BY <1>1 DEF LogindOrTracker, serviceVars
  <2>2. ServiceTyped'
    BY <2>1 DEF ServiceTyped, TablesTyped
  <2>3. TrackerInv'
    BY <1>1, SwitchSeatKeeps, EndSessionKeeps, StartTrackerKeeps, SetInitialKeeps,
       HandleSeatSignalKeeps DEF LogindOrTracker, TrackerNext
  <2> QED BY <2>2, <2>3
<1>2. CASE ClientCalling \/ ClientLeaves
  BY <1>2, ClientKeeps
<1>3. CASE ServiceHandles
  BY <1>3, ServiceHandlesKeeps
<1>4. CASE DaemonTakesRequest \/ DaemonTakesSession
  BY <1>4, DaemonKeeps
<1>5. CASE UNCHANGED screenVars
  <2>1. UNCHANGED <<tracked_sessions, daemonQueue, onBus, busCalls, keep_display_on_ids,
                    request_sys_state_ids, nextIds, active_notifications>> /\ UNCHANGED serviceKeeps
    BY <1>5 DEF screenVars, sessionVars, logindVars, trackerVars, daemonVars, serviceVars, serviceKeeps
  <2>2. TrackerInv'
    BY <2>1, NothingQueuedKeeps
  <2> QED BY <2>1, <2>2 DEF ServiceTyped, TablesTyped
<1> QED BY <1>1, <1>2, <1>3, <1>4, <1>5 DEF ScreenNext

\* What the way from the seat to the daemon always satisfies, whatever the
\* sessions and the clients do: the order of logind's signals, what is known
\* of the seat before and after them, and what the events on the daemon's
\* queue will make of its active session.
THEOREM ScreenInvariant == ScreenSpec => [](TrackerInv /\ ServiceTyped)
<1> QED BY InitSInv, NextSInv, PTL DEF ScreenSpec

\* For every set of sessions and clients and every length of the queues: once
\* every signal and every event has been handled, the daemon's active session
\* is the one that logind has in front, or the null session where none is, or
\* one that is incompatible or has ended.
THEOREM DaemonIsWithSeat == ScreenSpec => []DaemonFollowsSeat
<1>1. TrackerInv => DaemonFollowsSeat
  <2> SUFFICES ASSUME TrackerInv, trackerPhase = "started", seatSignals = <<>>, daemonQueue = <<>>
               PROVE  daemonActive =
                        IF SessionInFront \in Tracked /\ tracked_sessions[SessionInFront].path # InvalidSession
                             /\ tracked_sessions[SessionInFront].compatible
                        THEN SessionInFront ELSE InvalidSession
    BY DEF DaemonFollowsSeat
  <2> USE DEF TrackerInv
  <2>1. DOMAIN seatSignals = {} /\ DOMAIN daemonQueue = {}
    OBVIOUS
  <2>2. Agrees
    BY <2>1 DEF TrackerFollowsSeat, NoneActive
  <2>3. active_session_id = SessionInFront
    BY <2>2 DEF Agrees, SessionInFront
  <2>4. TrackerSays = daemonActive
    BY <2>1 DEF DaemonFollowsTracker, LeftAfter, RemovedAfter
  <2> QED BY <2>3, <2>4 DEF TrackerSays
<1> QED BY <1>1, ScreenInvariant, PTL

-----------------------------------------------------------------------------
(* Requests: what the daemon's queue and its sessions say of them.         *)

\* Known: the tracker has an entry of the session, not one that a lookup added.
Known(s) == s \in Tracked /\ tracked_sessions[s].path # InvalidSession
Ended(s) == Gone(s) /\ ~Known(s)

Announcements(s) == {Activation(s, TRUE)}
Removals(s) == {Removal(s)}
EventsOf(s) == Announcements(s) \cup Removals(s)

\* The daemon has, when its queue is handled, the sessions that are there.
SessionsFollow ==
  \A s \in Sessions :
    /\ s \in daemonSessions /\ NoneIn(daemonQueue, EventsOf(s)) => IsThere(s)
    /\ LastIn(daemonQueue, EventsOf(s), Activation(s, TRUE)) => IsThere(s)
    /\ IsThere(s) => s \in daemonSessions \/ ~NoneIn(daemonQueue, Announcements(s))
    /\ ~NoneIn(daemonQueue, Removals(s)) => Ended(s)

About(w) == {e \in RequestEvents : e.what = w}

\* What begins, begins in sessions that are known or have ended, and only what
\* has begun is held, ends or is asked for.
RequestsAreRouted ==
  /\ DOMAIN routedTo \subseteq Whats
  /\ \A w \in DOMAIN routedTo :
       /\ routedTo[w] # {}
       /\ \A s \in routedTo[w] : s = InvalidSession \/ Known(s) \/ Ended(s)
  /\ DOMAIN held = daemonSessions
  /\ \A s \in daemonSessions : \A w \in held[s] : s \in RoutedTo(w)
  /\ \A k \in DOMAIN daemonQueue : daemonQueue[k] \in RequestEvents =>
       /\ daemonQueue[k].what \in DOMAIN routedTo
       /\ daemonQueue[k].event = "begin" =>
            daemonQueue[k].sessions # {} /\ daemonQueue[k].sessions \subseteq routedTo[daemonQueue[k].what]
  /\ \A w \in Whats : Asked(w) => w \in DOMAIN routedTo

IdsAreUsed ==
  /\ \A i \in DOMAIN keep_display_on_ids : i < nextIds.inactivity
  /\ \A i \in DOMAIN request_sys_state_ids : i < nextIds.suspend

\* The last that is queued about a request says whether it is asked for.
LastRequestSays ==
  \A w \in Whats : \A e : LastIn(daemonQueue, About(w), e) => (e.event = "begin" <=> Asked(w))

\* The session of what a client has begun is there.
Home(w) == SessionOf[w.client]
Served(w) == OwnSession(w) /\ IsThere(Home(w))

ComesBefore(k, s) == \E j \in DOMAIN daemonQueue : j < k /\ daemonQueue[j] = Activation(s, TRUE)

\* No request that begins is handled before its session is.
BeginsFollowSessions ==
  \A k \in DOMAIN daemonQueue :
    daemonQueue[k] \in RequestEvents /\ daemonQueue[k].event = "begin" /\ Served(daemonQueue[k].what) =>
      \/ Home(daemonQueue[k].what) \in daemonSessions
      \/ ComesBefore(k, Home(daemonQueue[k].what))

AskedAreHeld ==
  \A w \in Whats : Served(w) /\ Asked(w) /\ NoneIn(daemonQueue, About(w)) =>
    Home(w) \in daemonSessions /\ w \in held[Home(w)]

\* What clients want, nobody takes away but in their name.
WantedAreAsked ==
  \A w \in wanted : w \in Whats /\ (NamedByItself(w.client) => Asked(w))

RequestInv ==
  /\ SessionsFollow /\ RequestsAreRouted /\ IdsAreUsed
  /\ LastRequestSays /\ BeginsFollowSessions /\ AskedAreHeld /\ WantedAreAsked

\* Of what ends, of the clients that are served well.
CallersAreThere ==
  \A k \in DOMAIN busCalls :
    busCalls[k].method # "NameOwnerChanged" /\ busCalls[k].sender \in PatientClients =>
      busCalls[k].sender \in onBus

EndsAreRouted ==
  \A k \in DOMAIN daemonQueue :
    /\ daemonQueue[k] \in RequestEvents /\ daemonQueue[k].event = "end"
    /\ Served(daemonQueue[k].what) /\ WellServed(daemonQueue[k].what.client)
    => Home(daemonQueue[k].what) \in daemonQueue[k].sessions

EndedAreNotHeld ==
  \A w \in Whats :
    /\ Served(w) /\ WellServed(w.client) /\ ~Asked(w)
    /\ NoneIn(daemonQueue, About(w)) /\ Home(w) \in daemonSessions
    => w \notin held[Home(w)]

EndInv == CallersAreThere /\ EndsAreRouted /\ EndedAreNotHeld

-----------------------------------------------------------------------------
(* Two kinds of steps that put something on the daemon's queue.            *)

SessionsStay == \A s : (Known(s)' <=> Known(s)) /\ (IsThere(s)' <=> IsThere(s)) /\ (Gone(s)' <=> Gone(s))

\* The service queues requests, t.
Serves(t) ==
  /\ t \in Seq(RequestEvents) /\ daemonQueue' = daemonQueue \o t
  /\ UNCHANGED <<daemonSessions, held>> /\ SessionsStay
  /\ DOMAIN routedTo' \subseteq Whats /\ DOMAIN routedTo \subseteq DOMAIN routedTo'
  /\ \A w \in DOMAIN routedTo : routedTo[w] \subseteq routedTo'[w]
  /\ \A w \in DOMAIN routedTo' : /\ routedTo'[w] # {}
                                 /\ \A s \in routedTo'[w] : s = InvalidSession \/ Known(s) \/ Ended(s)
  /\ \A w \in Whats : NoneIn(t, About(w)) =>
       /\ Asked(w)' <=> Asked(w)
       /\ w \in DOMAIN routedTo' => w \in DOMAIN routedTo /\ routedTo'[w] = routedTo[w]
  /\ \A k \in DOMAIN t :
       /\ t[k].event = "begin" <=> Asked(t[k].what)'
       /\ t[k].what \in DOMAIN routedTo'
       /\ t[k].event = "begin" => t[k].sessions # {} /\ t[k].sessions \subseteq routedTo'[t[k].what]

\* Of those, what ends reaches the session of its client, if that is served well.
EndsReachHome(t) ==
  \A k \in DOMAIN t :
    /\ t[k].event = "end" /\ WellServed(t[k].what.client)
    /\ IsThere(Home(t[k].what)) /\ Home(t[k].what) # InvalidSession
    => Home(t[k].what) \in t[k].sessions

\* They are all about requests of one client.
OnlyOf(t, c) == \A k \in DOMAIN t : t[k].what.client = c

\* The service finds the session of a client, and queues for it.
Reached(c, pid) == pid = c /\ c \in onBus \cap AnsweredClients

\* The tracker announces sessions, t.
Moves(t) ==
  /\ t \in Seq(SessionEvents) /\ daemonQueue' = daemonQueue \o t
  /\ UNCHANGED <<daemonSessions, held, routedTo, keep_display_on_ids, request_sys_state_ids,
                 active_notifications, nextIds, wanted>>
  /\ \A s \in Sessions :
       /\ Ended(s) => Ended(s)'
       /\ Known(s) => Known(s)' \/ Ended(s)'
       /\ IsThere(s)' /\ ~IsThere(s) => ~Known(s) /\ ~Ended(s) /\ ~NoneIn(t, Announcements(s))
       /\ IsThere(s) /\ ~IsThere(s)' => ~NoneIn(t, Removals(s))
       /\ ~NoneIn(t, Announcements(s)) => IsThere(s)'
       /\ ~NoneIn(t, Removals(s)) => Ended(s)'

\* Requests are no events of sessions.
LEMMA EventsDiffer ==
  /\ \A e \in RequestEvents : e \notin SessionEvents /\ \A s : e \notin EventsOf(s)
  /\ \A e \in SessionEvents : e \notin RequestEvents /\ \A w : e \notin About(w)
<1>1. \A e \in RequestEvents : e.event \in {"begin", "end"}
  BY DEF RequestEvents
<1>2. \A e \in SessionEvents : e.event \in {"session_activated", "session_removed"}
  BY DEF SessionEvents
<1>3. \A s : \A e \in EventsOf(s) : e.event \in {"session_activated", "session_removed"}
  BY DEF EventsOf, Announcements, Removals, Activation, Removal
<1> QED BY <1>1, <1>2, <1>3 DEF About

\* The queue of the daemon, as sequences of its events.
LEMMA QueueSplits ==
  ASSUME TrackerTyped, NEW t, t \in Seq(RequestEvents) \/ t \in Seq(SessionEvents),
         daemonQueue' = daemonQueue \o t
  PROVE  /\ daemonQueue \in Seq(DaemonEvents) /\ t \in Seq(DaemonEvents)
         /\ \A K : NoneIn(daemonQueue', K) <=> NoneIn(daemonQueue, K) /\ NoneIn(t, K)
         /\ \A K, x : LastIn(daemonQueue', K, x) =>
              IF NoneIn(t, K) THEN LastIn(daemonQueue, K, x) ELSE x \in K /\ \E k \in DOMAIN t : t[k] = x
<1>1. daemonQueue \in Seq(DaemonEvents) /\ t \in Seq(DaemonEvents)
  <2>1. RequestEvents \subseteq DaemonEvents /\ SessionEvents \subseteq DaemonEvents
    BY DEF DaemonEvents
  <2> QED BY <2>1 DEF TrackerTyped
<1>2. \A K : /\ NoneIn(daemonQueue \o t, K) <=> NoneIn(daemonQueue, K) /\ NoneIn(t, K)
             /\ NoneIn(t, K) => \A x : LastIn(daemonQueue \o t, K, x) => LastIn(daemonQueue, K, x)
             /\ ~NoneIn(t, K) => \A x : LastIn(daemonQueue \o t, K, x) => x \in K /\ \E k \in DOMAIN t : t[k] = x
  BY <1>1, LastJoined
<1> QED BY <1>1, <1>2

-----------------------------------------------------------------------------
(* The service's steps.                                                    *)

\* What the daemon has, or will have, is as before.
LEMMA ServiceKeepsSessions ==
  ASSUME TrackerTyped, SessionsFollow, NEW t, Serves(t)
  PROVE  SessionsFollow'
<1>1. t \in Seq(RequestEvents) /\ daemonQueue' = daemonQueue \o t /\ UNCHANGED daemonSessions /\ SessionsStay
  BY DEF Serves
<1>2. \A s : NoneIn(t, EventsOf(s)) /\ NoneIn(t, Announcements(s)) /\ NoneIn(t, Removals(s))
  BY <1>1, EventsDiffer DEF NoneIn, EventsOf
<1>3. \A K : NoneIn(t, K) => /\ NoneIn(daemonQueue', K) <=> NoneIn(daemonQueue, K)
                             /\ \A x : LastIn(daemonQueue', K, x) => LastIn(daemonQueue, K, x)
  BY <1>1, QueueSplits
<1>4. \A s : (IsThere(s)' <=> IsThere(s)) /\ (Ended(s)' <=> Ended(s))
  BY <1>1 DEF SessionsStay, Ended
<1>5. ASSUME NEW s \in Sessions
      PROVE  /\ NoneIn(daemonQueue', EventsOf(s)) <=> NoneIn(daemonQueue, EventsOf(s))
             /\ NoneIn(daemonQueue', Announcements(s)) <=> NoneIn(daemonQueue, Announcements(s))
             /\ NoneIn(daemonQueue', Removals(s)) <=> NoneIn(daemonQueue, Removals(s))
             /\ LastIn(daemonQueue', EventsOf(s), Activation(s, TRUE)) =>
                  LastIn(daemonQueue, EventsOf(s), Activation(s, TRUE))
  BY <1>2, <1>3
<1> QED BY <1>1, <1>4, <1>5 DEF SessionsFollow

\* What is queued about a request says whether it is asked for.
LEMMA ServiceKeepsLast ==
  ASSUME TrackerTyped, LastRequestSays, NEW t, Serves(t)
  PROVE  LastRequestSays'
<1> SUFFICES ASSUME NEW w \in Whats, NEW e, LastIn(daemonQueue', About(w), e)
             PROVE  e.event = "begin" <=> Asked(w)'
  BY DEF LastRequestSays
<1>1. t \in Seq(RequestEvents) /\ daemonQueue' = daemonQueue \o t
  BY DEF Serves
<1>2. IF NoneIn(t, About(w)) THEN LastIn(daemonQueue, About(w), e)
      ELSE e \in About(w) /\ \E k \in DOMAIN t : t[k] = e
  BY <1>1, QueueSplits
<1>3. CASE NoneIn(t, About(w))
  <2>1. Asked(w)' <=> Asked(w)
    BY <1>3 DEF Serves
  <2> QED BY <1>2, <1>3, <2>1 DEF LastRequestSays
<1>4. CASE ~NoneIn(t, About(w))
  <2>1. PICK k \in DOMAIN t : t[k] = e
    BY <1>2, <1>4
  <2>2. t[k].event = "begin" <=> Asked(t[k].what)'
    BY DEF Serves
  <2>3. t[k].what = w
    BY <1>2, <1>4, <2>1 DEF About
  <2>4. Asked(t[k].what)' <=> Asked(w)'
    BY <2>3 DEF Asked, Owned
  <2> QED BY <2>1, <2>2, <2>4
<1> QED BY <1>3, <1>4

\* The session of a client is one of logind's, or none.
LEMMA HomeIsSession == \A w \in Whats : Home(w) \in Sessions \cup {InvalidSession}
BY ScreenServiceAssumption DEF Home, Whats

\* A request stays where it has begun; one of its own session has begun there
\* and was there before, or is new.
LEMMA ServedBefore ==
  ASSUME RequestsAreRouted, NEW t, Serves(t), NEW w
  PROVE  /\ Served(w)' => Served(w) \/ w \notin DOMAIN routedTo
         /\ Served(w)' => routedTo'[w] = {Home(w)} /\ IsThere(Home(w)) /\ Home(w) # InvalidSession
         /\ NoneIn(t, About(w)) /\ w \in Whats /\ Served(w)' => Served(w)
<1>1. PICK h : h = Home(w)
  OBVIOUS
<1>2. /\ Served(w) <=> w \in DOMAIN routedTo /\ h # InvalidSession /\ routedTo[w] = {h} /\ IsThere(h)
      /\ Served(w)' <=> w \in DOMAIN routedTo' /\ h # InvalidSession /\ routedTo'[w] = {h} /\ IsThere(h)'
  BY <1>1 DEF Served, OwnSession, Home, IsThere, Tracked
<1>3. IsThere(h)' <=> IsThere(h)
  BY DEF Serves, SessionsStay
<1>4. w \in DOMAIN routedTo => routedTo[w] \subseteq routedTo'[w]
  BY DEF Serves
<1>5. w \in DOMAIN routedTo => routedTo[w] # {}
  BY DEF RequestsAreRouted
<1>6. Served(w)' => Served(w) \/ w \notin DOMAIN routedTo
  BY <1>2, <1>3, <1>4, <1>5
<1>7. Served(w)' => routedTo'[w] = {Home(w)} /\ IsThere(Home(w)) /\ Home(w) # InvalidSession
  BY <1>1, <1>2, <1>3
<1>8. NoneIn(t, About(w)) /\ w \in Whats /\ Served(w)' => Served(w)
  <2>1. NoneIn(t, About(w)) /\ w \in Whats /\ w \in DOMAIN routedTo' => w \in DOMAIN routedTo
    BY DEF Serves
  <2> QED BY <1>2, <1>6, <2>1
<1> QED BY <1>6, <1>7, <1>8

\* What is asked for is held, or something is queued about it.
LEMMA ServiceKeepsHeld ==
  ASSUME TrackerTyped, RequestsAreRouted, AskedAreHeld, NEW t, Serves(t)
  PROVE  AskedAreHeld'
<1> SUFFICES ASSUME NEW w \in Whats, Served(w)', Asked(w)', NoneIn(daemonQueue', About(w))
             PROVE  (Home(w) \in daemonSessions /\ w \in held[Home(w)])'
  BY DEF AskedAreHeld
<1>1. t \in Seq(RequestEvents) /\ daemonQueue' = daemonQueue \o t /\ UNCHANGED <<daemonSessions, held>>
  BY DEF Serves
<1>2. NoneIn(daemonQueue, About(w)) /\ NoneIn(t, About(w))
  BY <1>1, QueueSplits
<1>3. Served(w) /\ Asked(w)
  BY <1>2, ServedBefore DEF Serves
<1> QED BY <1>1, <1>2, <1>3 DEF AskedAreHeld

\* What begins is queued behind the session that it is for.
LEMMA ServiceKeepsBegins ==
  ASSUME TrackerTyped, SessionsFollow, RequestsAreRouted, BeginsFollowSessions, NEW t, Serves(t)
  PROVE  BeginsFollowSessions'
<1>1. t \in Seq(RequestEvents) /\ daemonQueue' = daemonQueue \o t /\ UNCHANGED daemonSessions
  BY DEF Serves
<1>2. daemonQueue \in Seq(DaemonEvents) /\ t \in Seq(DaemonEvents)
  BY <1>1, QueueSplits
<1>3. PICK q, n : q = daemonQueue /\ n = Len(daemonQueue)
  OBVIOUS
<1>4. /\ DOMAIN q \subseteq DOMAIN daemonQueue' /\ n \in Nat
      /\ \A k \in DOMAIN q : k \in Nat /\ k <= n /\ daemonQueue'[k] = q[k]
      /\ \A k \in DOMAIN daemonQueue' \ DOMAIN q :
           k \in Nat /\ n < k /\ k - n \in DOMAIN t /\ daemonQueue'[k] = t[k - n]
  BY <1>1, <1>2, <1>3, JoinedByPlace
<1>5. \A k, s : (\E j \in DOMAIN q : j < k /\ q[j] = Activation(s, TRUE)) => ComesBefore(k, s)'
  BY <1>4 DEF ComesBefore
<1> SUFFICES ASSUME NEW k \in DOMAIN daemonQueue', NEW e, e = daemonQueue'[k], e \in RequestEvents,
                    e.event = "begin", NEW w, w = e.what, Served(w)'
             PROVE  Home(w) \in daemonSessions \/ ComesBefore(k, Home(w))'
  BY <1>1 DEF BeginsFollowSessions, Home
<1>6. CASE k \in DOMAIN q
  <2>1. e = daemonQueue[k] /\ k \in DOMAIN daemonQueue
    BY <1>3, <1>4, <1>6
  <2>2. w \in DOMAIN routedTo
    BY <2>1 DEF RequestsAreRouted
  <2>3. Served(w)
    BY <2>2, ServedBefore
  <2>4. Home(w) \in daemonSessions \/ ComesBefore(k, Home(w))
    BY <2>1, <2>3 DEF BeginsFollowSessions
  <2> QED BY <1>3, <1>5, <2>4 DEF ComesBefore
<1>7. CASE k \notin DOMAIN q
  <2>1. IsThere(Home(w)) /\ Home(w) # InvalidSession
    BY ServedBefore
  <2>2. Home(w) \in Sessions
    BY <2>1, HomeIsSession DEF RequestEvents
  <2>3. Home(w) \in daemonSessions \/ ~NoneIn(daemonQueue, Announcements(Home(w)))
    BY <2>1, <2>2 DEF SessionsFollow
  <2>4. \A j \in DOMAIN q : j < k
    BY <1>4, <1>7
  <2>5. ~NoneIn(daemonQueue, Announcements(Home(w))) => ComesBefore(k, Home(w))'
    BY <1>3, <1>5, <2>4 DEF NoneIn, Announcements
  <2> QED BY <2>3, <2>5
<1> QED BY <1>6, <1>7


\* What is queued goes where it has begun.
LEMMA ServiceKeepsRoutes ==
  ASSUME TrackerTyped, RequestsAreRouted, NEW t, Serves(t)
  PROVE  RequestsAreRouted'
<1> USE DEF RequestsAreRouted
<1>1. t \in Seq(RequestEvents) /\ daemonQueue' = daemonQueue \o t /\ UNCHANGED <<daemonSessions, held>>
  BY DEF Serves
<1>2. DOMAIN routedTo' \subseteq Whats /\ DOMAIN routedTo \subseteq DOMAIN routedTo'
  BY DEF Serves
<1>3. \A w \in DOMAIN routedTo : routedTo[w] \subseteq routedTo'[w]
  BY DEF Serves
<1>4. \A w \in DOMAIN routedTo' :
        routedTo'[w] # {} /\ \A s \in routedTo'[w] : s = InvalidSession \/ Known(s)' \/ Ended(s)'
  <2>1. \A s : (Known(s)' <=> Known(s)) /\ (Ended(s)' <=> Ended(s))
    BY DEF Serves, SessionsStay, Ended
  <2> QED BY <2>1 DEF Serves
<1>5. DOMAIN held' = daemonSessions'
  BY <1>1
<1>6. \A s \in daemonSessions' : \A w \in held'[s] : s \in RoutedTo(w)'
  <2> SUFFICES ASSUME NEW s \in daemonSessions, NEW w \in held[s] PROVE s \in RoutedTo(w)'
    BY <1>1
  <2>1. s \in RoutedTo(w)
    OBVIOUS
  <2>2. w \in DOMAIN routedTo /\ s \in routedTo[w]
    BY <2>1 DEF RoutedTo
  <2> QED BY <1>2, <1>3, <2>2 DEF RoutedTo
<1>7. \A k \in DOMAIN daemonQueue' : daemonQueue'[k] \in RequestEvents =>
        /\ daemonQueue'[k].what \in DOMAIN routedTo'
        /\ daemonQueue'[k].event = "begin" =>
             daemonQueue'[k].sessions # {} /\ daemonQueue'[k].sessions \subseteq routedTo'[daemonQueue'[k].what]
  <2>1. daemonQueue \in Seq(DaemonEvents) /\ t \in Seq(DaemonEvents)
    BY <1>1, QueueSplits
  <2>2. PICK q, n : q = daemonQueue /\ n = Len(daemonQueue)
    OBVIOUS
  <2>3. /\ \A k \in DOMAIN q : daemonQueue'[k] = q[k]
        /\ \A k \in DOMAIN daemonQueue' \ DOMAIN q : k - n \in DOMAIN t /\ daemonQueue'[k] = t[k - n]
    BY <1>1, <2>1, <2>2, JoinedByPlace
  <2> SUFFICES ASSUME NEW k \in DOMAIN daemonQueue', NEW e, e = daemonQueue'[k], e \in RequestEvents
               PROVE  /\ e.what \in DOMAIN routedTo'
                      /\ e.event = "begin" => e.sessions # {} /\ e.sessions \subseteq routedTo'[e.what]
    OBVIOUS
  <2>4. CASE k \in DOMAIN q
    <3>1. e = daemonQueue[k] /\ k \in DOMAIN daemonQueue
      BY <2>2, <2>3, <2>4
    <3>2. /\ e.what \in DOMAIN routedTo
          /\ e.event = "begin" => e.sessions # {} /\ e.sessions \subseteq routedTo[e.what]
      BY <3>1
    <3> QED BY <1>2, <1>3, <3>2
  <2>5. CASE k \notin DOMAIN q
    <3>1. PICK i \in DOMAIN t : e = t[i]
      BY <2>3, <2>5
    <3> QED BY <3>1 DEF Serves
  <2> QED BY <2>4, <2>5
<1>8. \A w \in Whats : Asked(w)' => w \in DOMAIN routedTo'
  <2> SUFFICES ASSUME NEW w \in Whats, Asked(w)' PROVE w \in DOMAIN routedTo'
    OBVIOUS
  <2>1. CASE NoneIn(t, About(w))
    <3>1. Asked(w)
      BY <2>1 DEF Serves
    <3> QED BY <1>2, <3>1
  <2>2. CASE ~NoneIn(t, About(w))
    <3>1. PICK k \in DOMAIN t : t[k].what = w
      BY <2>2 DEF NoneIn, About
    <3> QED BY <3>1 DEF Serves
  <2> QED BY <2>1, <2>2
<1> QED BY <1>2, <1>4, <1>5, <1>6, <1>7, <1>8

\* The service keeps the invariant.
LEMMA ServiceKeepsRequests ==
  ASSUME TrackerTyped, RequestInv, NEW t, Serves(t), IdsAreUsed', WantedAreAsked'
  PROVE  RequestInv'
BY ServiceKeepsSessions, ServiceKeepsRoutes, ServiceKeepsLast, ServiceKeepsBegins, ServiceKeepsHeld
   DEF RequestInv

\* What ends, ends where it is held, if what is queued does.
LEMMA ServiceKeepsEnds ==
  ASSUME TrackerTyped, RequestsAreRouted, EndsAreRouted, EndedAreNotHeld, NEW t, Serves(t),
         EndsReachHome(t)
  PROVE  EndsAreRouted' /\ EndedAreNotHeld'
<1>1. t \in Seq(RequestEvents) /\ daemonQueue' = daemonQueue \o t /\ UNCHANGED <<daemonSessions, held>>
  BY DEF Serves
<1>2. EndsAreRouted'
  <2>1. daemonQueue \in Seq(DaemonEvents) /\ t \in Seq(DaemonEvents)
    BY <1>1, QueueSplits
  <2>2. PICK q, n : q = daemonQueue /\ n = Len(daemonQueue)
    OBVIOUS
  <2>3. /\ \A k \in DOMAIN q : daemonQueue'[k] = q[k]
        /\ \A k \in DOMAIN daemonQueue' \ DOMAIN q : k - n \in DOMAIN t /\ daemonQueue'[k] = t[k - n]
    BY <1>1, <2>1, <2>2, JoinedByPlace
  <2> SUFFICES ASSUME NEW k \in DOMAIN daemonQueue', NEW e, e = daemonQueue'[k], e \in RequestEvents,
                      e.event = "end", NEW w, w = e.what, Served(w)', WellServed(w.client)
               PROVE  Home(w) \in e.sessions
    BY DEF EndsAreRouted, Home, WellServed, NamedByItself
  <2>4. CASE k \in DOMAIN q
    <3>1. e = daemonQueue[k] /\ k \in DOMAIN daemonQueue
      BY <2>2, <2>3, <2>4
    <3>2. w \in DOMAIN routedTo
      BY <3>1 DEF RequestsAreRouted
    <3>3. Served(w)
      BY <3>2, ServedBefore
    <3> QED BY <3>1, <3>3 DEF EndsAreRouted
  <2>5. CASE k \notin DOMAIN q
    <3>1. PICK i \in DOMAIN t : e = t[i]
      BY <2>3, <2>5
    <3>2. IsThere(Home(w)) /\ Home(w) # InvalidSession
      BY ServedBefore
    <3> QED BY <3>1, <3>2 DEF EndsReachHome
  <2> QED BY <2>4, <2>5
<1>3. EndedAreNotHeld'
  <2> SUFFICES ASSUME NEW w \in Whats, Served(w)', ~Asked(w)', NoneIn(daemonQueue', About(w)),
                      Home(w) \in daemonSessions, WellServed(w.client)
               PROVE  w \notin held[Home(w)]
    BY <1>1 DEF EndedAreNotHeld, Home, WellServed, NamedByItself
  <2>1. NoneIn(daemonQueue, About(w)) /\ NoneIn(t, About(w))
    BY <1>1, QueueSplits
  <2>2. Served(w) /\ ~Asked(w)
    BY <2>1, ServedBefore DEF Serves
  <2> QED BY <2>1, <2>2 DEF EndedAreNotHeld
<1> QED BY <1>2, <1>3


-----------------------------------------------------------------------------
(* The tracker's steps.                                                    *)

\* The sessions that are there are as the daemon will have them.
LEMMA TrackerKeepsSessions ==
  ASSUME TrackerTyped, SessionsFollow, NEW t, Moves(t)
  PROVE  SessionsFollow'
<1> SUFFICES ASSUME NEW s \in Sessions
             PROVE  /\ s \in daemonSessions' /\ NoneIn(daemonQueue', EventsOf(s)) => IsThere(s)'
                    /\ LastIn(daemonQueue', EventsOf(s), Activation(s, TRUE)) => IsThere(s)'
                    /\ IsThere(s)' => s \in daemonSessions' \/ ~NoneIn(daemonQueue', Announcements(s))
                    /\ ~NoneIn(daemonQueue', Removals(s)) => Ended(s)'
  BY DEF SessionsFollow
<1>1. t \in Seq(SessionEvents) /\ daemonQueue' = daemonQueue \o t /\ UNCHANGED daemonSessions
  BY DEF Moves
<1>2. /\ Ended(s) => Ended(s)'
      /\ IsThere(s)' /\ ~IsThere(s) => ~NoneIn(t, Announcements(s))
      /\ IsThere(s) /\ ~IsThere(s)' => ~NoneIn(t, Removals(s))
      /\ ~NoneIn(t, Announcements(s)) => IsThere(s)'
      /\ ~NoneIn(t, Removals(s)) => Ended(s)'
  BY DEF Moves
<1>3. /\ s \in daemonSessions /\ NoneIn(daemonQueue, EventsOf(s)) => IsThere(s)
      /\ LastIn(daemonQueue, EventsOf(s), Activation(s, TRUE)) => IsThere(s)
      /\ IsThere(s) => s \in daemonSessions \/ ~NoneIn(daemonQueue, Announcements(s))
      /\ ~NoneIn(daemonQueue, Removals(s)) => Ended(s)
  BY DEF SessionsFollow
<1>4. \A K : /\ NoneIn(daemonQueue', K) <=> NoneIn(daemonQueue, K) /\ NoneIn(t, K)
             /\ \A x : LastIn(daemonQueue', K, x) =>
                  IF NoneIn(t, K) THEN LastIn(daemonQueue, K, x) ELSE x \in K /\ \E k \in DOMAIN t : t[k] = x
  BY <1>1, QueueSplits
<1>5. NoneIn(t, EventsOf(s)) => NoneIn(t, Removals(s))
  BY DEF NoneIn, EventsOf
<1>6. (\E k \in DOMAIN t : t[k] = Activation(s, TRUE)) => ~NoneIn(t, Announcements(s))
  BY DEF NoneIn, Announcements
<1>7. s \in daemonSessions' /\ NoneIn(daemonQueue', EventsOf(s)) => IsThere(s)'
  BY <1>1, <1>2, <1>3, <1>4, <1>5
<1>8. LastIn(daemonQueue', EventsOf(s), Activation(s, TRUE)) => IsThere(s)'
  BY <1>2, <1>3, <1>4, <1>5, <1>6
<1>9. IsThere(s)' => s \in daemonSessions' \/ ~NoneIn(daemonQueue', Announcements(s))
  BY <1>1, <1>2, <1>3, <1>4
<1>10. ~NoneIn(daemonQueue', Removals(s)) => Ended(s)'
  BY <1>2, <1>3, <1>4
<1> QED BY <1>7, <1>8, <1>9, <1>10

\* No session comes where something has begun already.
LEMMA ServedStays ==
  ASSUME RequestsAreRouted, NEW t, Moves(t), NEW w \in Whats, Served(w)'
  PROVE  Served(w) /\ routedTo[w] = {Home(w)} /\ Home(w) \in Sessions
<1>1. PICK h : h = Home(w)
  OBVIOUS
<1>2. /\ Served(w) <=> w \in DOMAIN routedTo /\ h # InvalidSession /\ routedTo[w] = {h} /\ IsThere(h)
      /\ Served(w)' <=> w \in DOMAIN routedTo' /\ h # InvalidSession /\ routedTo'[w] = {h} /\ IsThere(h)'
  BY <1>1 DEF Served, OwnSession, Home, IsThere, Tracked
<1>3. h \in Sessions
  BY <1>1, <1>2, HomeIsSession
<1>4. w \in DOMAIN routedTo /\ routedTo[w] = {h}
  BY <1>2 DEF Moves
<1>5. Known(h) \/ Ended(h)
  BY <1>2, <1>4 DEF RequestsAreRouted
<1>6. IsThere(h)
  BY <1>2, <1>3, <1>5 DEF Moves
<1> QED BY <1>1, <1>2, <1>3, <1>4, <1>6

\* Requests are where they were.
LEMMA TrackerKeepsRequests ==
  ASSUME TrackerTyped, RequestInv, NEW t, Moves(t)
  PROVE  RequestInv'
<1> USE DEF RequestInv
<1>1. /\ t \in Seq(SessionEvents) /\ daemonQueue' = daemonQueue \o t
      /\ UNCHANGED <<daemonSessions, held, routedTo, keep_display_on_ids, request_sys_state_ids,
                     active_notifications, nextIds, wanted>>
  BY DEF Moves
<1>2. daemonQueue \in Seq(DaemonEvents) /\ t \in Seq(DaemonEvents)
  BY <1>1, QueueSplits
<1>3. PICK q, n : q = daemonQueue /\ n = Len(daemonQueue)
  OBVIOUS
<1>4. /\ DOMAIN q \subseteq DOMAIN daemonQueue' /\ n \in Nat
      /\ \A k \in DOMAIN q : k \in Nat /\ k <= n /\ daemonQueue'[k] = q[k]
      /\ \A k \in DOMAIN daemonQueue' \ DOMAIN q : k - n \in DOMAIN t /\ daemonQueue'[k] = t[k - n]
  BY <1>1, <1>2, <1>3, JoinedByPlace
<1>5. \A k \in DOMAIN daemonQueue' : daemonQueue'[k] \in RequestEvents =>
        k \in DOMAIN daemonQueue /\ daemonQueue'[k] = daemonQueue[k]
  BY <1>1, <1>3, <1>4, EventsDiffer
<1>6. \A w \in Whats : Asked(w)' <=> Asked(w)
  BY <1>1 DEF Asked, Owned
<1>7. \A w : NoneIn(t, About(w))
  BY <1>1, EventsDiffer DEF NoneIn
<1>8. \A w : /\ NoneIn(daemonQueue', About(w)) <=> NoneIn(daemonQueue, About(w))
             /\ \A x : LastIn(daemonQueue', About(w), x) => LastIn(daemonQueue, About(w), x)
  BY <1>1, <1>7, QueueSplits
<1>9. SessionsFollow'
  BY TrackerKeepsSessions
<1>10. RequestsAreRouted'
  <2> USE DEF RequestsAreRouted
  <2>1. ASSUME NEW w \in DOMAIN routedTo, NEW s \in routedTo[w], s # InvalidSession PROVE Known(s)' \/ Ended(s)'
    <3>1. Known(s) \/ Ended(s)
      BY <2>1
    <3>2. s \in Sessions
      BY <2>1, <3>1 DEF Known, Ended, Gone, TrackerTyped, AnySession
    <3> QED BY <3>1, <3>2 DEF Moves
  <2>2. \A w \in DOMAIN routedTo' :
          routedTo'[w] # {} /\ \A s \in routedTo'[w] : s = InvalidSession \/ Known(s)' \/ Ended(s)'
    BY <1>1, <2>1
  <2>3. \A s \in daemonSessions' : \A w \in held'[s] : s \in RoutedTo(w)'
    BY <1>1 DEF RoutedTo
  <2>4. \A k \in DOMAIN daemonQueue' : daemonQueue'[k] \in RequestEvents =>
          /\ daemonQueue'[k].what \in DOMAIN routedTo'
          /\ daemonQueue'[k].event = "begin" =>
               daemonQueue'[k].sessions # {} /\ daemonQueue'[k].sessions \subseteq routedTo'[daemonQueue'[k].what]
    BY <1>1, <1>5
  <2>5. DOMAIN routedTo' \subseteq Whats /\ DOMAIN held' = daemonSessions'
    BY <1>1
  <2>6. \A w \in Whats : Asked(w)' => w \in DOMAIN routedTo'
    BY <1>1, <1>6
  <2> QED BY <2>2, <2>3, <2>4, <2>5, <2>6
<1>11. IdsAreUsed'
  BY <1>1 DEF IdsAreUsed
<1>12. LastRequestSays'
  BY <1>6, <1>8 DEF LastRequestSays
<1>13. BeginsFollowSessions'
  <2> SUFFICES ASSUME NEW k \in DOMAIN daemonQueue', NEW e, e = daemonQueue'[k], e \in RequestEvents,
                      e.event = "begin", NEW w, w = e.what, Served(w)'
               PROVE  Home(w) \in daemonSessions \/ ComesBefore(k, Home(w))'
    BY <1>1 DEF BeginsFollowSessions, Home
  <2>1. k \in DOMAIN daemonQueue /\ e = daemonQueue[k]
    BY <1>5
  <2>2. Served(w)
    BY ServedStays DEF RequestEvents
  <2>3. Home(w) \in daemonSessions \/ ComesBefore(k, Home(w))
    BY <2>1, <2>2 DEF BeginsFollowSessions
  <2> QED BY <1>3, <1>4, <2>3 DEF ComesBefore
<1>14. AskedAreHeld'
  <2> SUFFICES ASSUME NEW w \in Whats, Served(w)', Asked(w)', NoneIn(daemonQueue', About(w))
               PROVE  Home(w) \in daemonSessions /\ w \in held[Home(w)]
    BY <1>1 DEF AskedAreHeld, Home
  <2>1. Served(w)
    BY ServedStays
  <2> QED BY <1>6, <1>8, <2>1 DEF AskedAreHeld
<1>15. WantedAreAsked'
  BY <1>1, <1>6 DEF WantedAreAsked
<1> QED BY <1>9, <1>10, <1>11, <1>12, <1>13, <1>14, <1>15

\* What ends, ends where it is held.
LEMMA TrackerKeepsEnds ==
  ASSUME TrackerTyped, RequestsAreRouted, EndsAreRouted, EndedAreNotHeld, NEW t, Moves(t)
  PROVE  EndsAreRouted' /\ EndedAreNotHeld'
<1>1. /\ t \in Seq(SessionEvents) /\ daemonQueue' = daemonQueue \o t
      /\ UNCHANGED <<daemonSessions, held, routedTo, keep_display_on_ids, request_sys_state_ids,
                     active_notifications, nextIds, wanted>>
  BY DEF Moves
<1>2. daemonQueue \in Seq(DaemonEvents) /\ t \in Seq(DaemonEvents)
  BY <1>1, QueueSplits
<1>3. \A k \in DOMAIN daemonQueue' : daemonQueue'[k] \in RequestEvents =>
        k \in DOMAIN daemonQueue /\ daemonQueue'[k] = daemonQueue[k]
  <2>1. PICK q, n : q = daemonQueue /\ n = Len(daemonQueue)
    OBVIOUS
  <2>2. /\ \A k \in DOMAIN q : daemonQueue'[k] = q[k]
        /\ \A k \in DOMAIN daemonQueue' \ DOMAIN q : k - n \in DOMAIN t /\ daemonQueue'[k] = t[k - n]
    BY <1>1, <1>2, <2>1, JoinedByPlace
  <2> QED BY <1>1, <2>1, <2>2, EventsDiffer
<1>4. EndsAreRouted'
  <2> SUFFICES ASSUME NEW k \in DOMAIN daemonQueue', NEW e, e = daemonQueue'[k], e \in RequestEvents,
                      e.event = "end", NEW w, w = e.what, Served(w)', WellServed(w.client)
               PROVE  Home(w) \in e.sessions
    BY DEF EndsAreRouted, Home, WellServed, NamedByItself
  <2>1. Served(w)
    BY ServedStays DEF RequestEvents
  <2> QED BY <1>3, <2>1 DEF EndsAreRouted
<1>5. EndedAreNotHeld'
  <2> SUFFICES ASSUME NEW w \in Whats, Served(w)', ~Asked(w)', NoneIn(daemonQueue', About(w)),
                      Home(w) \in daemonSessions, WellServed(w.client)
               PROVE  w \notin held[Home(w)]
    BY <1>1 DEF EndedAreNotHeld, Home, WellServed, NamedByItself
  <2>1. Served(w)
    BY ServedStays
  <2>2. NoneIn(daemonQueue, About(w)) /\ ~Asked(w)
    BY <1>1, QueueSplits DEF Asked, Owned
  <2> QED BY <2>1, <2>2 DEF EndedAreNotHeld
<1> QED BY <1>4, <1>5


-----------------------------------------------------------------------------
(* The daemon's steps.                                                     *)

\* What is left on the daemon's queue.
LEMMA QueueShortens ==
  ASSUME TrackerTyped, daemonQueue # <<>>, daemonQueue' = Tail(daemonQueue)
  PROVE  /\ Head(daemonQueue) \in DaemonEvents /\ Head(daemonQueue) = daemonQueue[1]
         /\ 1 \in DOMAIN daemonQueue
         /\ \A K : NoneIn(daemonQueue, K) <=> NoneIn(daemonQueue', K) /\ Head(daemonQueue) \notin K
         /\ \A K, x : LastIn(daemonQueue', K, x) => LastIn(daemonQueue, K, x)
         /\ \A K : NoneIn(daemonQueue', K) /\ Head(daemonQueue) \in K => LastIn(daemonQueue, K, Head(daemonQueue))
         /\ \A k \in DOMAIN daemonQueue' :
              k \in Nat /\ 0 < k /\ k + 1 \in DOMAIN daemonQueue /\ daemonQueue'[k] = daemonQueue[k + 1]
         /\ \A k \in DOMAIN daemonQueue : k \in Nat /\ 0 < k /\ (k # 1 =>
              k - 1 \in DOMAIN daemonQueue' /\ daemonQueue'[k - 1] = daemonQueue[k])
<1> DEFINE q == daemonQueue
<1>1. q \in Seq(DaemonEvents) /\ q # <<>>
  BY DEF TrackerTyped
<1>2. daemonQueue' = Tail(q) /\ daemonQueue = q
  OBVIOUS
<1> HIDE DEF q
<1>3. /\ Tail(q) \in Seq(DaemonEvents) /\ 1 \in DOMAIN q /\ Head(q) = q[1] /\ q[1] \in DaemonEvents
      /\ \A k \in DOMAIN Tail(q) : k \in Nat /\ 0 < k /\ k + 1 \in DOMAIN q /\ Tail(q)[k] = q[k + 1]
      /\ \A k \in DOMAIN q : k \in Nat /\ 0 < k /\ (k # 1 =>
           k - 1 \in DOMAIN Tail(q) /\ Tail(q)[k - 1] = q[k])
  BY <1>1, TakenByPlace
<1>4. \A K : /\ \A x : LastIn(Tail(q), K, x) => LastIn(q, K, x)
             /\ NoneIn(Tail(q), K) /\ Head(q) \in K => LastIn(q, K, Head(q))
             /\ NoneIn(q, K) <=> NoneIn(Tail(q), K) /\ Head(q) \notin K
  BY <1>1, LastTaken
<1> QED BY <1>2, <1>3, <1>4

\* The daemon takes an event, and nothing changes but what it has and holds.
Takes(e) ==
  /\ daemonQueue # <<>> /\ daemonQueue' = Tail(daemonQueue) /\ e = Head(daemonQueue)
  /\ UNCHANGED <<loggedOut, seatSignals, tracked_sessions, routedTo, keep_display_on_ids,
                 request_sys_state_ids, active_notifications, nextIds, onBus, busCalls, wanted>>

\* The same, of what the invariant speaks about.
LEMMA TakingChanges ==
  ASSUME NEW e, Takes(e)
  PROVE  /\ SessionsStay /\ \A s : Ended(s)' <=> Ended(s)
         /\ \A w : (Asked(w)' <=> Asked(w)) /\ (Served(w)' <=> Served(w)) /\ RoutedTo(w)' = RoutedTo(w)
         /\ UNCHANGED <<routedTo, nextIds>>
         /\ IdsAreUsed => IdsAreUsed'
         /\ WantedAreAsked => WantedAreAsked'
<1> USE DEF Takes
<1>1. \A s : (Known(s)' <=> Known(s)) /\ (IsThere(s)' <=> IsThere(s)) /\ (Gone(s)' <=> Gone(s))
  BY DEF Known, IsThere, Gone, IsActive, Tracked
<1>2. SessionsStay /\ \A s : Ended(s)' <=> Ended(s)
  BY <1>1 DEF SessionsStay, Ended
<1>3. \A w : Asked(w)' <=> Asked(w)
  BY DEF Asked, Owned
<1>4. \A w : (Served(w)' <=> Served(w)) /\ RoutedTo(w)' = RoutedTo(w)
  BY DEF Served, OwnSession, Home, RoutedTo, IsThere, Tracked
<1>5. IdsAreUsed => IdsAreUsed'
  BY DEF IdsAreUsed
<1>6. WantedAreAsked => WantedAreAsked'
  BY <1>3 DEF WantedAreAsked
<1> QED BY <1>2, <1>3, <1>4, <1>5, <1>6

\* A request changes what some sessions hold.
LEMMA DaemonTakesRequestKeeps ==
  ASSUME TrackerTyped, RequestInv, DaemonTakesRequest
  PROVE  RequestInv' /\ (EndInv => EndInv')
<1> USE DEF RequestInv
<1>1. PICK e : e = Head(daemonQueue)
  OBVIOUS
<1>2. /\ Takes(e) /\ e.event \in {"begin", "end"} /\ UNCHANGED daemonSessions
      /\ held' = [s \in daemonSessions |->
                    IF s \notin e.sessions THEN held[s]
                    ELSE IF e.event = "begin" THEN held[s] \cup {e.what} ELSE held[s] \ {e.what}]
  BY <1>1 DEF DaemonTakesRequest, Takes, logindVars, trackerVars, serviceVars
<1>3. /\ e \in DaemonEvents /\ 1 \in DOMAIN daemonQueue /\ e = daemonQueue[1]
      /\ \A K : NoneIn(daemonQueue, K) <=> NoneIn(daemonQueue', K) /\ e \notin K
      /\ \A K, x : LastIn(daemonQueue', K, x) => LastIn(daemonQueue, K, x)
      /\ \A K : NoneIn(daemonQueue', K) /\ e \in K => LastIn(daemonQueue, K, e)
      /\ \A k \in DOMAIN daemonQueue' :
           k \in Nat /\ 0 < k /\ k + 1 \in DOMAIN daemonQueue /\ daemonQueue'[k] = daemonQueue[k + 1]
      /\ \A k \in DOMAIN daemonQueue : k \in Nat /\ 0 < k /\ (k # 1 =>
           k - 1 \in DOMAIN daemonQueue' /\ daemonQueue'[k - 1] = daemonQueue[k])
  BY <1>1, <1>2, QueueShortens DEF Takes
<1>4. e \in RequestEvents
  BY <1>2, <1>3 DEF DaemonEvents, SessionEvents
<1>5. e.what \in Whats /\ e \in About(e.what)
  BY <1>4 DEF RequestEvents, About
<1>6. /\ \A s : (Known(s)' <=> Known(s)) /\ (IsThere(s)' <=> IsThere(s)) /\ (Ended(s)' <=> Ended(s))
      /\ \A w : (Asked(w)' <=> Asked(w)) /\ (Served(w)' <=> Served(w)) /\ RoutedTo(w)' = RoutedTo(w)
      /\ UNCHANGED <<routedTo, nextIds>> /\ IdsAreUsed' /\ WantedAreAsked'
  BY <1>2, TakingChanges DEF SessionsStay
<1>7. \A K, s : e \notin EventsOf(s) /\ e \notin Announcements(s) /\ e \notin Removals(s)
  BY <1>4, EventsDiffer DEF EventsOf
<1>8. SessionsFollow'
  BY <1>2, <1>3, <1>6, <1>7 DEF SessionsFollow
<1>9. /\ e.what \in DOMAIN routedTo
      /\ e.event = "begin" => e.sessions # {} /\ e.sessions \subseteq routedTo[e.what]
  BY <1>3, <1>4 DEF RequestsAreRouted
<1>10. RequestsAreRouted'
  <2> USE DEF RequestsAreRouted
  <2>1. \A w \in DOMAIN routedTo' :
          routedTo'[w] # {} /\ \A s \in routedTo'[w] : s = InvalidSession \/ Known(s)' \/ Ended(s)'
    BY <1>6
  <2>2. \A s \in daemonSessions' : \A w \in held'[s] : s \in RoutedTo(w)'
    <3> SUFFICES ASSUME NEW s \in daemonSessions, NEW w \in held'[s] PROVE s \in RoutedTo(w)
      BY <1>2, <1>6
    <3>1. CASE w \in held[s]
      BY <3>1
    <3>2. CASE w \notin held[s]
      <4>1. s \in e.sessions /\ e.event = "begin" /\ w = e.what
        BY <1>2, <3>2
      <4> QED BY <1>9, <4>1 DEF RoutedTo
    <3> QED BY <3>1, <3>2
  <2>3. \A k \in DOMAIN daemonQueue' : daemonQueue'[k] \in RequestEvents =>
          /\ daemonQueue'[k].what \in DOMAIN routedTo'
          /\ daemonQueue'[k].event = "begin" =>
               daemonQueue'[k].sessions # {} /\ daemonQueue'[k].sessions \subseteq routedTo'[daemonQueue'[k].what]
    BY <1>3, <1>6
  <2>4. DOMAIN routedTo' \subseteq Whats /\ DOMAIN held' = daemonSessions'
    BY <1>2, <1>6
  <2>5. \A w \in Whats : Asked(w)' => w \in DOMAIN routedTo'
    BY <1>6
  <2> QED BY <2>1, <2>2, <2>3, <2>4, <2>5
<1>11. LastRequestSays'
  BY <1>3, <1>6 DEF LastRequestSays
<1>12. BeginsFollowSessions'
  <2> SUFFICES ASSUME NEW k \in DOMAIN daemonQueue', NEW x, x = daemonQueue'[k], x \in RequestEvents,
                      x.event = "begin", Served(x.what)
               PROVE  Home(x.what) \in daemonSessions \/ ComesBefore(k, Home(x.what))'
    BY <1>2, <1>6 DEF BeginsFollowSessions, Home
  <2>1. k + 1 \in DOMAIN daemonQueue /\ x = daemonQueue[k + 1]
    BY <1>3
  <2>2. Home(x.what) \in daemonSessions \/ ComesBefore(k + 1, Home(x.what))
    BY <2>1 DEF BeginsFollowSessions
  <2>3. ASSUME ComesBefore(k + 1, Home(x.what)) PROVE ComesBefore(k, Home(x.what))'
    <3>1. PICK j \in DOMAIN daemonQueue : j < k + 1 /\ daemonQueue[j] = Activation(Home(x.what), TRUE)
      BY <2>3 DEF ComesBefore
    <3>2. j # 1
      BY <1>3, <1>7, <3>1 DEF Announcements
    <3>3. j \in Nat /\ k \in Nat /\ j - 1 \in DOMAIN daemonQueue' /\ daemonQueue'[j - 1] = daemonQueue[j]
      BY <1>3, <3>2
    <3>4. j - 1 < k
      BY <3>1, <3>3
    <3> QED BY <3>1, <3>3, <3>4 DEF ComesBefore, Home
  <2> QED BY <2>2, <2>3
<1>13. ASSUME NEW w \in Whats, Served(w), NoneIn(daemonQueue', About(w)), e.what = w
       PROVE  (e.event = "begin" <=> Asked(w)) /\ routedTo[w] = {Home(w)} 
  <2>1. LastIn(daemonQueue, About(w), e)
    BY <1>3, <1>5, <1>13
  <2> QED BY <1>13, <2>1 DEF LastRequestSays, Served, OwnSession, Home
<1>14. ASSUME NEW w \in Whats, NoneIn(daemonQueue', About(w)), e.what # w
       PROVE  /\ NoneIn(daemonQueue, About(w))
              /\ \A s \in daemonSessions : w \in held'[s] <=> w \in held[s]
  BY <1>2, <1>3, <1>14 DEF About
<1>15. AskedAreHeld'
  <2> SUFFICES ASSUME NEW w \in Whats, Served(w), Asked(w), NoneIn(daemonQueue', About(w))
               PROVE  Home(w) \in daemonSessions /\ w \in held'[Home(w)]
    BY <1>2, <1>6 DEF AskedAreHeld, Home
  <2>1. CASE e.what = w
    <3>1. e.event = "begin" /\ routedTo[w] = {Home(w)}
      BY <1>13, <2>1
    <3>2. Home(w) \in e.sessions
      BY <1>9, <2>1, <3>1
    <3>3. ~ComesBefore(1, Home(w))
      <4>1. \A j \in DOMAIN daemonQueue : ~(j < 1)
        <5> SUFFICES ASSUME NEW j \in DOMAIN daemonQueue PROVE ~(j < 1)
          OBVIOUS
        <5>1. j \in Nat /\ 0 < j
          BY <1>3
        <5> QED BY <5>1
      <4> QED BY <4>1 DEF ComesBefore
    <3>4. Home(w) \in daemonSessions
      BY <1>3, <1>4, <2>1, <3>1, <3>3 DEF BeginsFollowSessions
    <3> QED BY <1>2, <2>1, <3>1, <3>2, <3>4
  <2>2. CASE e.what # w
    BY <1>14, <2>2 DEF AskedAreHeld
  <2> QED BY <2>1, <2>2
<1>16. ASSUME EndInv PROVE EndInv'
  <2> USE <1>16 DEF EndInv
  <2>1. CallersAreThere'
    BY <1>2 DEF Takes, CallersAreThere
  <2>2. EndsAreRouted'
    BY <1>3, <1>6 DEF EndsAreRouted, Home, WellServed, NamedByItself
  <2>3. EndedAreNotHeld'
    <3> SUFFICES ASSUME NEW w \in Whats, Served(w), ~Asked(w), NoneIn(daemonQueue', About(w)),
                        Home(w) \in daemonSessions, WellServed(w.client)
                 PROVE  w \notin held'[Home(w)]
      BY <1>2, <1>6 DEF EndedAreNotHeld, Home, WellServed, NamedByItself
    <3>1. CASE e.what = w
      <4>1. e.event # "begin"
        BY <1>13, <3>1
      <4>2. Home(w) \in e.sessions
        BY <1>2, <1>3, <1>4, <3>1, <4>1 DEF EndsAreRouted
      <4> QED BY <1>2, <3>1, <4>1, <4>2
    <3>2. CASE e.what # w
      BY <1>14, <3>2 DEF EndedAreNotHeld
    <3> QED BY <3>1, <3>2
  <2> QED BY <2>1, <2>2, <2>3
<1> QED BY <1>6, <1>8, <1>10, <1>11, <1>12, <1>15, <1>16


\* A session comes or goes; one that goes has ended.
LEMMA DaemonTakesSessionKeeps ==
  ASSUME TrackerTyped, RequestInv, DaemonTakesSession
  PROVE  RequestInv' /\ (EndInv => EndInv')
<1> USE DEF RequestInv
<1>1. PICK e : e = Head(daemonQueue)
  OBVIOUS
<1>2. /\ Takes(e)
      /\ \/ e.event = "session_activated" /\ handle_session_activated(e)
         \/ e.event = "session_removed" /\ handle_session_removed(e)
      /\ held' = [s \in daemonSessions' |-> IF s \in DOMAIN held THEN held[s] ELSE {}]
  BY <1>1 DEF DaemonTakesSession, DaemonTakesSessionEvent, Takes, logindVars, trackerVars, serviceVars
<1>3. /\ e \in DaemonEvents /\ 1 \in DOMAIN daemonQueue /\ e = daemonQueue[1]
      /\ \A K : NoneIn(daemonQueue, K) <=> NoneIn(daemonQueue', K) /\ e \notin K
      /\ \A K, x : LastIn(daemonQueue', K, x) => LastIn(daemonQueue, K, x)
      /\ \A K : NoneIn(daemonQueue', K) /\ e \in K => LastIn(daemonQueue, K, e)
      /\ \A k \in DOMAIN daemonQueue' :
           k \in Nat /\ 0 < k /\ k + 1 \in DOMAIN daemonQueue /\ daemonQueue'[k] = daemonQueue[k + 1]
      /\ \A k \in DOMAIN daemonQueue : k \in Nat /\ 0 < k /\ (k # 1 =>
           k - 1 \in DOMAIN daemonQueue' /\ daemonQueue'[k - 1] = daemonQueue[k])
  BY <1>1, <1>2, QueueShortens DEF Takes
<1>4. e \in SessionEvents /\ e \notin RequestEvents /\ \A w : e \notin About(w)
  <2>1. e \in SessionEvents
    BY <1>2, <1>3 DEF DaemonEvents, RequestEvents
  <2> QED BY <2>1, EventsDiffer
<1>5. /\ \A s : (Known(s)' <=> Known(s)) /\ (IsThere(s)' <=> IsThere(s)) /\ (Ended(s)' <=> Ended(s))
      /\ \A w : (Asked(w)' <=> Asked(w)) /\ (Served(w)' <=> Served(w)) /\ RoutedTo(w)' = RoutedTo(w)
      /\ UNCHANGED <<routedTo, nextIds>> /\ IdsAreUsed' /\ WantedAreAsked'
  BY <1>2, TakingChanges DEF SessionsStay
<1>6. ASSUME NEW s \in Sessions
      PROVE  /\ e \in Announcements(s) => s \in daemonSessions'
             /\ s \in daemonSessions' /\ s \notin daemonSessions => e \in Announcements(s)
             /\ s \in daemonSessions /\ s \notin daemonSessions' => e \in Removals(s)
             /\ e \in Removals(s) => s \notin daemonSessions'
  <2>1. CASE e.event = "session_activated" /\ handle_session_activated(e)
    <3>1. e = Activation(e.session, e.compatible) /\ e.compatible \in BOOLEAN
      BY <1>4, <2>1 DEF SessionEvents, Activation
    <3>2. daemonSessions' = IF e.compatible THEN daemonSessions \cup {e.session} ELSE daemonSessions
      BY <2>1 DEF handle_session_activated
    <3>3. e \in Announcements(s) <=> e.session = s /\ e.compatible
      BY <3>1 DEF Announcements, Activation
    <3>4. e \notin Removals(s)
      BY <2>1 DEF Removals, Removal
    <3> QED BY <3>2, <3>3, <3>4
  <2>2. CASE e.event = "session_removed" /\ handle_session_removed(e)
    <3>1. e = Removal(e.session)
      BY <1>4, <2>2 DEF SessionEvents, Removal
    <3>2. daemonSessions' = daemonSessions \ {e.session}
      BY <2>2 DEF handle_session_removed
    <3>3. e \in Removals(s) <=> e.session = s
      BY <3>1 DEF Removals, Removal
    <3>4. e \notin Announcements(s)
      BY <2>2 DEF Announcements, Activation
    <3> QED BY <3>2, <3>3, <3>4
  <2> QED BY <1>2, <2>1, <2>2
<1>7. SessionsFollow'
  <2> SUFFICES ASSUME NEW s \in Sessions
               PROVE  /\ s \in daemonSessions' /\ NoneIn(daemonQueue', EventsOf(s)) => IsThere(s)
                      /\ LastIn(daemonQueue', EventsOf(s), Activation(s, TRUE)) => IsThere(s)
                      /\ IsThere(s) => s \in daemonSessions' \/ ~NoneIn(daemonQueue', Announcements(s))
                      /\ ~NoneIn(daemonQueue', Removals(s)) => Ended(s)
    BY <1>5 DEF SessionsFollow
  <2>1. /\ s \in daemonSessions /\ NoneIn(daemonQueue, EventsOf(s)) => IsThere(s)
        /\ LastIn(daemonQueue, EventsOf(s), Activation(s, TRUE)) => IsThere(s)
        /\ IsThere(s) => s \in daemonSessions \/ ~NoneIn(daemonQueue, Announcements(s))
        /\ ~NoneIn(daemonQueue, Removals(s)) => Ended(s)
    BY DEF SessionsFollow
  <2>2. s \in daemonSessions' /\ NoneIn(daemonQueue', EventsOf(s)) => IsThere(s)
    <3> HAVE s \in daemonSessions' /\ NoneIn(daemonQueue', EventsOf(s))
    <3>1. CASE e \in EventsOf(s)
      <4>1. LastIn(daemonQueue, EventsOf(s), e)
        BY <1>3, <3>1
      <4>2. e = Activation(s, TRUE)
        BY <1>6, <3>1 DEF EventsOf, Announcements
      <4> QED BY <2>1, <4>1, <4>2
    <3>2. CASE e \notin EventsOf(s)
      <4>1. NoneIn(daemonQueue, EventsOf(s))
        BY <1>3, <3>2
      <4>2. s \in daemonSessions
        BY <1>6, <3>2 DEF EventsOf
      <4> QED BY <2>1, <4>1, <4>2
    <3> QED BY <3>1, <3>2
  <2>3. LastIn(daemonQueue', EventsOf(s), Activation(s, TRUE)) => IsThere(s)
    BY <1>3, <2>1
  <2>4. IsThere(s) => s \in daemonSessions' \/ ~NoneIn(daemonQueue', Announcements(s))
    <3> HAVE IsThere(s)
    <3>1. e \notin Removals(s)
      <4>1. ~Ended(s)
        BY DEF IsThere, Ended, Known
      <4> QED BY <1>3, <2>1, <4>1
    <3> QED BY <1>3, <1>6, <2>1, <3>1
  <2>5. ~NoneIn(daemonQueue', Removals(s)) => Ended(s)
    BY <1>3, <2>1
  <2> QED BY <2>2, <2>3, <2>4, <2>5
<1>8. \A s \in Sessions : IsThere(s) => e \notin Removals(s)
  <2> SUFFICES ASSUME NEW s \in Sessions, IsThere(s), e \in Removals(s) PROVE FALSE
    OBVIOUS
  <2>1. Ended(s)
    BY <1>3 DEF SessionsFollow
  <2> QED BY <2>1 DEF IsThere, Ended, Known
<1>9. ASSUME NEW w \in Whats, Served(w)
      PROVE  /\ Home(w) \in Sessions
             /\ Home(w) \in daemonSessions => Home(w) \in daemonSessions' /\ held'[Home(w)] = held[Home(w)]
             /\ Home(w) \in daemonSessions' /\ Home(w) \notin daemonSessions =>
                  held'[Home(w)] = {} /\ e \in Announcements(Home(w))
  <2>1. Home(w) \in Sessions /\ IsThere(Home(w))
    BY <1>9, HomeIsSession DEF Served, OwnSession, Home
  <2>2. DOMAIN held = daemonSessions
    BY DEF RequestsAreRouted
  <2> QED BY <1>2, <1>6, <1>8, <2>1, <2>2
<1>10. RequestsAreRouted'
  <2> USE DEF RequestsAreRouted
  <2>1. \A w \in DOMAIN routedTo' :
          routedTo'[w] # {} /\ \A s \in routedTo'[w] : s = InvalidSession \/ Known(s)' \/ Ended(s)'
    BY <1>5
  <2>2. \A s \in daemonSessions' : \A w \in held'[s] : s \in RoutedTo(w)'
    BY <1>2, <1>5
  <2>3. \A k \in DOMAIN daemonQueue' : daemonQueue'[k] \in RequestEvents =>
          /\ daemonQueue'[k].what \in DOMAIN routedTo'
          /\ daemonQueue'[k].event = "begin" =>
               daemonQueue'[k].sessions # {} /\ daemonQueue'[k].sessions \subseteq routedTo'[daemonQueue'[k].what]
    BY <1>3, <1>5
  <2>4. DOMAIN routedTo' \subseteq Whats /\ DOMAIN held' = daemonSessions'
    BY <1>2, <1>5
  <2>5. \A w \in Whats : Asked(w)' => w \in DOMAIN routedTo'
    BY <1>5
  <2> QED BY <2>1, <2>2, <2>3, <2>4, <2>5
<1>11. LastRequestSays'
  BY <1>3, <1>5 DEF LastRequestSays
<1>12. BeginsFollowSessions'
  <2> SUFFICES ASSUME NEW k \in DOMAIN daemonQueue', NEW x, x = daemonQueue'[k], x \in RequestEvents,
                      x.event = "begin", Served(x.what)
               PROVE  Home(x.what) \in daemonSessions' \/ ComesBefore(k, Home(x.what))'
    BY <1>5 DEF BeginsFollowSessions, Home
  <2>1. k \in Nat /\ k + 1 \in DOMAIN daemonQueue /\ x = daemonQueue[k + 1]
    BY <1>3
  <2>2. x.what \in Whats
    BY DEF RequestEvents
  <2>3. Home(x.what) \in daemonSessions \/ ComesBefore(k + 1, Home(x.what))
    BY <2>1 DEF BeginsFollowSessions
  <2>4. ASSUME ComesBefore(k + 1, Home(x.what))
        PROVE  Home(x.what) \in daemonSessions' \/ ComesBefore(k, Home(x.what))'
    <3>1. PICK j \in DOMAIN daemonQueue : j < k + 1 /\ daemonQueue[j] = Activation(Home(x.what), TRUE)
      BY <2>4 DEF ComesBefore
    <3>2. CASE j = 1
      <4>1. e \in Announcements(Home(x.what))
        BY <1>3, <3>1, <3>2 DEF Announcements
      <4> QED BY <1>6, <1>9, <2>2, <4>1
    <3>3. CASE j # 1
      <4>1. j \in Nat /\ j - 1 \in DOMAIN daemonQueue' /\ daemonQueue'[j - 1] = daemonQueue[j]
        BY <1>3, <3>3
      <4>2. j - 1 < k
        BY <2>1, <3>1, <4>1
      <4> QED BY <3>1, <4>1, <4>2 DEF ComesBefore, Home
    <3> QED BY <3>2, <3>3
  <2> QED BY <1>9, <2>2, <2>3, <2>4
<1>13. \A w : NoneIn(daemonQueue', About(w)) => NoneIn(daemonQueue, About(w))
  BY <1>3, <1>4
<1>14. AskedAreHeld'
  <2> SUFFICES ASSUME NEW w \in Whats, Served(w), Asked(w), NoneIn(daemonQueue', About(w))
               PROVE  Home(w) \in daemonSessions' /\ w \in held'[Home(w)]
    BY <1>5 DEF AskedAreHeld, Home
  <2>1. Home(w) \in daemonSessions /\ w \in held[Home(w)]
    BY <1>13 DEF AskedAreHeld
  <2> QED BY <1>9, <2>1
<1>15. ASSUME EndInv PROVE EndInv'
  <2> USE <1>15 DEF EndInv
  <2>1. CallersAreThere'
    BY <1>2 DEF Takes, CallersAreThere
  <2>2. EndsAreRouted'
    BY <1>3, <1>5 DEF EndsAreRouted, Home, WellServed, NamedByItself
  <2>3. EndedAreNotHeld'
    <3> SUFFICES ASSUME NEW w \in Whats, Served(w), ~Asked(w), NoneIn(daemonQueue', About(w)),
                        Home(w) \in daemonSessions', WellServed(w.client)
                 PROVE  w \notin held'[Home(w)]
      BY <1>5 DEF EndedAreNotHeld, Home, WellServed, NamedByItself
    <3>1. Home(w) \in daemonSessions => w \notin held[Home(w)]
      BY <1>13 DEF EndedAreNotHeld
    <3> QED BY <1>9, <3>1
  <2> QED BY <2>1, <2>2, <2>3
<1> QED BY <1>5, <1>7, <1>10, <1>11, <1>12, <1>14, <1>15


-----------------------------------------------------------------------------
(* What the tracker does is one of the tracker's steps.                    *)

trackerKeeps ==
  <<daemonSessions, held, routedTo, keep_display_on_ids, request_sys_state_ids, active_notifications,
    nextIds, wanted>>

\* Of what is announced, no or one event.
LEMMA AnnouncedAlone ==
  ASSUME NEW e \in SessionEvents
  PROVE  /\ <<>> \in Seq(SessionEvents) /\ <<e>> \in Seq(SessionEvents)
         /\ \A K : NoneIn(<<>>, K) /\ (NoneIn(<<e>>, K) <=> e \notin K)
         /\ \A q \in Seq(DaemonEvents) : q = q \o <<>> /\ Append(q, e) = q \o <<e>>
<1>1. e \in DaemonEvents /\ DOMAIN <<e>> = {1} /\ <<e>>[1] = e
  BY DEF DaemonEvents
<1>2. \A q \in Seq(DaemonEvents) : q = q \o <<>> /\ Append(q, e) = q \o <<e>>
  BY <1>1, ConcatEmptySeq, AppendIsConcat
<1> QED BY <1>1, <1>2 DEF NoneIn

\* The tracker announces nothing, and sessions stay as they are.
LEMMA NothingMoves ==
  ASSUME TrackerTyped, UNCHANGED trackerKeeps, UNCHANGED <<tracked_sessions, daemonQueue>>,
         \A s : Gone(s) => Gone(s)'
  PROVE  \E t : Moves(t)
<1>1. \A s : (Known(s)' <=> Known(s)) /\ (IsThere(s)' <=> IsThere(s))
  BY DEF Known, IsThere, Tracked
<1>2. \A s : Ended(s) => Ended(s)'
  BY <1>1 DEF Ended
<1>3. <<>> \in Seq(SessionEvents) /\ \A K : NoneIn(<<>>, K)
  BY DEF NoneIn
<1>4. daemonQueue' = daemonQueue \o <<>>
  BY ConcatEmptySeq DEF TrackerTyped
<1>5. Moves(<<>>)
  BY <1>1, <1>2, <1>3, <1>4 DEF Moves, trackerKeeps
<1> QED BY <1>5

\* It activates a session that has not ended.
LEMMA ActivateMoves ==
  ASSUME TrackerTyped, EntriesAreSessions, UNCHANGED trackerKeeps,
         NEW s \in Sessions, ~Gone(s), activate_session(s), \A x : Gone(x) => Gone(x)'
  PROVE  \E t : Moves(t)
<1>1. PICK c \in (IF s \in Tracked THEN {tracked_sessions[s].compatible} ELSE TypesTold(s)) :
        /\ tracked_sessions' = IF s \in Tracked THEN tracked_sessions
                               ELSE With(tracked_sessions, s, [path |-> s, compatible |-> c])
        /\ active_session_id' = s
        /\ daemonQueue' = IF s = active_session_id THEN daemonQueue
                          ELSE Append(daemonQueue, Activation(s, c))
  BY DEF activate_session
<1>2. c \in BOOLEAN
  <2>1. s \in Tracked => tracked_sessions[s].compatible \in BOOLEAN
    BY DEF TrackerTyped
  <2> QED BY <1>1, <2>1 DEF TypesTold
<1>3. s # InvalidSession
  BY NoSession
<1>4. PICK e : e = Activation(s, c)
  OBVIOUS
<1>5. e \in SessionEvents /\ (e \in Announcements(s) <=> c = TRUE)
      /\ (\A x : x # s => e \notin Announcements(x)) /\ \A x : e \notin Removals(x)
  BY <1>2, <1>4 DEF SessionEvents, AnySession, Activation, Announcements, Removals, Removal
<1>6. /\ <<>> \in Seq(SessionEvents) /\ <<e>> \in Seq(SessionEvents)
      /\ \A K : NoneIn(<<>>, K) /\ (NoneIn(<<e>>, K) <=> e \notin K)
      /\ daemonQueue = daemonQueue \o <<>> /\ Append(daemonQueue, e) = daemonQueue \o <<e>>
  BY <1>5, AnnouncedAlone DEF TrackerTyped
<1>7. CASE s \in Tracked
  <2>1. tracked_sessions[s].path = s /\ c = tracked_sessions[s].compatible
    BY <1>1, <1>7 DEF EntriesAreSessions
  <2>2. \A x : (Known(x)' <=> Known(x)) /\ (IsThere(x)' <=> IsThere(x))
    BY <1>1, <1>7 DEF Known, IsThere, Tracked
  <2>3. \A x : Ended(x) => Ended(x)'
    BY <2>2 DEF Ended
  <2>4. c = TRUE => IsThere(s)
    BY <1>3, <1>7, <2>1 DEF IsThere
  <2>5. CASE s = active_session_id
    <3>1. Moves(<<>>)
      BY <1>1, <1>6, <2>2, <2>3, <2>5 DEF Moves, trackerKeeps
    <3> QED BY <3>1
  <2>6. CASE s # active_session_id
    <3>1. daemonQueue' = daemonQueue \o <<e>>
      BY <1>1, <1>4, <1>6, <2>6
    <3>2. \A x : ~NoneIn(<<e>>, Announcements(x)) => IsThere(x)'
      BY <1>5, <1>6, <2>2, <2>4
    <3>3. \A x : NoneIn(<<e>>, Removals(x))
      BY <1>5, <1>6
    <3>4. Moves(<<e>>)
      BY <1>6, <2>2, <2>3, <3>1, <3>2, <3>3 DEF Moves, trackerKeeps
    <3> QED BY <3>4
  <2> QED BY <2>5, <2>6
<1>8. CASE s \notin Tracked
  <2>1. s # active_session_id
    BY <1>3, <1>8 DEF EntriesAreSessions
  <2>2. daemonQueue' = daemonQueue \o <<e>>
    BY <1>1, <1>4, <1>6, <2>1
  <2>3. /\ Tracked' = Tracked \cup {s} /\ tracked_sessions'[s] = [path |-> s, compatible |-> c]
        /\ \A x \in Tracked : tracked_sessions'[x] = tracked_sessions[x]
    BY <1>1, <1>8 DEF With, Tracked
  <2>4. /\ \A x : x # s => (Known(x)' <=> Known(x)) /\ (IsThere(x)' <=> IsThere(x))
        /\ ~Known(s) /\ ~IsThere(s) /\ ~Ended(s) /\ Known(s)'
        /\ IsThere(s)' <=> c = TRUE
    <3>1. ASSUME NEW x, x # s PROVE (Known(x)' <=> Known(x)) /\ (IsThere(x)' <=> IsThere(x))
      BY <2>3, <3>1 DEF Known, IsThere
    <3>2. ~Known(s) /\ ~IsThere(s) /\ ~Ended(s)
      BY <1>8 DEF Known, IsThere, Ended
    <3>3. Known(s)'
      BY <1>3, <2>3 DEF Known
    <3>4. IsThere(s)' <=> tracked_sessions'[s].compatible
      BY <1>3, <2>3 DEF IsThere
    <3>5. tracked_sessions'[s].compatible = c
      BY <2>3
    <3> QED BY <1>2, <3>1, <3>2, <3>3, <3>4, <3>5
  <2>5. \A x : Ended(x) => Ended(x)'
    BY <2>4 DEF Ended
  <2>6. \A x : ~NoneIn(<<e>>, Announcements(x)) <=> x = s /\ c = TRUE
    BY <1>5, <1>6
  <2>7. \A x : NoneIn(<<e>>, Removals(x))
    BY <1>5, <1>6
  <2>8. Moves(<<e>>)
    BY <1>6, <2>2, <2>4, <2>5, <2>6, <2>7 DEF Moves, trackerKeeps
  <2> QED BY <2>8
<1> QED BY <1>7, <1>8

\* It says that none is in front.
LEMMA DeactivateMoves ==
  ASSUME TrackerTyped, UNCHANGED trackerKeeps, deactivate_session, \A x : Gone(x) => Gone(x)'
  PROVE  \E t : Moves(t)
<1>1. PICK e : e = Activation(InvalidSession, FALSE)
  OBVIOUS
<1>2. e \in SessionEvents /\ \A x : e \notin Announcements(x) /\ e \notin Removals(x)
  BY <1>1 DEF SessionEvents, AnySession, Activation, Announcements, Removals, Removal
<1>3. /\ <<e>> \in Seq(SessionEvents) /\ \A x : NoneIn(<<e>>, Announcements(x)) /\ NoneIn(<<e>>, Removals(x))
      /\ Append(daemonQueue, e) = daemonQueue \o <<e>>
  BY <1>2, AnnouncedAlone DEF TrackerTyped
<1>4. UNCHANGED tracked_sessions /\ (UNCHANGED daemonQueue \/ daemonQueue' = Append(daemonQueue, e))
  BY <1>1 DEF deactivate_session
<1>5. CASE UNCHANGED daemonQueue
  BY <1>4, <1>5, NothingMoves
<1>6. CASE daemonQueue' = Append(daemonQueue, e)
  <2>1. \A x : (Known(x)' <=> Known(x)) /\ (IsThere(x)' <=> IsThere(x))
    BY <1>4 DEF Known, IsThere, Tracked
  <2>2. \A x : Ended(x) => Ended(x)'
    BY <2>1 DEF Ended
  <2>3. Moves(<<e>>)
    BY <1>3, <1>6, <2>1, <2>2 DEF Moves, trackerKeeps
  <2> QED BY <2>3
<1> QED BY <1>4, <1>5, <1>6

\* It removes a session that has ended.
LEMMA RemoveMoves ==
  ASSUME TrackerTyped, UNCHANGED trackerKeeps, NEW s \in Sessions, remove_session(s), Gone(s)',
         \A x : Gone(x) => Gone(x)'
  PROVE  \E t : Moves(t)
<1>1. /\ tracked_sessions' = Restrict(tracked_sessions, Tracked \ {s})
      /\ daemonQueue' = IF s \in Tracked THEN Append(daemonQueue, Removal(s)) ELSE daemonQueue
  BY DEF remove_session
<1>2. Tracked' = Tracked \ {s} /\ \A t \in Tracked' : tracked_sessions'[t] = tracked_sessions[t]
  BY <1>1 DEF Restrict, Tracked
<1>3. PICK e : e = Removal(s)
  OBVIOUS
<1>4. /\ e \in SessionEvents /\ e \in Removals(s) /\ \A x : e \notin Announcements(x)
      /\ \A x : x # s => e \notin Removals(x)
  BY <1>3 DEF SessionEvents, AnySession, Activation, Announcements, Removals, Removal
<1>5. /\ <<>> \in Seq(SessionEvents) /\ <<e>> \in Seq(SessionEvents)
      /\ \A K : NoneIn(<<>>, K) /\ (NoneIn(<<e>>, K) <=> e \notin K)
      /\ daemonQueue = daemonQueue \o <<>> /\ Append(daemonQueue, e) = daemonQueue \o <<e>>
  BY <1>4, AnnouncedAlone DEF TrackerTyped
<1>6. /\ \A x : x # s => (Known(x)' <=> Known(x)) /\ (IsThere(x)' <=> IsThere(x))
      /\ ~Known(s)' /\ ~IsThere(s)' /\ Ended(s)'
  BY <1>2 DEF Known, IsThere, Ended
<1>7. \A x : Ended(x) => Ended(x)'
  BY <1>6 DEF Ended
<1>8. CASE s \in Tracked
  <2>1. \A x : NoneIn(<<e>>, Announcements(x)) /\ (~NoneIn(<<e>>, Removals(x)) <=> x = s)
    BY <1>4, <1>5
  <2>2. daemonQueue' = daemonQueue \o <<e>>
    BY <1>1, <1>3, <1>5, <1>8
  <2>3. Moves(<<e>>)
    BY <1>5, <1>6, <1>7, <2>1, <2>2 DEF Moves, trackerKeeps
  <2> QED BY <2>3
<1>9. CASE s \notin Tracked
  <2>1. ~IsThere(s) /\ ~Known(s)
    BY <1>9 DEF IsThere, Known
  <2>2. Moves(<<>>)
    BY <1>1, <1>5, <1>6, <1>7, <1>9, <2>1 DEF Moves, trackerKeeps
  <2> QED BY <2>2
<1> QED BY <1>8, <1>9

\* Every step of logind and the tracker.
LEMMA TrackerMoves ==
  ASSUME TrackerInv, LogindOrTracker
  PROVE  \E t : Moves(t)
<1> USE DEF TrackerInv
<1>1. UNCHANGED <<held, routedTo, keep_display_on_ids, request_sys_state_ids, active_notifications, nextIds,
                  wanted>>
  BY DEF LogindOrTracker, serviceVars
<1>2. CASE SwitchSeat \/ EndSession
  <2>1. UNCHANGED <<tracked_sessions, daemonQueue, daemonSessions>>
    BY <1>2 DEF SwitchSeat, EndSession, trackerVars, daemonVars
  <2>2. \A s : Gone(s) => Gone(s)'
    BY <1>2, SwitchSeatKeeps, EndSessionKeeps
  <2> QED BY <1>1, <2>1, <2>2, NothingMoves DEF trackerKeeps
<1>3. CASE StartTracker
  <2>1. UNCHANGED <<tracked_sessions, daemonQueue, daemonSessions, loggedOut, seatSignals>>
    BY <1>3 DEF StartTracker, logindVars, daemonVars
  <2>2. \A s : Gone(s) => Gone(s)'
    BY <2>1 DEF Gone, IsActive
  <2> QED BY <1>1, <2>1, <2>2, NothingMoves DEF trackerKeeps
<1>4. CASE SetInitialActiveSession
  <2>1. PICK s \in {seatActive, "no answer"} :
          IF s \in {InvalidSession, "no answer"}
          THEN UNCHANGED <<tracked_sessions, active_session_id, daemonQueue>>
          ELSE activate_session(s)
    BY <1>4 DEF SetInitialActiveSession, dbus_get_active_session
  <2>2. UNCHANGED <<daemonSessions, loggedOut, seatSignals>>
    BY <1>4 DEF SetInitialActiveSession, logindVars
  <2>3. \A x : Gone(x) => Gone(x)'
    BY <2>2 DEF Gone, IsActive
  <2>4. UNCHANGED trackerKeeps
    BY <1>1, <2>2 DEF trackerKeeps
  <2>5. CASE s \in {InvalidSession, "no answer"}
    BY <2>1, <2>3, <2>4, <2>5, NothingMoves
  <2>6. CASE s \notin {InvalidSession, "no answer"}
    <3>1. s \in Sessions /\ activate_session(s) /\ ~Gone(s)
      BY <2>1, <2>6 DEF TrackerTyped, AnySession, SignalsAreInOrder, Gone
    <3> QED BY <2>3, <2>4, <3>1, ActivateMoves
  <2> QED BY <2>5, <2>6
<1>5. CASE HandleSeatSignal
  <2>1. /\ trackerPhase # "stopped" /\ seatSignals # <<>> /\ seatSignals' = Tail(seatSignals)
        /\ UNCHANGED <<loggedOut, seatActive, daemonSessions>>
    BY <1>5 DEF HandleSeatSignal, logindVars
  <2>2. PICK m : m = Head(seatSignals)
    OBVIOUS
  <2>3. IF m.signal = "ActiveSession"
        THEN /\ handle_dbus_change_seat_properties(m.session)
             /\ trackerPhase' = IF trackerPhase = "unanswered" THEN "started" ELSE trackerPhase
        ELSE remove_session(m.session) /\ UNCHANGED trackerPhase
    BY <1>5, <2>2 DEF HandleSeatSignal
  <2>4. trackerPhase' # "stopped"
    BY <2>1, <2>3
  <2>5. /\ m = seatSignals[1] /\ m \in SeatSignals /\ 1 \in DOMAIN seatSignals
        /\ \A s : Gone(s) => Gone(s)'
        /\ m.signal = "SessionRemoved" => Gone(m.session)' /\ m.session \in loggedOut
    <3>1. /\ m = seatSignals[1] /\ m \in SeatSignals /\ 1 \in DOMAIN seatSignals
          /\ \A s : Gone(s) => Gone(s)'
          /\ \A s : IsRemoved(1) /\ seatSignals[1].session = s => Gone(s)'
      BY <2>1, <2>2, <2>4, SignalTaken
    <3>2. PICK s : s = m.session
      OBVIOUS
    <3>3. m.signal = "SessionRemoved" => Gone(s)'
      BY <3>1, <3>2 DEF IsRemoved
    <3>4. m.signal = "SessionRemoved" => s \in loggedOut
      BY <3>1, <3>2 DEF IsRemoved, SignalsAreInOrder
    <3> QED BY <3>1, <3>2, <3>3, <3>4 DEF Gone
  <2>6. UNCHANGED trackerKeeps
    BY <1>1, <2>1 DEF trackerKeeps
  <2>7. PICK s : s = m.session
    OBVIOUS
  <2>8. s \in AnySession /\ m.signal \in {"ActiveSession", "SessionRemoved"}
    BY <2>5, <2>7 DEF SeatSignals
  <2>9. CASE m.signal = "ActiveSession" /\ s = InvalidSession
    <3>1. deactivate_session
      BY <2>3, <2>7, <2>9 DEF handle_dbus_change_seat_properties
    <3> QED BY <2>5, <2>6, <3>1, DeactivateMoves
  <2>10. CASE m.signal = "ActiveSession" /\ s # InvalidSession
    <3>1. activate_session(s) /\ s \in Sessions
      BY <2>3, <2>7, <2>8, <2>10 DEF handle_dbus_change_seat_properties, AnySession
    <3>2. ~Gone(s)
      BY <2>5, <2>7, <2>10 DEF Gone, IsActive
    <3> QED BY <2>5, <2>6, <3>1, <3>2, ActivateMoves
  <2>11. CASE m.signal = "SessionRemoved"
    <3>1. remove_session(s) /\ s \in loggedOut /\ loggedOut \subseteq Sessions
      BY <2>3, <2>5, <2>7, <2>11 DEF TrackerTyped
    <3>2. Gone(s)'
      BY <2>5, <2>7, <2>11 DEF Gone
    <3> QED BY <2>5, <2>6, <3>1, <3>2, RemoveMoves
  <2> QED BY <2>8, <2>9, <2>10, <2>11
<1> QED BY <1>2, <1>3, <1>4, <1>5 DEF LogindOrTracker, TrackerNext


-----------------------------------------------------------------------------
(* What the service does is one of the service's steps.                    *)

\* All elements of a finite set are put in the sequence.
LEMMA SetToSeqHasAll ==
  ASSUME NEW S, IsFiniteSet(S), NEW x \in S
  PROVE  \E k \in DOMAIN SetToSeq(S) : SetToSeq(S)[k] = x
<1>1. PICK n : n = Cardinality(S)
  OBVIOUS
<1>2. n \in Nat
  BY <1>1, FS_CardinalityType
<1>3. PICK f \in [1 .. n -> S] : IsInjective(f)
  BY <1>1, FS_CardinalityType DEF ExistsBijection, Bijection, Injection
<1>4. SetToSeq(S) \in [1 .. n -> S] /\ IsInjective(SetToSeq(S))
  BY <1>1, <1>3 DEF SetToSeq
<1>5. Cardinality(1 .. n) = n
  BY <1>2, FS_Interval
<1>6. SetToSeq(S) \in Surjection(1 .. n, S)
  BY <1>1, <1>4, <1>5, FS_Injection DEF Injection
<1> QED BY <1>4, <1>6 DEF Surjection

\* What ends when a client leaves is all that it asked for, and no more.
LEMMA AskedByHasAll ==
  ASSUME TablesTyped, NEW c \in Clients, NEW w \in Whats
  PROVE  /\ AskedBy(c) \in Seq(Whats)
         /\ (\E k \in DOMAIN AskedBy(c) : AskedBy(c)[k] = w) <=> Asked(w) /\ w.client = c
<1> DEFINE a == SetToSeq(Owned(keep_display_on_ids, c))
           b == SetToSeq(Owned(request_sys_state_ids, c))
           n == active_notifications[c]
<1>1. ASSUME NEW f, IsFiniteSet(DOMAIN f), DOMAIN f \subseteq Nat
      PROVE  /\ SetToSeq(Owned(f, c)) \in Seq(Nat)
             /\ \A i : (\E k \in DOMAIN SetToSeq(Owned(f, c)) : SetToSeq(Owned(f, c))[k] = i)
                         <=> i \in Owned(f, c)
  <2>1. Owned(f, c) \in SUBSET DOMAIN f
    BY DEF Owned
  <2>2. IsFiniteSet(Owned(f, c))
    BY <1>1, <2>1, FS_Subset
  <2>3. SetToSeq(Owned(f, c)) \in Seq(Owned(f, c))
    BY <2>2, SetToSeqType
  <2>4. \A i \in Owned(f, c) : \E k \in DOMAIN SetToSeq(Owned(f, c)) : SetToSeq(Owned(f, c))[k] = i
    BY <2>2, SetToSeqHasAll
  <2>5. \A k \in DOMAIN SetToSeq(Owned(f, c)) : SetToSeq(Owned(f, c))[k] \in Owned(f, c)
    BY <2>3
  <2>6. SetToSeq(Owned(f, c)) \in Seq(Nat)
    BY <1>1, <2>1, <2>3
  <2> QED BY <2>4, <2>5, <2>6
<1>2. /\ a \in Seq(Nat) /\ \A i : (\E k \in DOMAIN a : a[k] = i) <=> i \in Owned(keep_display_on_ids, c)
      /\ b \in Seq(Nat) /\ \A i : (\E k \in DOMAIN b : b[k] = i) <=> i \in Owned(request_sys_state_ids, c)
      /\ n \in Nat
  BY <1>1 DEF TablesTyped
<1> DEFINE A == [k \in DOMAIN a |-> What("inactivity", c, a[k])]
           B == [k \in DOMAIN b |-> What("suspend", c, b[k])]
           N == [k \in 1 .. n |-> What("notification", c, k - 1)]
<1>3. AskedBy(c) = A \o B \o N
  BY DEF AskedBy
<1>4. Asked(w) /\ w.client = c <=>
        /\ w.client = c
        /\ \/ w.kind = "inactivity" /\ w.id \in Owned(keep_display_on_ids, c)
           \/ w.kind = "suspend" /\ w.id \in Owned(request_sys_state_ids, c)
           \/ w.kind = "notification" /\ w.id < n
  BY DEF Asked
<1>5. /\ w.id \in Nat
      /\ \A kind, i : What(kind, c, i) = w <=> w.client = c /\ w.kind = kind /\ w.id = i
  BY DEF What, Whats
<1> HIDE DEF a, b, n
<1>6. A \in Seq(Whats)
  <2>1. DOMAIN a = 1 .. Len(a) /\ Len(a) \in Nat /\ \A k \in DOMAIN a : a[k] \in Nat
    BY <1>2
  <2>2. \A k \in DOMAIN a : What("inactivity", c, a[k]) \in Whats
    BY <2>1 DEF What, Whats
  <2> QED BY <2>1, <2>2
<1>7. B \in Seq(Whats)
  <2>1. DOMAIN b = 1 .. Len(b) /\ Len(b) \in Nat /\ \A k \in DOMAIN b : b[k] \in Nat
    BY <1>2
  <2>2. \A k \in DOMAIN b : What("suspend", c, b[k]) \in Whats
    BY <2>1 DEF What, Whats
  <2> QED BY <2>1, <2>2
<1>8. N \in Seq(Whats)
  <2>1. \A k \in 1 .. n : k - 1 \in Nat
    BY <1>2
  <2>2. \A k \in 1 .. n : What("notification", c, k - 1) \in Whats
    BY <2>1 DEF What, Whats
  <2>3. N \in [1 .. n -> Whats] /\ n \in Nat
    BY <1>2, <2>2
  <2> HIDE DEF N
  <2> QED BY <2>3
<1>9. (\E k \in DOMAIN A : A[k] = w) <=>
        w.client = c /\ w.kind = "inactivity" /\ w.id \in Owned(keep_display_on_ids, c)
  <2>1. (\E k \in DOMAIN A : A[k] = w) <=>
          w.client = c /\ w.kind = "inactivity" /\ \E k \in DOMAIN a : a[k] = w.id
    BY <1>5
  <2> QED BY <1>2, <2>1
<1>10. (\E k \in DOMAIN B : B[k] = w) <=>
         w.client = c /\ w.kind = "suspend" /\ w.id \in Owned(request_sys_state_ids, c)
  <2>1. (\E k \in DOMAIN B : B[k] = w) <=>
          w.client = c /\ w.kind = "suspend" /\ \E k \in DOMAIN b : b[k] = w.id
    BY <1>5
  <2> QED BY <1>2, <2>1
<1>11. (\E k \in DOMAIN N : N[k] = w) <=> w.client = c /\ w.kind = "notification" /\ w.id < n
  <2>1. (\E k \in DOMAIN N : N[k] = w) <=>
          w.client = c /\ w.kind = "notification" /\ \E k \in 1 .. n : k - 1 = w.id
    BY <1>5
  <2>2. (\E k \in 1 .. n : k - 1 = w.id) <=> w.id < n
    <3>1. w.id < n => w.id + 1 \in 1 .. n /\ (w.id + 1) - 1 = w.id
      BY <1>2, <1>5
    <3>2. \A k \in 1 .. n : k - 1 = w.id => w.id < n
      BY <1>2
    <3> QED BY <3>1, <3>2
  <2> QED BY <2>1, <2>2
<1> HIDE DEF A, B, N
<1>12. AskedBy(c) \in Seq(Whats)
  BY <1>3, <1>6, <1>7, <1>8
<1>13. PICK p, q, r : p = A /\ q = B /\ r = N
  OBVIOUS
<1>14. p \in Seq(Whats) /\ q \in Seq(Whats) /\ r \in Seq(Whats)
  BY <1>6, <1>7, <1>8, <1>13
<1>15. Range(p \o q \o r) = Range(p) \cup Range(q) \cup Range(r)
  <2>1. p \o q \in Seq(Whats) /\ Range(p \o q) = Range(p) \cup Range(q)
    BY <1>14, Joined
  <2>2. PICK u : u = p \o q
    OBVIOUS
  <2>3. u \in Seq(Whats)
    BY <2>1, <2>2
  <2>4. Range(u \o r) = Range(u) \cup Range(r)
    BY <1>14, <2>3, Joined
  <2> QED BY <2>1, <2>2, <2>4
<1>16. AskedBy(c) = p \o q \o r
  BY <1>3, <1>13
<1>17. \A v : w \in Range(v) <=> \E k \in DOMAIN v : v[k] = w
  BY DEF Range
<1>18. (\E k \in DOMAIN AskedBy(c) : AskedBy(c)[k] = w) <=>
         \/ \E k \in DOMAIN p : p[k] = w
         \/ \E k \in DOMAIN q : q[k] = w
         \/ \E k \in DOMAIN r : r[k] = w
  <2>1. w \in Range(AskedBy(c)) <=> w \in Range(p) \/ w \in Range(q) \/ w \in Range(r)
    BY <1>15, <1>16
  <2> QED BY <1>17, <2>1
<1> QED BY <1>4, <1>9, <1>10, <1>11, <1>12, <1>13, <1>18


\* A lookup changes nothing that is said of sessions.
LEMMA LookupStays ==
  ASSUME TrackerInv, OnlyLooksUp, UNCHANGED serviceKeeps
  PROVE  SessionsStay
<1>1. UNCHANGED <<loggedOut, seatSignals, active_session_id>>
  BY DEF serviceKeeps, logindVars
<1>2. /\ Tracked \subseteq Tracked'
      /\ \A s \in Tracked' :
           IF s \in Tracked THEN tracked_sessions'[s] = tracked_sessions[s]
           ELSE tracked_sessions'[s].path = InvalidSession
  <2>1. PICK path : tracked_sessions' \in {tracked_sessions, TrackedAfterLookup(path)}
    BY DEF OnlyLooksUp
  <2> QED BY <1>1, <2>1, LookupFollows DEF TrackerInv
<1>3. \A s : Known(s)' <=> Known(s)
  BY <1>2 DEF Known
<1>4. \A s : IsThere(s)' <=> IsThere(s)
  BY <1>2 DEF IsThere
<1>5. \A s : Gone(s)' <=> Gone(s)
  BY <1>1 DEF Gone, IsActive
<1> QED BY <1>3, <1>4, <1>5 DEF SessionsStay

\* The daemon's sessions are known or have ended, but for the null session.
LEMMA SessionsOfDaemon ==
  ASSUME TrackerTyped, SessionsFollow, NEW s \in daemonSessions
  PROVE  s = InvalidSession \/ Known(s) \/ Ended(s)
<1>1. daemonQueue \in Seq(DaemonEvents) /\ s \in AnySession
  BY DEF TrackerTyped
<1>2. CASE s \in Sessions /\ NoneIn(daemonQueue, EventsOf(s))
  BY <1>2 DEF SessionsFollow, IsThere, Known
<1>3. CASE s \in Sessions /\ ~NoneIn(daemonQueue, EventsOf(s))
  <2>1. PICK e \in EventsOf(s) : LastIn(daemonQueue, EventsOf(s), e)
    BY <1>1, <1>3, LastExists DEF LastIn
  <2>2. CASE e = Activation(s, TRUE)
    BY <1>3, <2>1, <2>2 DEF SessionsFollow, IsThere, Known
  <2>3. CASE e = Removal(s)
    <3>1. ~NoneIn(daemonQueue, Removals(s))
      BY <2>1, <2>3 DEF NoneIn, LastIn, Removals
    <3> QED BY <1>3, <3>1 DEF SessionsFollow
  <2> QED BY <2>1, <2>2, <2>3 DEF EventsOf, Announcements, Removals
<1> QED BY <1>1, <1>2, <1>3 DEF AnySession

\* The sessions found for a process are known or have ended, or are none; that
\* of a client is among them where it is there and the client is on the bus.
LEMMA SessionsFound ==
  ASSUME TrackerInv, SessionsFollow, NEW pid, NEW e, NEW what, QueuedFor(pid, e, what)
  PROVE  \E S : /\ EventQueued(e, what, S) /\ OnlyLooksUp
                /\ S # {} /\ S \subseteq AnySession
                /\ \A s \in S : s = InvalidSession \/ Known(s) \/ Ended(s)
                /\ pid \in onBus \cap AnsweredClients /\ pid \in Clients
                   /\ IsThere(SessionOf[pid]) /\ SessionOf[pid] # InvalidSession
                   => SessionOf[pid] \in S
<1> USE DEF TrackerInv
<1>1. CASE pid = EveryProcess
  <2>1. EventQueued(e, what, daemonSessions) /\ UNCHANGED tracked_sessions
    BY <1>1 DEF QueuedFor
  <2>2. daemonSessions # {} /\ daemonSessions \subseteq AnySession
    BY DEF TrackerTyped
  <2>3. \A s \in daemonSessions : s = InvalidSession \/ Known(s) \/ Ended(s)
    BY SessionsOfDaemon
  <2>4. pid \notin Clients
    BY <1>1, ScreenServiceAssumption
  <2> QED BY <2>1, <2>2, <2>3, <2>4 DEF OnlyLooksUp
<1>2. CASE pid # EveryProcess
  <2>1. PICK path \in dbus_get_session_path_by_pid(pid), user \in euid_of_pid(pid) :
          /\ \E s \in session_for_pid(path, user) : EventQueued(e, what, {s})
          /\ tracked_sessions' = TrackedAfterLookup(path)
    BY <1>2 DEF QueuedFor
  <2>2. PICK s \in session_for_pid(path, user) : EventQueued(e, what, {s})
    BY <2>1
  <2>3. s \in SessionOfPath(path) \/ (SessionOfPath(path) = {} /\ s \in {active_session_id, InvalidSession})
    BY <2>2 DEF session_for_pid
  <2>4. s \in SessionOfPath(path) => Known(s)
    BY DEF SessionOfPath, Known
  <2>5. s = active_session_id => s = InvalidSession \/ Known(s) \/ Ended(s)
    BY DEF EntriesAreSessions, Known, Ended
  <2>6. s \in AnySession
    BY <2>3 DEF SessionOfPath, TrackerTyped, AnySession
  <2>7. ASSUME pid \in onBus \cap AnsweredClients, pid \in Clients,
               NEW h, h = SessionOf[pid], IsThere(h), h # InvalidSession
        PROVE  s = h
    <3>1. path = h
      BY <2>1, <2>7 DEF dbus_get_session_path_by_pid
    <3>2. tracked_sessions[h].path = h /\ h \in Tracked
      BY <2>7 DEF EntriesAreSessions, IsThere
    <3>3. h \in SessionOfPath(path)
      BY <2>7, <3>1, <3>2 DEF SessionOfPath
    <3>4. \A x \in SessionOfPath(path) : x = h
      BY <2>7, <3>1 DEF SessionOfPath, EntriesAreSessions
    <3> QED BY <2>3, <3>3, <3>4
  <2>8. OnlyLooksUp
    BY <2>1 DEF OnlyLooksUp
  <2> QED BY <2>2, <2>3, <2>4, <2>5, <2>6, <2>7, <2>8
<1> QED BY <1>1, <1>2

\* The service queues something about a client's request.
LEMMA QueuedServes ==
  ASSUME TrackerInv, SessionsFollow, RequestsAreRouted, NEW c \in Clients, NEW pid,
         NEW e \in {"begin", "end"}, NEW what \in Whats, what.client = c,
         QueuedFor(pid, e, what), UNCHANGED serviceKeeps, UNCHANGED held,
         \A w \in Whats \ {what} : Asked(w)' <=> Asked(w),
         e = "begin" <=> Asked(what)', e = "end" => Asked(what)
  PROVE  \E t : Serves(t) /\ OnlyOf(t, c) /\ (Reached(c, pid) => EndsReachHome(t))
<1> USE DEF TrackerInv
<1>1. PICK S : /\ EventQueued(e, what, S) /\ OnlyLooksUp
               /\ S # {} /\ S \subseteq AnySession
               /\ \A s \in S : s = InvalidSession \/ Known(s) \/ Ended(s)
               /\ pid \in onBus \cap AnsweredClients /\ pid \in Clients
                  /\ IsThere(SessionOf[pid]) /\ SessionOf[pid] # InvalidSession
                  => SessionOf[pid] \in S
  BY SessionsFound
<1>2. /\ daemonQueue' = Append(daemonQueue, Event(e, what, S))
      /\ routedTo' = IF e = "begin" THEN With(routedTo, what, RoutedTo(what) \cup S) ELSE routedTo
  BY <1>1 DEF EventQueued
<1>4. SessionsStay
  BY <1>1, LookupStays
<1>5. PICK v : v = Event(e, what, S)
  OBVIOUS
<1>6. v \in RequestEvents /\ v.event = e /\ v.what = what /\ v.sessions = S
  BY <1>1, <1>5 DEF Event, RequestEvents
<1>7. PICK t : t = <<v>>
  OBVIOUS
<1>8. t \in Seq(RequestEvents) /\ DOMAIN t = {1} /\ t[1] = v
  BY <1>6, <1>7
<1>9. daemonQueue' = daemonQueue \o t
  <2>1. daemonQueue \in Seq(DaemonEvents) /\ v \in DaemonEvents
    BY <1>6 DEF TrackerTyped, DaemonEvents
  <2>2. daemonQueue' = Append(daemonQueue, v)
    BY <1>2, <1>5
  <2> QED BY <1>7, <2>1, <2>2, AppendJoins
<1>10. UNCHANGED <<daemonSessions, held>>
  BY DEF serviceKeeps
<1>11. \A w \in Whats : NoneIn(t, About(w)) <=> w # what
  BY <1>6, <1>8 DEF NoneIn, About
<1>12. /\ DOMAIN routedTo' = DOMAIN routedTo \cup {what}
       /\ \A w \in DOMAIN routedTo : w # what => routedTo'[w] = routedTo[w]
       /\ e = "begin" => S \subseteq routedTo'[what]
       /\ what \in DOMAIN routedTo => routedTo[what] \subseteq routedTo'[what]
       /\ routedTo'[what] # {}
       /\ \A x \in routedTo'[what] : x \in S \/ x \in RoutedTo(what)
  <2>1. CASE e = "begin"
    <3>1. routedTo' = [w \in DOMAIN routedTo \cup {what} |->
                         IF w = what THEN RoutedTo(what) \cup S ELSE routedTo[w]]
      BY <1>2, <2>1 DEF With
    <3>2. what \in DOMAIN routedTo => RoutedTo(what) = routedTo[what]
      BY DEF RoutedTo
    <3> QED BY <1>1, <3>1, <3>2
  <2>2. CASE e = "end"
    <3>1. routedTo' = routedTo /\ what \in DOMAIN routedTo
      BY <1>2, <2>2 DEF RequestsAreRouted
    <3> QED BY <2>2, <3>1 DEF RoutedTo, RequestsAreRouted
  <2> QED BY <2>1, <2>2
<1>13. \A w \in DOMAIN routedTo' :
         routedTo'[w] # {} /\ \A x \in routedTo'[w] : x = InvalidSession \/ Known(x) \/ Ended(x)
  <2>1. ASSUME NEW w \in DOMAIN routedTo', w # what
        PROVE  routedTo'[w] # {} /\ \A x \in routedTo'[w] : x = InvalidSession \/ Known(x) \/ Ended(x)
    BY <1>12, <2>1 DEF RequestsAreRouted
  <2>2. \A x \in RoutedTo(what) : x = InvalidSession \/ Known(x) \/ Ended(x)
    BY DEF RoutedTo, RequestsAreRouted
  <2>3. \A x \in routedTo'[what] : x = InvalidSession \/ Known(x) \/ Ended(x)
    BY <1>1, <1>12, <2>2
  <2> QED BY <1>12, <2>1, <2>3
<1>14. DOMAIN routedTo' \subseteq Whats /\ DOMAIN routedTo \subseteq DOMAIN routedTo'
  BY <1>12 DEF RequestsAreRouted
<1>15. \A w \in DOMAIN routedTo : routedTo[w] \subseteq routedTo'[w]
  BY <1>12
<1>16. \A w \in Whats : NoneIn(t, About(w)) =>
         /\ Asked(w)' <=> Asked(w)
         /\ w \in DOMAIN routedTo' => w \in DOMAIN routedTo /\ routedTo'[w] = routedTo[w]
  BY <1>11, <1>12
<1>17. Asked(v.what)' <=> Asked(what)'
  BY <1>6 DEF Asked, Owned
<1>18. \A k \in DOMAIN t :
         /\ t[k].event = "begin" <=> Asked(t[k].what)'
         /\ t[k].what \in DOMAIN routedTo'
         /\ t[k].event = "begin" => t[k].sessions # {} /\ t[k].sessions \subseteq routedTo'[t[k].what]
  <2> SUFFICES ASSUME NEW k \in DOMAIN t
               PROVE  /\ t[k].event = "begin" <=> Asked(t[k].what)'
                      /\ t[k].what \in DOMAIN routedTo'
                      /\ t[k].event = "begin" => t[k].sessions # {} /\ t[k].sessions \subseteq routedTo'[t[k].what]
    OBVIOUS
  <2>1. t[k] = v
    BY <1>8
  <2>2. Asked(t[k].what)' <=> Asked(v.what)'
    BY <2>1 DEF Asked, Owned
  <2> QED BY <1>1, <1>6, <1>12, <1>17, <2>1, <2>2
<1>19. Serves(t)
  BY <1>4, <1>8, <1>9, <1>10, <1>13, <1>14, <1>15, <1>16, <1>18 DEF Serves
<1>20. Reached(c, pid) => EndsReachHome(t)
  BY <1>1, <1>6, <1>8 DEF EndsReachHome, Home, Reached
<1>21. OnlyOf(t, c)
  BY <1>6, <1>8 DEF OnlyOf
<1> QED BY <1>19, <1>20, <1>21


\* The service queues nothing, and its tables stay.
LEMMA NothingServes ==
  ASSUME TrackerInv, RequestsAreRouted,
         UNCHANGED <<tracked_sessions, loggedOut, seatSignals, daemonQueue, daemonSessions, held, routedTo,
                     keep_display_on_ids, request_sys_state_ids, active_notifications>>
  PROVE  Serves(<<>>) /\ EndsReachHome(<<>>) /\ \A c : OnlyOf(<<>>, c)
<1>1. daemonQueue' = daemonQueue \o <<>> /\ <<>> \in Seq(RequestEvents) /\ DOMAIN <<>> = {}
  <2>1. daemonQueue \in Seq(DaemonEvents)
    BY DEF TrackerInv, TrackerTyped
  <2> QED BY <2>1
<1>2. SessionsStay
  BY DEF SessionsStay, Known, IsThere, Gone, IsActive, Tracked
<1>3. \A w : Asked(w)' <=> Asked(w)
  BY DEF Asked, Owned
<1>4. /\ DOMAIN routedTo' \subseteq Whats /\ DOMAIN routedTo \subseteq DOMAIN routedTo'
      /\ \A w \in DOMAIN routedTo : routedTo[w] \subseteq routedTo'[w]
      /\ \A w \in DOMAIN routedTo' :
           routedTo'[w] # {} /\ \A s \in routedTo'[w] : s = InvalidSession \/ Known(s) \/ Ended(s)
  BY DEF RequestsAreRouted
<1>5. Serves(<<>>)
  BY <1>1, <1>2, <1>3, <1>4 DEF Serves
<1> QED BY <1>1, <1>5 DEF EndsReachHome, OnlyOf

\* Whose the requests of a table are, when one is added with a new id.
LEMMA OwnersGrow ==
  ASSUME NEW f, DOMAIN f \subseteq Nat, NEW n \in Nat, \A i \in DOMAIN f : i < n, NEW c
  PROVE  /\ \A d, j : j \in Owned(With(f, n, c), d) <=> j \in Owned(f, d) \/ (j = n /\ d = c)
         /\ \A j \in DOMAIN With(f, n, c) : j < n + 1
<1>1. With(f, n, c) = [j \in DOMAIN f \cup {n} |-> IF j = n THEN c ELSE f[j]]
  BY DEF With
<1>2. \A j \in DOMAIN f : j # n /\ j < n + 1
  <2> SUFFICES ASSUME NEW j \in DOMAIN f PROVE j # n /\ j < n + 1
    OBVIOUS
  <2>1. j \in Nat /\ j < n
    OBVIOUS
  <2> QED BY <2>1
<1>3. \A d, j : j \in Owned(With(f, n, c), d) <=> j \in Owned(f, d) \/ (j = n /\ d = c)
  BY <1>1, <1>2 DEF Owned
<1>4. \A j \in DOMAIN With(f, n, c) : j < n + 1
  BY <1>1, <1>2
<1> QED BY <1>3, <1>4

\* And when some are removed.
LEMMA OwnersShrink ==
  ASSUME NEW f, NEW s
  PROVE  /\ \A d, j : j \in Owned(Restrict(f, DOMAIN f \ s), d) <=> j \in Owned(f, d) /\ j \notin s
         /\ DOMAIN Restrict(f, DOMAIN f \ s) \subseteq DOMAIN f
BY DEF Restrict, Owned

\* A client keeps the display on.
LEMMA KeepDisplayOnServes ==
  ASSUME TrackerInv, SessionsFollow, RequestsAreRouted, IdsAreUsed, TablesTyped, NEW c \in Clients, NEW pid,
         UNCHANGED serviceKeeps, UNCHANGED held, dbus_keepDisplayOn(c, pid)
  PROVE  IdsAreUsed' /\ \E t : Serves(t) /\ OnlyOf(t, c) /\ (Reached(c, pid) => EndsReachHome(t))
<1>1. PICK i : i = nextIds.inactivity
  OBVIOUS
<1>2. /\ keep_display_on_ids' = With(keep_display_on_ids, i, c)
      /\ nextIds' = [nextIds EXCEPT !.inactivity = i + 1]
      /\ QueuedFor(pid, "begin", What("inactivity", c, i))
      /\ UNCHANGED <<request_sys_state_ids, active_notifications>>
  BY <1>1 DEF dbus_keepDisplayOn
<1>3. i \in Nat /\ nextIds'.inactivity = i + 1 /\ nextIds'.suspend = nextIds.suspend
  BY <1>1, <1>2 DEF TablesTyped
<1>4. /\ \A d, j : j \in Owned(keep_display_on_ids', d) <=>
                     j \in Owned(keep_display_on_ids, d) \/ (j = i /\ d = c)
      /\ \A j \in DOMAIN keep_display_on_ids' : j < i + 1
  <2>1. DOMAIN keep_display_on_ids \subseteq Nat /\ \A j \in DOMAIN keep_display_on_ids : j < i
    BY <1>1 DEF TablesTyped, IdsAreUsed
  <2>2. keep_display_on_ids' = With(keep_display_on_ids, i, c) /\ i \in Nat
    BY <1>2, <1>3
  <2> QED BY <2>1, <2>2, OwnersGrow
<1>5. PICK w : w = What("inactivity", c, i)
  OBVIOUS
<1>6. /\ w \in Whats /\ w.kind = "inactivity" /\ w.client = c /\ w.id = i
      /\ \A x \in Whats : x.kind = "inactivity" /\ x.client = c /\ x.id = i => x = w
  BY <1>3, <1>5 DEF What, Whats
<1>7. \A x \in Whats : Asked(x)' <=> Asked(x) \/ x = w
  <2> SUFFICES ASSUME NEW x \in Whats PROVE Asked(x)' <=> Asked(x) \/ x = w
    OBVIOUS
  <2>1. Asked(x)' <=>
          \/ x.kind = "inactivity" /\ x.id \in Owned(keep_display_on_ids', x.client)
          \/ x.kind = "suspend" /\ x.id \in Owned(request_sys_state_ids, x.client)
          \/ x.kind = "notification" /\ x.id < active_notifications[x.client]
    BY <1>2 DEF Asked
  <2> QED BY <1>4, <1>6, <2>1 DEF Asked
<1>8. IdsAreUsed'
  BY <1>2, <1>3, <1>4 DEF IdsAreUsed
<1>9. QueuedFor(pid, "begin", w)
  BY <1>2, <1>5
<1>10. (\A x \in Whats \ {w} : Asked(x)' <=> Asked(x)) /\ Asked(w)'
  BY <1>6, <1>7
<1> QED BY <1>6, <1>8, <1>9, <1>10, QueuedServes

\* A client keeps the system awake.
LEMMA RequestSysStateServes ==
  ASSUME TrackerInv, SessionsFollow, RequestsAreRouted, IdsAreUsed, TablesTyped, NEW c \in Clients, NEW pid,
         UNCHANGED serviceKeeps, UNCHANGED held, dbus_requestSysState(c, pid)
  PROVE  IdsAreUsed' /\ \E t : Serves(t) /\ OnlyOf(t, c) /\ (Reached(c, pid) => EndsReachHome(t))
<1>1. PICK i : i = nextIds.suspend
  OBVIOUS
<1>2. /\ request_sys_state_ids' = With(request_sys_state_ids, i, c)
      /\ nextIds' = [nextIds EXCEPT !.suspend = i + 1]
      /\ QueuedFor(pid, "begin", What("suspend", c, i))
      /\ UNCHANGED <<keep_display_on_ids, active_notifications>>
  BY <1>1 DEF dbus_requestSysState
<1>3. i \in Nat /\ nextIds'.suspend = i + 1 /\ nextIds'.inactivity = nextIds.inactivity
  BY <1>1, <1>2 DEF TablesTyped
<1>4. /\ \A d, j : j \in Owned(request_sys_state_ids', d) <=>
                     j \in Owned(request_sys_state_ids, d) \/ (j = i /\ d = c)
      /\ \A j \in DOMAIN request_sys_state_ids' : j < i + 1
  <2>1. DOMAIN request_sys_state_ids \subseteq Nat /\ \A j \in DOMAIN request_sys_state_ids : j < i
    BY <1>1 DEF TablesTyped, IdsAreUsed
  <2>2. request_sys_state_ids' = With(request_sys_state_ids, i, c) /\ i \in Nat
    BY <1>2, <1>3
  <2> QED BY <2>1, <2>2, OwnersGrow
<1>5. PICK w : w = What("suspend", c, i)
  OBVIOUS
<1>6. /\ w \in Whats /\ w.kind = "suspend" /\ w.client = c /\ w.id = i
      /\ \A x \in Whats : x.kind = "suspend" /\ x.client = c /\ x.id = i => x = w
  BY <1>3, <1>5 DEF What, Whats
<1>7. \A x \in Whats : Asked(x)' <=> Asked(x) \/ x = w
  <2> SUFFICES ASSUME NEW x \in Whats PROVE Asked(x)' <=> Asked(x) \/ x = w
    OBVIOUS
  <2>1. Asked(x)' <=>
          \/ x.kind = "inactivity" /\ x.id \in Owned(keep_display_on_ids, x.client)
          \/ x.kind = "suspend" /\ x.id \in Owned(request_sys_state_ids', x.client)
          \/ x.kind = "notification" /\ x.id < active_notifications[x.client]
    BY <1>2 DEF Asked
  <2> QED BY <1>4, <1>6, <2>1 DEF Asked
<1>8. IdsAreUsed'
  BY <1>2, <1>3, <1>4 DEF IdsAreUsed
<1>9. QueuedFor(pid, "begin", w)
  BY <1>2, <1>5
<1>10. (\A x \in Whats \ {w} : Asked(x)' <=> Asked(x)) /\ Asked(w)'
  BY <1>6, <1>7
<1> QED BY <1>6, <1>8, <1>9, <1>10, QueuedServes

\* A client takes one of its requests back, if it is its own.
LEMMA RequestEndServes ==
  ASSUME TrackerInv, SessionsFollow, RequestsAreRouted, IdsAreUsed, TablesTyped, NEW c \in Clients, NEW i \in Nat,
         NEW pid, UNCHANGED serviceKeeps, UNCHANGED held,
         dbus_removeDisplayOnRequest(c, i, pid) \/ dbus_clearSysState(c, i, pid)
  PROVE  IdsAreUsed' /\ \E t : Serves(t) /\ OnlyOf(t, c) /\ (Reached(c, pid) => EndsReachHome(t))
<1>1. UNCHANGED nextIds /\ nextIds.inactivity \in Nat /\ nextIds.suspend \in Nat
  BY DEF dbus_removeDisplayOnRequest, dbus_clearSysState, TablesTyped
<1>2. ASSUME NothingQueued, UNCHANGED <<keep_display_on_ids, request_sys_state_ids, active_notifications>>
      PROVE  IdsAreUsed' /\ \E t : Serves(t) /\ OnlyOf(t, c) /\ (Reached(c, pid) => EndsReachHome(t))
  <2>1. IdsAreUsed'
    BY <1>1, <1>2 DEF IdsAreUsed
  <2>2. Serves(<<>>) /\ EndsReachHome(<<>>) /\ OnlyOf(<<>>, c)
    BY <1>2, NothingServes DEF NothingQueued, serviceKeeps, logindVars
  <2> QED BY <2>1, <2>2
<1>3. CASE dbus_removeDisplayOnRequest(c, i, pid) /\ i \in Owned(keep_display_on_ids, c)
  <2>1. /\ keep_display_on_ids' = Restrict(keep_display_on_ids, DOMAIN keep_display_on_ids \ {i})
        /\ QueuedFor(pid, "end", What("inactivity", c, i))
        /\ UNCHANGED <<request_sys_state_ids, active_notifications>>
    BY <1>3 DEF dbus_removeDisplayOnRequest
  <2>2. /\ \A d, j : j \in Owned(keep_display_on_ids', d) <=>
                       j \in Owned(keep_display_on_ids, d) /\ j \notin {i}
        /\ DOMAIN keep_display_on_ids' \subseteq DOMAIN keep_display_on_ids
    BY <2>1, OwnersShrink
  <2>3. PICK w : w = What("inactivity", c, i)
    OBVIOUS
  <2>4. /\ w \in Whats /\ w.kind = "inactivity" /\ w.client = c /\ w.id = i
        /\ \A x \in Whats : x.kind = "inactivity" /\ x.client = c /\ x.id = i => x = w
    BY <2>3 DEF What, Whats
  <2>5. \A x \in Whats : Asked(x)' <=> Asked(x) /\ x # w
    <3> SUFFICES ASSUME NEW x \in Whats PROVE Asked(x)' <=> Asked(x) /\ x # w
      OBVIOUS
    <3>1. Asked(x)' <=>
            \/ x.kind = "inactivity" /\ x.id \in Owned(keep_display_on_ids', x.client)
            \/ x.kind = "suspend" /\ x.id \in Owned(request_sys_state_ids, x.client)
            \/ x.kind = "notification" /\ x.id < active_notifications[x.client]
      BY <2>1 DEF Asked
    <3>2. i \in Owned(keep_display_on_ids, x.client) => x.client = c
      BY <1>3 DEF Owned
    <3> QED BY <2>2, <2>4, <3>1, <3>2 DEF Asked
  <2>6. IdsAreUsed'
    BY <1>1, <2>1, <2>2 DEF IdsAreUsed
  <2>7. QueuedFor(pid, "end", w)
    BY <2>1, <2>3
  <2>8. (\A x \in Whats \ {w} : Asked(x)' <=> Asked(x)) /\ ~Asked(w)' /\ Asked(w)
    <3>1. Asked(w)
      BY <1>3, <2>4 DEF Asked
    <3> QED BY <2>4, <2>5, <3>1
  <2> QED BY <2>4, <2>6, <2>7, <2>8, QueuedServes
<1>4. CASE dbus_clearSysState(c, i, pid) /\ i \in Owned(request_sys_state_ids, c)
  <2>1. /\ request_sys_state_ids' = Restrict(request_sys_state_ids, DOMAIN request_sys_state_ids \ {i})
        /\ QueuedFor(pid, "end", What("suspend", c, i))
        /\ UNCHANGED <<keep_display_on_ids, active_notifications>>
    BY <1>4 DEF dbus_clearSysState
  <2>2. /\ \A d, j : j \in Owned(request_sys_state_ids', d) <=>
                       j \in Owned(request_sys_state_ids, d) /\ j \notin {i}
        /\ DOMAIN request_sys_state_ids' \subseteq DOMAIN request_sys_state_ids
    BY <2>1, OwnersShrink
  <2>3. PICK w : w = What("suspend", c, i)
    OBVIOUS
  <2>4. /\ w \in Whats /\ w.kind = "suspend" /\ w.client = c /\ w.id = i
        /\ \A x \in Whats : x.kind = "suspend" /\ x.client = c /\ x.id = i => x = w
    BY <2>3 DEF What, Whats
  <2>5. \A x \in Whats : Asked(x)' <=> Asked(x) /\ x # w
    <3> SUFFICES ASSUME NEW x \in Whats PROVE Asked(x)' <=> Asked(x) /\ x # w
      OBVIOUS
    <3>1. Asked(x)' <=>
            \/ x.kind = "inactivity" /\ x.id \in Owned(keep_display_on_ids, x.client)
            \/ x.kind = "suspend" /\ x.id \in Owned(request_sys_state_ids', x.client)
            \/ x.kind = "notification" /\ x.id < active_notifications[x.client]
      BY <2>1 DEF Asked
    <3>2. i \in Owned(request_sys_state_ids, x.client) => x.client = c
      BY <1>4 DEF Owned
    <3> QED BY <2>2, <2>4, <3>1, <3>2 DEF Asked
  <2>6. IdsAreUsed'
    BY <1>1, <2>1, <2>2 DEF IdsAreUsed
  <2>7. QueuedFor(pid, "end", w)
    BY <2>1, <2>3
  <2>8. (\A x \in Whats \ {w} : Asked(x)' <=> Asked(x)) /\ ~Asked(w)' /\ Asked(w)
    <3>1. Asked(w)
      BY <1>4, <2>4 DEF Asked
    <3> QED BY <2>4, <2>5, <3>1
  <2> QED BY <2>4, <2>6, <2>7, <2>8, QueuedServes
<1>5. CASE dbus_removeDisplayOnRequest(c, i, pid) /\ i \notin Owned(keep_display_on_ids, c)
  BY <1>2, <1>5 DEF dbus_removeDisplayOnRequest
<1>6. CASE dbus_clearSysState(c, i, pid) /\ i \notin Owned(request_sys_state_ids, c)
  BY <1>2, <1>6 DEF dbus_clearSysState
<1> QED BY <1>3, <1>4, <1>5, <1>6


\* A notification begins or ends.
LEMMA NotificationServes ==
  ASSUME TrackerInv, SessionsFollow, RequestsAreRouted, IdsAreUsed, TablesTyped, NEW c \in Clients, NEW mode,
         NEW pid, UNCHANGED serviceKeeps, UNCHANGED held, dbus_setScreenPowerMode(c, mode, pid)
  PROVE  IdsAreUsed' /\ \E t : Serves(t) /\ OnlyOf(t, c) /\ (Reached(c, pid) => EndsReachHome(t))
<1>1. PICK n : n = active_notifications[c]
  OBVIOUS
<1>2. n \in Nat
  BY <1>1 DEF TablesTyped
<1>3. /\ \/ /\ active_notifications' = [active_notifications EXCEPT ![c] = n + 1]
            /\ QueuedFor(pid, "begin", What("notification", c, n))
         \/ /\ n > 0 /\ active_notifications' = [active_notifications EXCEPT ![c] = n - 1]
            /\ QueuedFor(pid, "end", What("notification", c, n - 1))
         \/ NothingQueued /\ UNCHANGED active_notifications
      /\ UNCHANGED <<keep_display_on_ids, request_sys_state_ids, nextIds>>
  BY <1>1 DEF dbus_setScreenPowerMode
<1>4. IdsAreUsed'
  BY <1>3 DEF IdsAreUsed
<1>5. \A i \in Nat : \A w : w = What("notification", c, i) =>
        /\ w \in Whats /\ w.kind = "notification" /\ w.client = c /\ w.id = i
        /\ \A x \in Whats : x.kind = "notification" /\ x.client = c /\ x.id = i => x = w
  BY DEF What, Whats
<1>6. \A x \in Whats :
        Asked(x)' <=> \/ x.kind = "inactivity" /\ x.id \in Owned(keep_display_on_ids, x.client)
                      \/ x.kind = "suspend" /\ x.id \in Owned(request_sys_state_ids, x.client)
                      \/ x.kind = "notification" /\ x.id < active_notifications'[x.client]
  BY <1>3 DEF Asked
<1>7. CASE /\ active_notifications' = [active_notifications EXCEPT ![c] = n + 1]
           /\ QueuedFor(pid, "begin", What("notification", c, n))
  <2>1. PICK w : w = What("notification", c, n)
    OBVIOUS
  <2>2. /\ w \in Whats /\ w.kind = "notification" /\ w.client = c /\ w.id = n
        /\ \A x \in Whats : x.kind = "notification" /\ x.client = c /\ x.id = n => x = w
    BY <1>2, <1>5, <2>1
  <2>3. \A x \in Whats : Asked(x)' <=> Asked(x) \/ x = w
    <3> SUFFICES ASSUME NEW x \in Whats PROVE Asked(x)' <=> Asked(x) \/ x = w
      OBVIOUS
    <3>1. x.client = c => (x.id < active_notifications'[x.client] <=> x.id < active_notifications[x.client] \/ x.id = n)
      <4>1. x.client = c => active_notifications'[x.client] = n + 1 /\ active_notifications[x.client] = n
        BY <1>1, <1>7 DEF TablesTyped
      <4>2. x.id \in Nat
        BY DEF Whats
      <4>3. x.id < n + 1 <=> x.id < n \/ x.id = n
        BY <1>2, <4>2
      <4> QED BY <4>1, <4>3
    <3>2. x.client # c => active_notifications'[x.client] = active_notifications[x.client]
      BY <1>7 DEF TablesTyped, Whats
    <3> QED BY <1>6, <2>2, <3>1, <3>2 DEF Asked
  <2>4. QueuedFor(pid, "begin", w)
    BY <1>7, <2>1
  <2>5. (\A x \in Whats \ {w} : Asked(x)' <=> Asked(x)) /\ Asked(w)'
    BY <2>2, <2>3
  <2> QED BY <1>4, <2>2, <2>4, <2>5, QueuedServes
<1>8. CASE /\ n > 0 /\ active_notifications' = [active_notifications EXCEPT ![c] = n - 1]
           /\ QueuedFor(pid, "end", What("notification", c, n - 1))
  <2>1. PICK w : w = What("notification", c, n - 1)
    OBVIOUS
  <2>2. n - 1 \in Nat
    BY <1>2, <1>8
  <2>3. /\ w \in Whats /\ w.kind = "notification" /\ w.client = c /\ w.id = n - 1
        /\ \A x \in Whats : x.kind = "notification" /\ x.client = c /\ x.id = n - 1 => x = w
    BY <1>5, <2>1, <2>2
  <2>4. \A x \in Whats : Asked(x)' <=> Asked(x) /\ x # w
    <3> SUFFICES ASSUME NEW x \in Whats PROVE Asked(x)' <=> Asked(x) /\ x # w
      OBVIOUS
    <3>1. x.client = c => (x.id < active_notifications'[x.client] <=> x.id < active_notifications[x.client] /\ x.id # n - 1)
      <4>1. x.client = c => active_notifications'[x.client] = n - 1 /\ active_notifications[x.client] = n
        BY <1>1, <1>8 DEF TablesTyped
      <4>2. x.id \in Nat
        BY DEF Whats
      <4>3. x.id < n - 1 <=> x.id < n /\ x.id # n - 1
        BY <1>2, <4>2
      <4> QED BY <4>1, <4>3
    <3>2. x.client # c => active_notifications'[x.client] = active_notifications[x.client]
      BY <1>8 DEF TablesTyped, Whats
    <3> QED BY <1>6, <2>3, <3>1, <3>2 DEF Asked
  <2>5. QueuedFor(pid, "end", w)
    BY <1>8, <2>1
  <2>6. Asked(w)
    <3>1. w.id < active_notifications[w.client]
      BY <1>1, <1>2, <2>3
    <3> QED BY <2>3, <3>1 DEF Asked
  <2>7. (\A x \in Whats \ {w} : Asked(x)' <=> Asked(x)) /\ ~Asked(w)'
    BY <2>3, <2>4
  <2> QED BY <1>4, <2>3, <2>5, <2>6, <2>7, QueuedServes
<1>9. CASE NothingQueued /\ UNCHANGED active_notifications
  <2>1. Serves(<<>>) /\ EndsReachHome(<<>>) /\ OnlyOf(<<>>, c)
    BY <1>3, <1>9, NothingServes DEF NothingQueued, serviceKeeps, logindVars
  <2> QED BY <1>4, <2>1
<1> QED BY <1>3, <1>7, <1>8, <1>9

\* A client's name is gone from the bus, and all that it asked for ends where
\* the daemon has a session.
LEMMA NameOwnerChangedServes ==
  ASSUME TrackerInv, RequestsAreRouted, IdsAreUsed, TablesTyped, NEW c \in Clients,
         UNCHANGED serviceKeeps, UNCHANGED held, dbus_NameOwnerChanged(c)
  PROVE  IdsAreUsed' /\ \E t : /\ Serves(t) /\ OnlyOf(t, c)
                               /\ \A k \in DOMAIN t : t[k].sessions = daemonSessions
<1>1. PICK q : q = AskedBy(c)
  OBVIOUS
<1>2. PICK d : d = daemonSessions
  OBVIOUS
<1>3. /\ d \subseteq AnySession
      /\ \A w \in Whats : q \in Seq(Whats) /\ ((\E k \in DOMAIN q : q[k] = w) <=> Asked(w) /\ w.client = c)
  BY <1>1, <1>2, AskedByHasAll DEF TrackerInv, TrackerTyped
<1>4. q \in Seq(Whats)
  <2>1. What("inactivity", c, 0) \in Whats
    BY DEF What, Whats
  <2> QED BY <1>3, <2>1
<1>5. PICK t : t = [k \in DOMAIN q |-> Event("end", q[k], d)]
  OBVIOUS
<1>6. /\ t \in Seq(RequestEvents) /\ DOMAIN t = DOMAIN q
      /\ \A k \in DOMAIN t : /\ q[k] \in Whats /\ t[k] \in RequestEvents
                             /\ t[k].event = "end" /\ t[k].what = q[k] /\ t[k].sessions = d
  <2>1. DOMAIN q = 1 .. Len(q) /\ Len(q) \in Nat /\ \A k \in DOMAIN q : q[k] \in Whats
    BY <1>4
  <2>2. \A k \in DOMAIN q : Event("end", q[k], d) \in RequestEvents
    BY <1>3, <2>1 DEF Event, RequestEvents
  <2>3. t \in Seq(RequestEvents)
    BY <1>5, <2>1, <2>2
  <2>4. \A k \in DOMAIN q : /\ Event("end", q[k], d).event = "end" /\ Event("end", q[k], d).what = q[k]
                            /\ Event("end", q[k], d).sessions = d
    BY DEF Event
  <2> QED BY <1>5, <2>1, <2>2, <2>3, <2>4
<1>7. /\ daemonQueue' = daemonQueue \o t
      /\ keep_display_on_ids' =
           Restrict(keep_display_on_ids, DOMAIN keep_display_on_ids \ Owned(keep_display_on_ids, c))
      /\ request_sys_state_ids' =
           Restrict(request_sys_state_ids, DOMAIN request_sys_state_ids \ Owned(request_sys_state_ids, c))
      /\ active_notifications' = [active_notifications EXCEPT ![c] = 0]
      /\ UNCHANGED <<nextIds, tracked_sessions, routedTo>>
  BY <1>1, <1>2, <1>5 DEF dbus_NameOwnerChanged
<1>8. /\ \A x, j : j \in Owned(keep_display_on_ids', x) <=>
                     j \in Owned(keep_display_on_ids, x) /\ j \notin Owned(keep_display_on_ids, c)
      /\ DOMAIN keep_display_on_ids' \subseteq DOMAIN keep_display_on_ids
      /\ \A x, j : j \in Owned(request_sys_state_ids', x) <=>
                     j \in Owned(request_sys_state_ids, x) /\ j \notin Owned(request_sys_state_ids, c)
      /\ DOMAIN request_sys_state_ids' \subseteq DOMAIN request_sys_state_ids
  BY <1>7, OwnersShrink
<1>9. \A w \in Whats : Asked(w)' <=> Asked(w) /\ w.client # c
  <2> SUFFICES ASSUME NEW w \in Whats PROVE Asked(w)' <=> Asked(w) /\ w.client # c
    OBVIOUS
  <2>1. Asked(w)' <=>
          \/ w.kind = "inactivity" /\ w.id \in Owned(keep_display_on_ids', w.client)
          \/ w.kind = "suspend" /\ w.id \in Owned(request_sys_state_ids', w.client)
          \/ w.kind = "notification" /\ w.id < active_notifications'[w.client]
    BY DEF Asked
  <2>2. w.id \in Owned(keep_display_on_ids', w.client) <=>
          w.id \in Owned(keep_display_on_ids, w.client) /\ w.client # c
    BY <1>8 DEF Owned
  <2>3. w.id \in Owned(request_sys_state_ids', w.client) <=>
          w.id \in Owned(request_sys_state_ids, w.client) /\ w.client # c
    BY <1>8 DEF Owned
  <2>4. w.id < active_notifications'[w.client] <=> w.id < active_notifications[w.client] /\ w.client # c
    <3>1. w.client \in Clients /\ w.id \in Nat
      BY DEF Whats
    <3>2. active_notifications'[w.client] = IF w.client = c THEN 0 ELSE active_notifications[w.client]
      BY <1>7, <3>1 DEF TablesTyped
    <3>3. ~(w.id < 0)
      BY <3>1
    <3> QED BY <3>2, <3>3
  <2> QED BY <2>1, <2>2, <2>3, <2>4 DEF Asked
<1>10. IdsAreUsed'
  BY <1>7, <1>8 DEF IdsAreUsed
<1>11. SessionsStay
  BY <1>7, LookupStays DEF OnlyLooksUp
<1>12. \A w \in Whats : NoneIn(t, About(w)) => (Asked(w)' <=> Asked(w))
  <2> SUFFICES ASSUME NEW w \in Whats, NoneIn(t, About(w)) PROVE Asked(w)' <=> Asked(w)
    OBVIOUS
  <2>1. ~ \E k \in DOMAIN q : q[k] = w
    BY <1>6 DEF NoneIn, About
  <2> QED BY <1>3, <1>9, <2>1
<1>13. \A k \in DOMAIN t : ~Asked(t[k].what)' /\ t[k].what \in DOMAIN routedTo
  <2> SUFFICES ASSUME NEW k \in DOMAIN t, NEW w, w = t[k].what PROVE ~Asked(w)' /\ w \in DOMAIN routedTo
    BY DEF Asked, Owned
  <2>1. w \in Whats /\ Asked(w) /\ w.client = c
    BY <1>3, <1>6
  <2> QED BY <1>9, <2>1 DEF RequestsAreRouted
<1>14. /\ DOMAIN routedTo' \subseteq Whats /\ DOMAIN routedTo \subseteq DOMAIN routedTo'
       /\ \A w \in DOMAIN routedTo : routedTo[w] \subseteq routedTo'[w]
       /\ \A w \in DOMAIN routedTo' :
            routedTo'[w] # {} /\ \A s \in routedTo'[w] : s = InvalidSession \/ Known(s) \/ Ended(s)
  BY <1>7 DEF RequestsAreRouted
<1>15. UNCHANGED <<daemonSessions, held>>
  BY DEF serviceKeeps
<1>16. Serves(t)
  BY <1>6, <1>7, <1>11, <1>12, <1>13, <1>14, <1>15 DEF Serves
<1>17. OnlyOf(t, c)
  BY <1>3, <1>6 DEF OnlyOf
<1> QED BY <1>2, <1>6, <1>10, <1>16, <1>17


\* Every call is about the requests of one client, which made the call itself if
\* nobody else names it; and is for its process if it is served well.
LEMMA CallIsOf ==
  ASSUME ServiceTyped, NEW m \in Calls, dbus_method_call(m)
  PROVE  \E d \in Clients, i \in Nat : \E pid :
           /\ NamedByItself(d) => d = m.sender
           /\ \/ /\ m.method # "NameOwnerChanged"
                 /\ WellServed(d) /\ d \in onBus => Reached(d, pid)
                 /\ \/ dbus_keepDisplayOn(d, pid) \/ dbus_requestSysState(d, pid)
                    \/ dbus_removeDisplayOnRequest(d, i, pid) \/ dbus_clearSysState(d, i, pid)
                    \/ dbus_setScreenPowerMode(d, "on", pid) \/ dbus_setScreenPowerMode(d, "off", pid)
              \/ dbus_NameOwnerChanged(d)
<1>1. /\ m.sender \in Clients /\ m.name \in Clients /\ m.id \in Nat
      /\ IF m.method \in NamingMethods THEN m.name \in NamesOf[m.sender] /\ m.pid \in PidsOf[m.sender]
         ELSE m.name = m.sender
  BY DEF Calls
<1>2. NamedByItself(m.name) => m.name = m.sender
  BY <1>1 DEF NamedByItself
<1>3. CASE m.method \in {"keepDisplayOn", "keepDisplayOff"}
  <2>1. dbus_keepDisplayOn(m.name, m.pid) \/ dbus_removeDisplayOnRequest(m.name, m.id, m.pid)
    BY <1>3 DEF dbus_method_call
  <2>2. WellServed(m.name) => m.pid = m.name
    BY <1>1, <1>2, <1>3 DEF WellServed, NamingMethods
  <2>3. WellServed(m.name) /\ m.name \in onBus => Reached(m.name, m.pid)
    BY <2>2 DEF WellServed, Reached
  <2> QED BY <1>1, <1>2, <1>3, <2>1, <2>3
<1>4. CASE m.method \in {"keepDisplayNameOwnerChanged", "NameOwnerChanged"}
  <2>1. dbus_NameOwnerChanged(m.name)
    BY <1>4 DEF dbus_method_call
  <2> QED BY <1>1, <1>2, <2>1
<1>5. CASE m.method \notin NamingMethods \cup {"NameOwnerChanged"}
  <2>1. PICK pid \in dbus_get_invocation_sender_pid(m.sender) :
          \/ dbus_keepDisplayOn(m.sender, pid) \/ dbus_requestSysState(m.sender, pid)
          \/ dbus_removeDisplayOnRequest(m.sender, m.id, pid) \/ dbus_clearSysState(m.sender, m.id, pid)
          \/ dbus_setScreenPowerMode(m.sender, "on", pid) \/ dbus_setScreenPowerMode(m.sender, "off", pid)
    BY <1>5 DEF dbus_method_call, NamingMethods
  <2>2. WellServed(m.sender) /\ m.sender \in onBus => Reached(m.sender, pid)
    BY <2>1 DEF WellServed, Reached, dbus_get_invocation_sender_pid
  <2> QED BY <1>1, <1>5, <2>1, <2>2
<1> QED BY <1>3, <1>4, <1>5 DEF NamingMethods

\* Every operation of the service.  What ends reaches its session when its
\* client is on the bus, or the daemon has every session that there is.
LEMMA ServiceServes ==
  ASSUME TrackerInv, ServiceTyped, RequestInv, ServiceHandles
  PROVE  IdsAreUsed' /\ \E t : Serves(t) /\ WantedAreAsked' /\ (CallersAreThere => EndsReachHome(t))
<1> USE DEF RequestInv
<1>1. PICK m : m = Head(busCalls)
  OBVIOUS
<1>2. /\ busCalls # <<>> /\ dbus_method_call(m) /\ UNCHANGED serviceKeeps /\ UNCHANGED held
      /\ DaemonKeepsUp => \A k \in DOMAIN daemonQueue : daemonQueue[k].event # "session_activated"
      /\ wanted' = WantedAfter(m.sender)
  BY <1>1 DEF ServiceHandles, serviceKeeps
<1>3. m \in Calls /\ 1 \in DOMAIN busCalls /\ m = busCalls[1]
  BY <1>1, <1>2, TakenByPlace DEF ServiceTyped
<1>4. TablesTyped
  BY DEF ServiceTyped
<1>5. PICK d \in Clients, i \in Nat : \E pid :
        /\ NamedByItself(d) => d = m.sender
        /\ \/ /\ m.method # "NameOwnerChanged"
              /\ WellServed(d) /\ d \in onBus => Reached(d, pid)
              /\ \/ dbus_keepDisplayOn(d, pid) \/ dbus_requestSysState(d, pid)
                 \/ dbus_removeDisplayOnRequest(d, i, pid) \/ dbus_clearSysState(d, i, pid)
                 \/ dbus_setScreenPowerMode(d, "on", pid) \/ dbus_setScreenPowerMode(d, "off", pid)
           \/ dbus_NameOwnerChanged(d)
  BY <1>2, <1>3, CallIsOf
<1>6. ASSUME NEW t, Serves(t), OnlyOf(t, d)
      PROVE  WantedAreAsked'
  <2>1. \A w \in Whats : w.client # d => (Asked(w)' <=> Asked(w))
    <3>1. \A w \in Whats : w.client # d => NoneIn(t, About(w))
      BY <1>6 DEF OnlyOf, NoneIn, About
    <3> QED BY <1>6, <3>1 DEF Serves
  <2>2. NamedByItself(d) => d = m.sender
    BY <1>5
  <2>3. ASSUME NEW w \in wanted'
        PROVE  w \in Whats /\ (NamedByItself(w.client) => Asked(w)')
    <3>1. \/ w \in wanted /\ w.client # m.sender
          \/ w \in DOMAIN routedTo' /\ Asked(w)'
      BY <1>2, <2>3 DEF WantedAfter
    <3>2. w \in Whats
      BY <1>6, <3>1 DEF WantedAreAsked, Serves
    <3>3. ASSUME w \in wanted, w.client # m.sender, NamedByItself(w.client) PROVE Asked(w)'
      <4>1. w.client # d
        BY <2>2, <3>3
      <4> QED BY <2>1, <3>2, <3>3, <4>1 DEF WantedAreAsked
    <3> QED BY <3>1, <3>2, <3>3
  <2> QED BY <2>3 DEF WantedAreAsked, NamedByItself
<1>7. CASE ~dbus_NameOwnerChanged(d)
  <2>1. PICK pid : /\ m.method # "NameOwnerChanged"
                   /\ WellServed(d) /\ d \in onBus => Reached(d, pid)
                   /\ NamedByItself(d) => d = m.sender
                   /\ \/ dbus_keepDisplayOn(d, pid) \/ dbus_requestSysState(d, pid)
                      \/ dbus_removeDisplayOnRequest(d, i, pid) \/ dbus_clearSysState(d, i, pid)
                      \/ dbus_setScreenPowerMode(d, "on", pid) \/ dbus_setScreenPowerMode(d, "off", pid)
    BY <1>5, <1>7
  <2>2. IdsAreUsed' /\ \E t : Serves(t) /\ OnlyOf(t, d) /\ (Reached(d, pid) => EndsReachHome(t))
    BY <1>2, <1>4, <2>1, KeepDisplayOnServes, RequestSysStateServes, RequestEndServes, NotificationServes
  <2>3. PICK t : Serves(t) /\ OnlyOf(t, d) /\ (Reached(d, pid) => EndsReachHome(t))
    BY <2>2
  <2>4. ASSUME CallersAreThere PROVE EndsReachHome(t)
    <3>1. WellServed(d) => d \in onBus
      BY <1>3, <2>1, <2>4 DEF CallersAreThere, WellServed
    <3>2. ~WellServed(d) => EndsReachHome(t)
      BY <2>3 DEF EndsReachHome, OnlyOf
    <3> QED BY <2>1, <2>3, <3>1, <3>2
  <2> QED BY <1>6, <2>2, <2>3, <2>4
<1>8. CASE dbus_NameOwnerChanged(d)
  <2>1. IdsAreUsed'
    BY <1>2, <1>4, <1>8, NameOwnerChangedServes
  <2>2. PICK t : Serves(t) /\ OnlyOf(t, d) /\ \A k \in DOMAIN t : t[k].sessions = daemonSessions
    BY <1>2, <1>4, <1>8, NameOwnerChangedServes
  <2>3. ASSUME DaemonKeepsUp, NEW k \in DOMAIN t, NEW w, w = t[k].what, IsThere(Home(w)), Home(w) # InvalidSession
        PROVE  Home(w) \in daemonSessions
    <3>1. t[k] \in RequestEvents
      BY <2>2 DEF Serves
    <3>2. w \in Whats
      BY <2>3, <3>1 DEF RequestEvents
    <3>3. Home(w) \in Sessions
      BY <2>3, <3>2, HomeIsSession
    <3>4. NoneIn(daemonQueue, Announcements(Home(w)))
      BY <1>2, <2>3 DEF NoneIn, Announcements, Activation
    <3> QED BY <2>3, <3>3, <3>4 DEF SessionsFollow
  <2>4. EndsReachHome(t)
    BY <2>2, <2>3 DEF EndsReachHome, WellServed
  <2> QED BY <1>6, <2>1, <2>2, <2>4
<1> QED BY <1>7, <1>8

\* What the clients do changes nothing but what is on the bus.
LEMMA ClientServes ==
  ASSUME TrackerInv, ServiceTyped, RequestInv, ClientCalling \/ ClientLeaves
  PROVE  RequestInv' /\ (EndInv => EndInv')
<1>1. /\ UNCHANGED <<tracked_sessions, loggedOut, seatSignals, daemonQueue, daemonSessions, held, routedTo,
                     keep_display_on_ids, request_sys_state_ids, active_notifications>>
      /\ UNCHANGED <<nextIds, wanted>>
  BY DEF ClientCalling, ClientLeaves, sessionVars, logindVars, trackerVars, daemonVars, serviceVars
<1>2. Serves(<<>>) /\ EndsReachHome(<<>>)
  BY <1>1, NothingServes DEF RequestInv
<1>3. IdsAreUsed' /\ WantedAreAsked'
  BY <1>1 DEF RequestInv, IdsAreUsed, WantedAreAsked, Asked, Owned
<1>4. RequestInv'
  BY <1>2, <1>3, ServiceKeepsRequests DEF TrackerInv
<1>5. ASSUME EndInv PROVE EndInv'
  <2>1. EndsAreRouted' /\ EndedAreNotHeld'
    BY <1>2, <1>5, ServiceKeepsEnds DEF EndInv, RequestInv, TrackerInv
  <2>2. PICK c \in Clients, m \in Calls :
          /\ busCalls' = Append(busCalls, m) /\ m.sender = c
          /\ \/ c \in onBus /\ UNCHANGED onBus
             \/ /\ m.method = "NameOwnerChanged" /\ onBus' = onBus \ {c}
                /\ c \in PatientClients => \A k \in DOMAIN busCalls : busCalls[k].sender # c
    <3>1. CASE ClientCalling
      <4>1. PICK c \in onBus : \E m \in ClientCalls(c) : busCalls' = Append(busCalls, m)
        BY <3>1 DEF ClientCalling
      <4>2. c \in Clients /\ UNCHANGED onBus
        BY <3>1, <4>1 DEF ClientCalling, ServiceTyped
      <4>3. PICK m \in ClientCalls(c) : busCalls' = Append(busCalls, m)
        BY <4>1
      <4>4. m \in Calls /\ m.sender = c
        BY <4>2, <4>3, CallsOfClient DEF ServiceTyped
      <4> QED BY <4>1, <4>2, <4>3, <4>4
    <3>2. CASE ClientLeaves
      <4>1. PICK c \in onBus :
              /\ c \in PatientClients => \A k \in DOMAIN busCalls : busCalls[k].sender # c
              /\ onBus' = onBus \ {c} /\ busCalls' = Append(busCalls, NameOwnerChanged(c))
        BY <3>2 DEF ClientLeaves
      <4>2. c \in Clients
        BY DEF ServiceTyped
      <4>3. /\ NameOwnerChanged(c) \in Calls /\ NameOwnerChanged(c).sender = c
            /\ NameOwnerChanged(c).method = "NameOwnerChanged"
        BY <4>2 DEF NameOwnerChanged, Call, Calls, Methods, Pids, NamingMethods
      <4> QED BY <4>1, <4>2, <4>3
    <3> QED BY <3>1, <3>2
  <2>3. CallersAreThere'
    <3>1. busCalls \in Seq(Calls)
      BY DEF ServiceTyped
    <3>2. \A k \in DOMAIN busCalls' : busCalls'[k] = m \/ (k \in DOMAIN busCalls /\ busCalls'[k] = busCalls[k])
      BY <2>2, <3>1, AppendedByPlace
    <3>3. \A k \in DOMAIN busCalls :
            busCalls[k].method # "NameOwnerChanged" /\ busCalls[k].sender \in PatientClients =>
              busCalls[k].sender \in onBus
      BY <1>5 DEF EndInv, CallersAreThere
    <3> QED BY <2>2, <3>2, <3>3 DEF CallersAreThere
  <2> QED BY <2>1, <2>3 DEF EndInv
<1> QED BY <1>4, <1>5

-----------------------------------------------------------------------------

\* Nothing has begun.
LEMMA InitRequests == ScreenInit => RequestInv /\ EndInv
<1> SUFFICES ASSUME ScreenInit PROVE RequestInv /\ EndInv
  OBVIOUS
<1> USE DEF ScreenInit, TrackerInit
<1>1. DOMAIN daemonQueue = {} /\ DOMAIN busCalls = {} /\ DOMAIN routedTo = {} /\ Tracked = {}
      /\ DOMAIN keep_display_on_ids = {} /\ DOMAIN request_sys_state_ids = {}
  BY DEF Tracked
<1>2. \A K : NoneIn(daemonQueue, K) /\ \A x : ~LastIn(daemonQueue, K, x)
  BY <1>1 DEF NoneIn, LastIn
<1>3. SessionsFollow
  BY <1>1, <1>2, NoSession DEF SessionsFollow, IsThere
<1>4. \A w \in Whats : ~Asked(w)
  BY <1>1 DEF Asked, Owned, Whats
<1>5. RequestsAreRouted
  BY <1>1, <1>4 DEF RequestsAreRouted
<1>6. IdsAreUsed /\ LastRequestSays /\ BeginsFollowSessions /\ AskedAreHeld
  BY <1>1, <1>2, <1>4 DEF IdsAreUsed, LastRequestSays, BeginsFollowSessions, AskedAreHeld
<1>7. EndInv
  BY <1>1 DEF EndInv, CallersAreThere, EndsAreRouted, EndedAreNotHeld, Served, OwnSession
<1>8. WantedAreAsked
  BY DEF WantedAreAsked
<1> QED BY <1>3, <1>5, <1>6, <1>7, <1>8 DEF RequestInv

\* Every step of seat, tracker, service, clients and daemon keeps what is said
\* of requests, and of what ends.
LEMMA NextRequests ==
  ASSUME TrackerInv, ServiceTyped, RequestInv, [ScreenNext]_screenVars
  PROVE  RequestInv' /\ (EndInv => EndInv')
<1> USE DEF TrackerInv
<1>1. CASE LogindOrTracker
  <2>1. PICK t : Moves(t)
    BY <1>1, TrackerMoves
  <2>2. RequestInv'
    BY <2>1, TrackerKeepsRequests
  <2>3. UNCHANGED <<onBus, busCalls>>
    BY <1>1 DEF LogindOrTracker
  <2>4. EndInv => EndInv'
    BY <2>1, <2>3, TrackerKeepsEnds DEF EndInv, CallersAreThere, RequestInv
  <2> QED BY <2>2, <2>4
<1>2. CASE ClientCalling \/ ClientLeaves
  BY <1>2, ClientServes
<1>3. CASE ServiceHandles
  <2>1. PICK t : Serves(t) /\ WantedAreAsked' /\ (CallersAreThere => EndsReachHome(t))
    BY <1>3, ServiceServes
  <2>2. IdsAreUsed'
    BY <1>3, ServiceServes
  <2>3. RequestInv'
    BY <2>1, <2>2, ServiceKeepsRequests
  <2>4. ASSUME EndInv PROVE EndInv'
    <3>1. EndsAreRouted' /\ EndedAreNotHeld'
      BY <2>1, <2>4, ServiceKeepsEnds DEF EndInv, RequestInv
    <3>2. CallersAreThere'
      <4>1. busCalls # <<>> /\ busCalls' = Tail(busCalls) /\ UNCHANGED onBus /\ busCalls \in Seq(Calls)
        BY <1>3 DEF ServiceHandles, ServiceTyped
      <4>2. \A k \in DOMAIN busCalls' : k + 1 \in DOMAIN busCalls /\ busCalls'[k] = busCalls[k + 1]
        BY <4>1, TakenByPlace
      <4> QED BY <2>4, <4>1, <4>2 DEF EndInv, CallersAreThere
    <3> QED BY <3>1, <3>2 DEF EndInv
  <2> QED BY <2>3, <2>4
<1>4. CASE DaemonTakesRequest
  BY <1>4, DaemonTakesRequestKeeps
<1>5. CASE DaemonTakesSession
  BY <1>5, DaemonTakesSessionKeeps
<1>6. CASE UNCHANGED screenVars
  <2>1. UNCHANGED <<tracked_sessions, loggedOut, seatSignals, daemonQueue, daemonSessions, held, routedTo,
                    keep_display_on_ids, request_sys_state_ids, active_notifications>>
        /\ UNCHANGED <<nextIds, onBus, busCalls, wanted>>
    BY <1>6 DEF screenVars, sessionVars, logindVars, trackerVars, daemonVars, serviceVars
  <2>2. Serves(<<>>) /\ EndsReachHome(<<>>)
    BY <2>1, NothingServes DEF RequestInv
  <2>3. IdsAreUsed' /\ WantedAreAsked'
    BY <2>1 DEF RequestInv, IdsAreUsed, WantedAreAsked, Asked, Owned
  <2>5. RequestInv'
    BY <2>2, <2>3, ServiceKeepsRequests
  <2>4. EndInv => EndInv'
    BY <2>1, <2>2, ServiceKeepsEnds DEF EndInv, RequestInv, CallersAreThere
  <2> QED BY <2>4, <2>5
<1> QED BY <1>1, <1>2, <1>3, <1>4, <1>5, <1>6 DEF ScreenNext

\* For every set of sessions and clients, any calls in anybody's name and every
\* order in which seat, bus and daemon take their turns: once every call and
\* every event has been handled, what is in the service's tables for a client,
\* begun always and only in the session of its process, is held by that session,
\* if the tracker still knows it; and so is what the client made or left asked
\* for with its own last call, unless another client can call in its name.
THEOREM RequestsAreKept == ScreenSpec => []RequestsAreNotLost
<1>1. ServiceTyped /\ RequestInv => RequestsAreNotLost
  <2> SUFFICES ASSUME ServiceTyped, RequestInv, daemonQueue = <<>>, NEW w \in DOMAIN routedTo,
                      Asked(w) \/ (w \in wanted /\ NamedByItself(w.client)),
                      OwnSession(w), IsThere(SessionOf[w.client])
               PROVE  SessionOf[w.client] \in daemonSessions /\ w \in held[SessionOf[w.client]]
    BY DEF RequestsAreNotLost
  <2>1. w \in Whats
    BY DEF RequestInv, RequestsAreRouted
  <2>2. NoneIn(daemonQueue, About(w))
    BY DEF NoneIn
  <2>3. Served(w)
    BY DEF Served, Home
  <2>4. Asked(w)
    BY DEF RequestInv, WantedAreAsked
  <2> QED BY <2>1, <2>2, <2>3, <2>4 DEF RequestInv, AskedAreHeld, Home
<1>2. TrackerInv /\ ServiceTyped /\ RequestInv /\ [ScreenNext]_screenVars => RequestInv'
  BY NextRequests
<1> QED BY <1>1, <1>2, InitRequests, ScreenInvariant, PTL DEF ScreenSpec

\* And the daemon holds nothing in the session of a client that the client took
\* back, or left behind when it left the bus, if that client waits for its
\* answers before it leaves, is answered of, and is named by nobody but itself,
\* and the daemon takes what the tracker announces before calls are answered;
\* whatever the other clients do, whom they name and how their lookups end.
THEOREM RequestsEnd == ScreenSpec => []RequestsEndWithClient
<1>1. RequestInv /\ EndInv => RequestsEndWithClient
  <2> SUFFICES ASSUME RequestInv, EndInv, daemonQueue = <<>>, NEW s \in daemonSessions \ {InvalidSession},
                      NEW w \in held[s], OwnSession(w), WellServed(w.client)
               PROVE  Asked(w)
    BY DEF RequestsEndWithClient
  <2>1. s \in RoutedTo(w) /\ w \in DOMAIN routedTo /\ routedTo[w] = {Home(w)} /\ w \in Whats
    BY DEF RequestInv, RequestsAreRouted, OwnSession, Home
  <2>2. s = Home(w) /\ s \in Sessions
    BY <2>1, HomeIsSession DEF RoutedTo
  <2>3. \A K : NoneIn(daemonQueue, K)
    BY DEF NoneIn
  <2>4. IsThere(s)
    BY <2>2, <2>3 DEF RequestInv, SessionsFollow
  <2>5. Served(w)
    BY <2>2, <2>4 DEF Served
  <2> QED BY <2>1, <2>2, <2>3, <2>5 DEF EndInv, EndedAreNotHeld
<1>2. TrackerInv /\ ServiceTyped /\ RequestInv /\ EndInv /\ [ScreenNext]_screenVars => RequestInv' /\ EndInv'
  BY NextRequests
<1> QED BY <1>1, <1>2, InitRequests, ScreenInvariant, PTL DEF ScreenSpec

=============================================================================
