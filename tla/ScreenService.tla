--------------------------- MODULE ScreenService ---------------------------
(***************************************************************************)
(* The requests and notifications that clients make of                     *)
(* JingosScreenService, and how they reach the sessions of the daemon.     *)
(* The service remembers what each client asked for, so that it can end    *)
(* it when the client leaves the bus; what a session has been told is kept *)
(* by the session's StateEventAdapter.  Calls come one at a time on the    *)
(* service's loop; for each it asks the bus for the caller's process and   *)
(* the tracker for the session of that process, and queues an event at the *)
(* daemon for the sessions it found.  Three of the calls say themselves    *)
(* whose request they are about, and two of them of which process: any     *)
(* client may make them in the name of any other.                          *)
(***************************************************************************)
EXTENDS SessionTracker, SequencesExt

CONSTANTS
  Clients,
  SessionOf,         \* the session of a client's process, or InvalidSession
  ClientUser,        \* its user: root or one of UserOf
  MethodsOf,         \* the methods that each client calls
  NamesOf,           \* the clients it names, where a call names one
  PidsOf,            \* the processes it names, where a call names one
  EveryProcess,      \* the pid 0
  NoProcess,         \* the pid -1
  PatientClients,    \* those that leave the bus only after every answer
  AnsweredClients,   \* those of whom bus and logind answer in time
  DaemonKeepsUp,     \* activations are handled before clients call
  MaxClientCalls,    \* bound: how many calls clients make
  MaxOutside,        \* bound: calls of clients and changes of the seat together
  MaxCallsWaiting,   \* bound: how many wait for the service
  MaxDepartures      \* bound: how many clients leave

ASSUME ScreenServiceAssumption ==
  /\ SessionOf \in [Clients -> Sessions \cup {InvalidSession}]
  /\ DOMAIN ClientUser = Clients /\ DOMAIN MethodsOf = Clients
  /\ {EveryProcess, NoProcess} \cap Clients = {} /\ EveryProcess # NoProcess
  /\ NamesOf \in [Clients -> SUBSET Clients]
  /\ PidsOf \in [Clients -> SUBSET (Clients \cup {EveryProcess, NoProcess})]
  /\ PatientClients \subseteq Clients /\ AnsweredClients \subseteq Clients
  /\ DaemonKeepsUp \in BOOLEAN
  /\ MaxClientCalls \in Nat /\ MaxOutside \in Nat /\ MaxCallsWaiting \in Nat
  /\ MaxDepartures \in Nat

VARIABLES
  onBus,                  \* clients on the bus
  busCalls,               \* calls and NameOwnerChanged on their way
  callsMade,
  keep_display_on_ids,    \* client by id
  request_sys_state_ids,  \* client by id
  nextIds,                \* next_keep_display_on_id, next_request_sys_state_id
  active_notifications,   \* how many each client has
  held,                   \* by session, what its adapter holds
  routedTo,               \* history: sessions in which something was begun
  wanted                  \* history: what clients had after their own last calls

serviceVars == <<keep_display_on_ids, request_sys_state_ids, nextIds, active_notifications>>
screenVars == <<sessionVars, onBus, busCalls, callsMade, serviceVars, held, routedTo, wanted>>

ScreenInit ==
  /\ TrackerInit
  /\ onBus = Clients /\ busCalls = <<>> /\ callsMade = 0
  /\ keep_display_on_ids = [i \in {} |-> {}] /\ request_sys_state_ids = [i \in {} |-> {}]
  /\ nextIds = [inactivity |-> 1, suspend |-> 1]
  /\ active_notifications = [c \in Clients |-> 0]
  /\ held = [s \in {InvalidSession} |-> {}] /\ routedTo = [h \in {} |-> {}]
  /\ wanted = {}

-----------------------------------------------------------------------------
(* The clients.                                                            *)

Call(c, m, i, n, p) == [sender |-> c, method |-> m, id |-> i, name |-> n, pid |-> p]
NameOwnerChanged(c) == Call(c, "NameOwnerChanged", 0, c, NoProcess)

Ids(m) ==
  CASE m \in {"removeDisplayOnRequest", "keepDisplayOff"} -> 1 .. nextIds.inactivity - 1
    [] m = "clearSysState" -> 1 .. nextIds.suspend - 1
    [] OTHER -> {0}

NamingMethods == {"keepDisplayOn", "keepDisplayOff", "keepDisplayNameOwnerChanged"}

OwnCalls(c) == UNION {{Call(c, m, i, c, c) : i \in Ids(m)} : m \in MethodsOf[c] \ NamingMethods}
NamingCalls(c) ==
  UNION {{Call(c, m, i, n, p) : i \in Ids(m), n \in NamesOf[c], p \in PidsOf[c]} :
           m \in MethodsOf[c] \cap NamingMethods}
ClientCalls(c) == OwnCalls(c) \cup NamingCalls(c)

\* The daemon starts the service once the tracker has started.
ServiceStarted == trackerPhase \in {"started", "unanswered"}

ClientCalling ==
  /\ ServiceStarted
  /\ callsMade < MaxClientCalls /\ callsMade + seatSwitches < MaxOutside /\ Len(busCalls) < MaxCallsWaiting
  /\ \E c \in onBus : \E m \in ClientCalls(c) : busCalls' = Append(busCalls, m)
  /\ callsMade' = callsMade + 1
  /\ UNCHANGED <<sessionVars, onBus, serviceVars, held, routedTo, wanted>>

\* A client leaves, or crashes: its calls are delivered still, and then the
\* bus says that its name has no owner.
ClientLeaves ==
  /\ ServiceStarted /\ Cardinality(Clients \ onBus) < MaxDepartures
  /\ \E c \in onBus :
       /\ c \in PatientClients => \A k \in DOMAIN busCalls : busCalls[k].sender # c
       /\ onBus' = onBus \ {c}
       /\ busCalls' = Append(busCalls, NameOwnerChanged(c))
  /\ UNCHANGED <<sessionVars, callsMade, serviceVars, held, routedTo, wanted>>

-----------------------------------------------------------------------------
(* The service's loop.                                                     *)

What(k, c, i) == [kind |-> k, client |-> c, id |-> i]
Event(e, what, sessions) == [event |-> e, what |-> what, sessions |-> sessions]

\* The bus knows the process of a client that is connected; if it does not,
\* or does not answer in time, the pid is -1.
dbus_get_invocation_sender_pid(c) ==
  {p \in {c, NoProcess} :
     IF p = c THEN c \in onBus ELSE c \notin onBus \cap AnsweredClients}

\* Logind knows the session of a process; it may not answer in time, and knows
\* none of a process that is gone.
dbus_get_session_path_by_pid(pid) ==
  {path \in Sessions \cup {InvalidSession} :
     \/ path = InvalidSession /\ pid \notin onBus \cap AnsweredClients
     \/ pid \in Clients /\ path = SessionOf[pid]}

\* The file system knows the user of a process.
euid_of_pid(pid) ==
  (IF pid \in onBus THEN {} ELSE {"unknown"}) \cup (IF pid \in Clients THEN {ClientUser[pid]} ELSE {})

RoutedTo(what) == IF what \in DOMAIN routedTo THEN routedTo[what] ELSE {}

EventQueued(e, what, sessions) ==
  /\ daemonQueue' = Append(daemonQueue, Event(e, what, sessions))
  /\ routedTo' = IF e = "begin" THEN With(routedTo, what, RoutedTo(what) \cup sessions) ELSE routedTo

\* Queues an event for the session of a process, or for every session that the
\* daemon has at this moment.
QueuedFor(pid, e, what) ==
  \/ /\ pid = EveryProcess
     /\ EventQueued(e, what, daemonSessions) /\ UNCHANGED tracked_sessions
  \/ /\ pid # EveryProcess
     /\ \E path \in dbus_get_session_path_by_pid(pid), user \in euid_of_pid(pid) :
          /\ \E s \in session_for_pid(path, user) : EventQueued(e, what, {s})
          /\ tracked_sessions' = TrackedAfterLookup(path)

NothingQueued == UNCHANGED <<daemonQueue, tracked_sessions, routedTo>>

Owned(table, c) == {i \in DOMAIN table : table[i] = c}

dbus_keepDisplayOn(c, pid) ==
  /\ keep_display_on_ids' = With(keep_display_on_ids, nextIds.inactivity, c)
  /\ nextIds' = [nextIds EXCEPT !.inactivity = @ + 1]
  /\ QueuedFor(pid, "begin", What("inactivity", c, nextIds.inactivity))
  /\ UNCHANGED <<request_sys_state_ids, active_notifications>>

\* Mutant: an id is taken back whoever owns it.
RemoveRequestOfAnyone(c, i, pid) ==
  /\ IF i \in DOMAIN keep_display_on_ids
     THEN /\ keep_display_on_ids' = Restrict(keep_display_on_ids, DOMAIN keep_display_on_ids \ {i})
          /\ QueuedFor(pid, "end", What("inactivity", keep_display_on_ids[i], i))
     ELSE NothingQueued /\ UNCHANGED keep_display_on_ids
  /\ UNCHANGED <<request_sys_state_ids, nextIds, active_notifications>>

dbus_removeDisplayOnRequest(c, i, pid) ==
  /\ IF i \in Owned(keep_display_on_ids, c)
     THEN /\ keep_display_on_ids' = Restrict(keep_display_on_ids, DOMAIN keep_display_on_ids \ {i})
          /\ QueuedFor(pid, "end", What("inactivity", c, i))
     ELSE NothingQueued /\ UNCHANGED keep_display_on_ids
  /\ UNCHANGED <<request_sys_state_ids, nextIds, active_notifications>>

dbus_requestSysState(c, pid) ==
  /\ request_sys_state_ids' = With(request_sys_state_ids, nextIds.suspend, c)
  /\ nextIds' = [nextIds EXCEPT !.suspend = @ + 1]
  /\ QueuedFor(pid, "begin", What("suspend", c, nextIds.suspend))
  /\ UNCHANGED <<keep_display_on_ids, active_notifications>>

dbus_clearSysState(c, i, pid) ==
  /\ IF i \in Owned(request_sys_state_ids, c)
     THEN /\ request_sys_state_ids' = Restrict(request_sys_state_ids, DOMAIN request_sys_state_ids \ {i})
          /\ QueuedFor(pid, "end", What("suspend", c, i))
     ELSE NothingQueued /\ UNCHANGED request_sys_state_ids
  /\ UNCHANGED <<keep_display_on_ids, nextIds, active_notifications>>

\* setScreenPowerMode for a notification: ids count from 0 for each client.
dbus_setScreenPowerMode(c, mode, pid) ==
  /\ \/ /\ mode = "on"
        /\ active_notifications' = [active_notifications EXCEPT ![c] = @ + 1]
        /\ QueuedFor(pid, "begin", What("notification", c, active_notifications[c]))
     \/ /\ mode = "off" /\ active_notifications[c] > 0
        /\ active_notifications' = [active_notifications EXCEPT ![c] = @ - 1]
        /\ QueuedFor(pid, "end", What("notification", c, active_notifications[c] - 1))
     \/ mode = "off" /\ active_notifications[c] = 0 /\ NothingQueued /\ UNCHANGED active_notifications
  /\ UNCHANGED <<keep_display_on_ids, request_sys_state_ids, nextIds>>

\* All that a client asked for, in the order in which its end is queued.
AskedBy(c) ==
  [k \in DOMAIN SetToSeq(Owned(keep_display_on_ids, c)) |->
     What("inactivity", c, SetToSeq(Owned(keep_display_on_ids, c))[k])]
  \o [k \in DOMAIN SetToSeq(Owned(request_sys_state_ids, c)) |->
        What("suspend", c, SetToSeq(Owned(request_sys_state_ids, c))[k])]
  \o [k \in 1 .. active_notifications[c] |-> What("notification", c, k - 1)]

\* Mutant: notifications survive the client that made them.
NameOwnerChangedKeepsNotifications(c) ==
  /\ daemonQueue' = daemonQueue \o
       [k \in 1 .. Len(AskedBy(c)) - active_notifications[c] |->
          Event("end", AskedBy(c)[k], daemonSessions)]
  /\ keep_display_on_ids' =
       Restrict(keep_display_on_ids, DOMAIN keep_display_on_ids \ Owned(keep_display_on_ids, c))
  /\ request_sys_state_ids' =
       Restrict(request_sys_state_ids, DOMAIN request_sys_state_ids \ Owned(request_sys_state_ids, c))
  /\ active_notifications' = [active_notifications EXCEPT ![c] = 0]
  /\ UNCHANGED <<nextIds, tracked_sessions, routedTo>>

\* A name has no owner any more: what it asked for ends in every session that
\* the daemon has at this moment (pid 0).
dbus_NameOwnerChanged(c) ==
  /\ daemonQueue' = daemonQueue \o
       [k \in DOMAIN AskedBy(c) |-> Event("end", AskedBy(c)[k], daemonSessions)]
  /\ keep_display_on_ids' =
       Restrict(keep_display_on_ids, DOMAIN keep_display_on_ids \ Owned(keep_display_on_ids, c))
  /\ request_sys_state_ids' =
       Restrict(request_sys_state_ids, DOMAIN request_sys_state_ids \ Owned(request_sys_state_ids, c))
  /\ active_notifications' = [active_notifications EXCEPT ![c] = 0]
  /\ UNCHANGED <<nextIds, tracked_sessions, routedTo>>

dbus_method_call(m) ==
  \/ m.method = "keepDisplayOn" /\ dbus_keepDisplayOn(m.name, m.pid)
  \/ m.method = "keepDisplayOff" /\ dbus_removeDisplayOnRequest(m.name, m.id, m.pid)
  \/ m.method = "keepDisplayNameOwnerChanged" /\ dbus_NameOwnerChanged(m.name)
  \/ m.method = "NameOwnerChanged" /\ dbus_NameOwnerChanged(m.name)
  \/ \E pid \in dbus_get_invocation_sender_pid(m.sender) :
       \/ m.method = "displayOnRequest" /\ dbus_keepDisplayOn(m.sender, pid)
       \/ m.method = "removeDisplayOnRequest" /\ dbus_removeDisplayOnRequest(m.sender, m.id, pid)
       \/ m.method = "requestSysState" /\ dbus_requestSysState(m.sender, pid)
       \/ m.method = "clearSysState" /\ dbus_clearSysState(m.sender, m.id, pid)
       \/ m.method = "notification_on" /\ dbus_setScreenPowerMode(m.sender, "on", pid)
       \/ m.method = "notification_off" /\ dbus_setScreenPowerMode(m.sender, "off", pid)

Asked(w) ==
  \/ w.kind = "inactivity" /\ w.id \in Owned(keep_display_on_ids, w.client)
  \/ w.kind = "suspend" /\ w.id \in Owned(request_sys_state_ids, w.client)
  \/ w.kind = "notification" /\ w.id < active_notifications[w.client]

\* What a client wants is what the service has for it after its own call.
WantedAfter(c) ==
  {w \in wanted : w.client # c} \cup {w \in DOMAIN routedTo' : w.client = c /\ Asked(w)'}

ServiceHandles ==
  /\ busCalls # <<>>
  /\ DaemonKeepsUp => \A k \in DOMAIN daemonQueue : daemonQueue[k].event # "session_activated"
  /\ dbus_method_call(Head(busCalls))
  /\ wanted' = WantedAfter(Head(busCalls).sender)
  /\ busCalls' = Tail(busCalls)
  /\ UNCHANGED <<logindVars, seatSignals, trackerPhase, active_session_id,
                 ignore_session_deactivation, daemonSessions, daemonActive, onBus, callsMade, held>>

-----------------------------------------------------------------------------
(* The daemon's thread.                                                    *)

\* A session it does not know (any more) is skipped.
DaemonTakesRequest ==
  /\ daemonQueue # <<>> /\ Head(daemonQueue).event \in {"begin", "end"}
  /\ LET m == Head(daemonQueue)
     IN held' = [s \in daemonSessions |->
                   IF s \notin m.sessions THEN held[s]
                   ELSE IF m.event = "begin" THEN held[s] \cup {m.what} ELSE held[s] \ {m.what}]
  /\ daemonQueue' = Tail(daemonQueue)
  /\ UNCHANGED <<logindVars, seatSignals, trackerVars, daemonSessions, daemonActive,
                 onBus, busCalls, callsMade, serviceVars, routedTo, wanted>>

\* Mutant: a session that comes to the front again is made anew.
DaemonMakesSessionAnew ==
  /\ DaemonTakesSessionEvent
  /\ held' = [s \in daemonSessions' |->
                IF s \in DOMAIN held /\ s # Head(daemonQueue).session THEN held[s] ELSE {}]
  /\ UNCHANGED <<onBus, busCalls, callsMade, serviceVars, routedTo, wanted>>

\* A session's adapter comes and goes with it.
DaemonTakesSession ==
  /\ DaemonTakesSessionEvent
  /\ held' = [s \in daemonSessions' |-> IF s \in DOMAIN held THEN held[s] ELSE {}]
  /\ UNCHANGED <<onBus, busCalls, callsMade, serviceVars, routedTo, wanted>>

LogindOrTracker ==
  /\ TrackerNext
  /\ seatSwitches' + callsMade <= MaxOutside
  /\ UNCHANGED <<onBus, busCalls, callsMade, serviceVars, held, routedTo, wanted>>

ScreenNext ==
  \/ LogindOrTracker
  \/ ClientCalling \/ ClientLeaves \/ ServiceHandles
  \/ DaemonTakesRequest \/ DaemonTakesSession

ScreenSpec == ScreenInit /\ [][ScreenNext]_screenVars

-----------------------------------------------------------------------------
(* Properties.                                                             *)

ScreenTypeOK ==
  /\ onBus \subseteq Clients /\ callsMade \in 0 .. MaxClientCalls
  /\ DOMAIN keep_display_on_ids \subseteq 1 .. nextIds.inactivity - 1
  /\ DOMAIN request_sys_state_ids \subseteq 1 .. nextIds.suspend - 1
  /\ active_notifications \in [Clients -> Nat]
  /\ DOMAIN held = daemonSessions

\* What was begun for a client, and not but in the session of its process: it
\* has one, which was found each time (ids of notifications come again).
OwnSession(w) ==
  /\ w \in DOMAIN routedTo /\ SessionOf[w.client] # InvalidSession
  /\ routedTo[w] = {SessionOf[w.client]}

\* Nobody else makes calls in its name.
NamedByItself(c) == \A d \in Clients \ {c} : c \notin NamesOf[d]

\* It stays until it is answered, is answered of, and names itself if anybody.
WellServed(c) ==
  /\ DaemonKeepsUp /\ c \in PatientClients \cap AnsweredClients
  /\ NamedByItself(c) /\ (c \in NamesOf[c] => PidsOf[c] \subseteq {c})

\* Of the service, the tracker and the daemon together: when the daemon has
\* handled its queue, no session is kept awake, lit or notified on behalf of
\* a client that took its request back or has left, if the client is served
\* well: whatever the others do, whose lookups may fail, who may leave before
\* they are answered, name other clients, other processes and all of them.
RequestsEndWithClient ==
  (busCalls = <<>> /\ daemonQueue = <<>>) =>
    \A s \in daemonSessions \ {InvalidSession} : \A w \in held[s] :
      OwnSession(w) /\ WellServed(w.client) => Asked(w)

\* The session exists, as far as the tracker knows.
IsThere(s) ==
  s \in Tracked /\ tracked_sessions[s].path # InvalidSession /\ tracked_sessions[s].compatible

\* Of the order on the daemon's queue: a session is announced before requests
\* are routed to it, so none is skipped because its session is not there yet.
\* What the service has in its tables is held in the session for which it was
\* begun; and so is what the client has not taken back, for nobody's call,
\* departure or session's end takes it away but one made in the client's name.
RequestsAreNotLost ==
  (busCalls = <<>> /\ daemonQueue = <<>>) =>
    \A w \in DOMAIN routedTo :
      LET s == SessionOf[w.client]
      IN (Asked(w) \/ (w \in wanted /\ NamedByItself(w.client))) /\ OwnSession(w) /\ IsThere(s) =>
           s \in daemonSessions /\ w \in held[s]

\* The claim of a test: what a client asked for ends when it disconnects.  With
\* no client left, nothing is held for one.  It does not hold of a client that
\* leaves early or that another one names.
NothingOutlivesClients ==
  (onBus = {} /\ busCalls = <<>> /\ daemonQueue = <<>>) =>
    \A s \in daemonSessions : held[s] = {}

=============================================================================
