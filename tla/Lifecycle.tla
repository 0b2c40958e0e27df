----------------------------- MODULE Lifecycle -----------------------------
(***************************************************************************)
(* The life of Daemon::run: handlers are registered at the ports, event    *)
(* processing is started, events are taken from the queue until somebody   *)
(* stops the daemon, and the registrations end.  Every port works on the   *)
(* thread of its event loop, which takes its tasks in order: to register   *)
(* or unregister the handler, for which main waits, and to call it.  The   *)
(* handler queues an event under the mutex of the action queue; that of a  *)
(* client's request first waits for the loop of the session tracker.       *)
(* SIGINT or SIGTERM interrupts any thread, also one that holds the mutex. *)
(*                                                                         *)
(* Three ports stand for all: one started first, one that waits for        *)
(* another loop, and a plain one (the power button, user activity, ...).   *)
(***************************************************************************)
EXTENDS SequencesExt

CONSTANT MaxPortSignals  \* bound: what the world reports to the ports

ASSUME LifecycleAssumption == MaxPortSignals \in Nat

Ports == {"power_button", "client_requests", "session_tracker"}

\* The orders in which run registers and starts them.
register_event_handlers == <<"power_button", "client_requests", "session_tracker">>

\* Mutant: clients may call before the session tracker has started.
StartClientsFirst == <<"client_requests", "session_tracker", "power_button">>

start_event_processing == <<"session_tracker", "client_requests", "power_button">>

\* Threads: main, the loops, and one of GLib's that runs none of this code.
Threads == Ports \cup {"main", "worker"}
Nobody == "nobody"

VARIABLES
  mainAt,       \* what main is doing
  mainPort,     \* the port it registers, starts or unregisters, by number
  mainAsked,    \* and whether it waits for that port's loop
  loopTasks,    \* by port
  handlerAt,    \* by port, how far its loop is in the handler
  handlerSet,   \* by port, whether the daemon's handler is registered
  portStarted,
  action_queue,
  action_queue_mutex,  \* the thread that holds it, or Nobody
  running,
  stopSignal,   \* [at |-> "none", "handling", "done"; thread |-> interrupted one]
  portSignals,  \* how many the world has sent
  firstEvent    \* history: the port of the first event queued, or Nobody

lifeVars == <<mainAt, mainPort, mainAsked, loopTasks, handlerAt, handlerSet, portStarted,
              action_queue, action_queue_mutex, running, stopSignal, portSignals, firstEvent>>

mainVars == <<mainAt, mainPort, mainAsked>>
queueVars == <<action_queue, action_queue_mutex, running, firstEvent>>
loopVars == <<handlerAt, handlerSet>>

LifeInit ==
  /\ mainAt = "registering" /\ mainPort = 1 /\ mainAsked = FALSE
  /\ loopTasks = [p \in Ports |-> <<>>]
  /\ handlerAt = [p \in Ports |-> "idle"] /\ handlerSet = [p \in Ports |-> FALSE]
  /\ portStarted = [p \in Ports |-> FALSE]
  /\ action_queue = <<>> /\ action_queue_mutex = Nobody /\ running = FALSE
  /\ stopSignal = [at |-> "none", thread |-> Nobody]
  /\ portSignals = 0 /\ firstEvent = Nobody

\* A thread runs unless a signal has interrupted it.
Runs(t) == stopSignal.at # "handling" \/ stopSignal.thread # t

-----------------------------------------------------------------------------
(* Main.                                                                   *)

\* EventLoopHandlerRegistration: a task for the loop, and a wait for it.
MainAsks(p, task) ==
  /\ ~mainAsked /\ mainAsked' = TRUE
  /\ loopTasks' = [loopTasks EXCEPT ![p] = Append(@, task)]
  /\ UNCHANGED <<mainAt, mainPort>>

PortOf(at, n) == IF at = "starting" THEN start_event_processing[n] ELSE register_event_handlers[n]
TaskOf(at) == CASE at = "registering" -> "register" [] at = "starting" -> "start"
                [] at = "unregistering" -> "unregister"
AfterPorts(at) == CASE at = "registering" -> "starting" [] at = "starting" -> "entering"
                    [] at = "unregistering" -> "ended"

\* register_event_handlers and start_event_processing; and, when run returns,
\* the end of its registrations.
MainAsksPort ==
  /\ Runs("main") /\ mainAt \in {"registering", "starting", "unregistering"}
  /\ MainAsks(PortOf(mainAt, mainPort), TaskOf(mainAt))
  /\ UNCHANGED <<loopVars, portStarted, queueVars, stopSignal, portSignals>>

\* Mutant: the loop is asked, and nobody waits for it.
TaskNotAwaited(p) == TRUE

\* The wait for the loop is over.
TaskDone(p) == TaskOf(mainAt) \notin Range(loopTasks[p])

MainGoesOn ==
  /\ Runs("main") /\ mainAsked
  /\ TaskDone(PortOf(mainAt, mainPort))
  /\ mainAsked' = FALSE
  /\ IF mainPort < Len(register_event_handlers)
     THEN mainPort' = mainPort + 1 /\ UNCHANGED mainAt
     ELSE mainPort' = 1 /\ mainAt' = AfterPorts(mainAt)
  /\ UNCHANGED <<loopTasks, loopVars, portStarted, queueVars, stopSignal, portSignals>>

MainEnters ==
  /\ Runs("main") /\ mainAt = "entering"
  /\ running' = TRUE /\ mainAt' = "checking"
  /\ UNCHANGED <<mainPort, mainAsked, loopTasks, loopVars, portStarted, action_queue,
                 action_queue_mutex, stopSignal, portSignals, firstEvent>>

\* The loop of run, once round: dequeue_action takes the mutex, ...
MainChecks ==
  /\ Runs("main") /\ mainAt = "checking"
  /\ IF running THEN /\ action_queue_mutex = Nobody
                     /\ action_queue_mutex' = "main" /\ mainAt' = "locked"
     ELSE mainAt' = "unregistering" /\ UNCHANGED action_queue_mutex
  /\ UNCHANGED <<mainPort, mainAsked, loopTasks, loopVars, portStarted, action_queue, running,
                 stopSignal, portSignals, firstEvent>>

\* ... waits without it while there is nothing to do, ...
MainWaits ==
  /\ Runs("main") /\ mainAt = "locked" /\ action_queue = <<>>
  /\ mainAt' = "waiting" /\ action_queue_mutex' = Nobody
  /\ UNCHANGED <<mainPort, mainAsked, loopTasks, loopVars, portStarted, action_queue, running,
                 stopSignal, portSignals, firstEvent>>

MainWakes ==
  /\ Runs("main") /\ mainAt = "waiting" /\ action_queue # <<>> /\ action_queue_mutex = Nobody
  /\ mainAt' = "locked" /\ action_queue_mutex' = "main"
  /\ UNCHANGED <<mainPort, mainAsked, loopTasks, loopVars, portStarted, action_queue, running,
                 stopSignal, portSignals, firstEvent>>

\* ... and takes the first action, which runs.
MainTakes ==
  /\ Runs("main") /\ mainAt = "locked" /\ action_queue # <<>>
  /\ action_queue' = Tail(action_queue) /\ action_queue_mutex' = Nobody
  /\ running' = (Head(action_queue) # "stop") /\ mainAt' = "checking"
  /\ UNCHANGED <<mainPort, mainAsked, loopTasks, loopVars, portStarted, stopSignal, portSignals,
                 firstEvent>>

-----------------------------------------------------------------------------
(* The loops.                                                              *)

\* A signal, a call or a message from the outside, once the port listens.
PortSignalled(p) ==
  /\ portStarted[p] /\ mainAt # "ended" /\ portSignals < MaxPortSignals
  /\ portSignals' = portSignals + 1
  /\ loopTasks' = [loopTasks EXCEPT ![p] = Append(@, "signal")]
  /\ UNCHANGED <<mainVars, loopVars, portStarted, queueVars, stopSignal>>

\* What starting and signals make a loop do: the session tracker tells the
\* active session when it starts.
CallsHandler(p, task) == handlerSet[p] /\ (task = "signal" \/ (task = "start" /\ p = "session_tracker"))

\* Registered, the handler is the daemon's; unregistered, one that does nothing.
SetHandler(p, task) ==
  handlerSet' = [handlerSet EXCEPT ![p] = IF task \in {"register", "unregister"}
                                          THEN task = "register" ELSE @]

\* A task that calls the handler is done when the handler returns.
LoopTakes(p) ==
  /\ Runs(p) /\ handlerAt[p] = "idle" /\ loopTasks[p] # <<>>
  /\ LET task == Head(loopTasks[p])
         looksUp == CallsHandler(p, task) /\ p = "client_requests"
     IN /\ SetHandler(p, task)
        /\ portStarted' = IF task = "start" THEN [portStarted EXCEPT ![p] = TRUE] ELSE portStarted
        /\ handlerAt' = IF CallsHandler(p, task)
                        THEN [handlerAt EXCEPT ![p] = IF looksUp THEN "asking" ELSE "queueing"]
                        ELSE handlerAt
        /\ loopTasks' =
             IF looksUp THEN [loopTasks EXCEPT !["session_tracker"] = Append(@, "session_for_pid")]
             ELSE IF CallsHandler(p, task) THEN loopTasks
             ELSE [loopTasks EXCEPT ![p] = Tail(@)]
  /\ UNCHANGED <<mainVars, queueVars, stopSignal, portSignals>>

\* session_for_pid has run on the tracker's loop.
SessionKnown(p) ==
  /\ Runs(p) /\ handlerAt[p] = "asking"
  /\ "session_for_pid" \notin Range(loopTasks["session_tracker"])
  /\ handlerAt' = [handlerAt EXCEPT ![p] = "queueing"]
  /\ UNCHANGED <<mainVars, loopTasks, handlerSet, portStarted, queueVars, stopSignal, portSignals>>

LockQueue(p) ==
  /\ Runs(p) /\ handlerAt[p] = "queueing" /\ action_queue_mutex = Nobody
  /\ action_queue_mutex' = p /\ handlerAt' = [handlerAt EXCEPT ![p] = "locked"]
  /\ UNCHANGED <<mainVars, loopTasks, handlerSet, portStarted, action_queue, running, stopSignal,
                 portSignals, firstEvent>>

enqueue_action(p) ==
  /\ Runs(p) /\ handlerAt[p] = "locked"
  /\ action_queue' = Append(action_queue, p)
  /\ action_queue_mutex' = Nobody /\ handlerAt' = [handlerAt EXCEPT ![p] = "idle"]
  /\ loopTasks' = [loopTasks EXCEPT ![p] = Tail(@)]
  /\ firstEvent' = IF firstEvent = Nobody THEN p ELSE firstEvent
  /\ UNCHANGED <<mainVars, handlerSet, portStarted, running, stopSignal, portSignals>>

-----------------------------------------------------------------------------
(* The signal handler of main.cpp, which is set before run is called.      *)

Interrupt ==
  /\ stopSignal.at = "none" /\ mainAt # "ended"
  /\ \E t \in Threads : stopSignal' = [at |-> "handling", thread |-> t]
  /\ UNCHANGED <<mainVars, loopTasks, loopVars, portStarted, queueVars, portSignals>>

\* Mutant: the stop waits for its turn.
StopLast ==
  /\ stopSignal.at = "handling" /\ action_queue_mutex = Nobody
  /\ action_queue' = Append(action_queue, "stop")
  /\ stopSignal' = [at |-> "done", thread |-> Nobody]
  /\ UNCHANGED <<mainVars, loopTasks, loopVars, portStarted, action_queue_mutex, running,
                 portSignals, firstEvent>>

\* Daemon::stop: before all that is queued.  The mutex is not recursive.
stop ==
  /\ stopSignal.at = "handling" /\ action_queue_mutex = Nobody
  /\ action_queue' = <<"stop">> \o action_queue
  /\ stopSignal' = [at |-> "done", thread |-> Nobody]
  /\ UNCHANGED <<mainVars, loopTasks, loopVars, portStarted, action_queue_mutex, running,
                 portSignals, firstEvent>>

-----------------------------------------------------------------------------
MainSteps == MainAsksPort \/ MainGoesOn \/ MainEnters \/ MainChecks \/ MainWaits \/ MainWakes \/ MainTakes
LoopSteps(p) == LoopTakes(p) \/ SessionKnown(p) \/ LockQueue(p) \/ enqueue_action(p)

LifeNext ==
  \/ MainSteps
  \/ \E p \in Ports : LoopSteps(p) \/ PortSignalled(p)
  \/ Interrupt \/ stop

\* The threads run; the world and the signal may never come.
LifeFairness ==
  /\ WF_lifeVars(MainSteps) /\ WF_lifeVars(stop)
  /\ \A p \in Ports : WF_lifeVars(LoopSteps(p))

LifeSpec == LifeInit /\ [][LifeNext]_lifeVars /\ LifeFairness

-----------------------------------------------------------------------------
LifeTypeOK ==
  /\ mainAt \in {"registering", "starting", "entering", "checking", "locked", "waiting",
                 "unregistering", "ended"}
  /\ mainPort \in 1 .. Len(register_event_handlers) /\ mainAsked \in BOOLEAN
  /\ handlerAt \in [Ports -> {"idle", "asking", "queueing", "locked"}]
  /\ handlerSet \in [Ports -> BOOLEAN] /\ portStarted \in [Ports -> BOOLEAN]
  /\ action_queue_mutex \in Ports \cup {"main", Nobody} /\ running \in BOOLEAN
  /\ (action_queue_mutex = "main") = (mainAt = "locked")

\* When run has returned, no port's loop is in a handler of the daemon, nor
\* will be: nothing touches the daemon after its end, although the loops go
\* on and signals are on their way.
HandlersEndFirst ==
  mainAt = "ended" => \A p \in Ports : ~handlerSet[p] /\ handlerAt[p] = "idle"

\* The first event that the daemon gets is the session tracker's: clients'
\* requests find the active session ("Start first so that the initial active
\* session becomes known", daemon.cpp:419).
InitialSessionFirst == firstEvent \in {Nobody, "session_tracker"}

\* A stop overtakes all that is queued: once it is, no event is taken.
StopComesFirst ==
  [][MainTakes /\ "stop" \in Range(action_queue) => Head(action_queue) = "stop"]_lifeVars

\* The signal handler waits for a mutex that the thread it interrupted holds.
SignalIsStuck == stopSignal.at = "handling" /\ action_queue_mutex = stopSignal.thread

\* Whenever the signal comes, also while the daemon still starts, the
\* daemon ends: unless the signal finds its thread with the mutex locked.
StopIsHeeded == stopSignal.at = "handling" ~> (mainAt = "ended" \/ SignalIsStuck)

\* Of the beginning and the end of Daemon::run: the first event is the active
\* session, and no handler outlives the run.
RunIsOrderly == HandlersEndFirst /\ InitialSessionFirst

=============================================================================
