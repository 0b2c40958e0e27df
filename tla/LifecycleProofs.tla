--------------------------- MODULE LifecycleProofs ---------------------------
(***************************************************************************)
(* That Daemon::run begins with the active session and leaves no handler   *)
(* behind, and that a stop overtakes what is queued, for any number of     *)
(* signals from the world.                                                 *)
(*                                                                         *)
(* Main waits for a loop by the task it has put there.  So a task of main  *)
(* on a loop says where main is (ControlTasks), and once the task is gone  *)
(* its effect is there (HandlersFollowMain, TrackerFirst).  A loop that is *)
(* inside the handler still has the task in front that made it call        *)
(* (HandlersHaveTasks), and that is never one of main's.                   *)
(*                                                                         *)
(* And of what comes before the run: that every object there is, is the    *)
(* first of its alternatives that can be had and was made once, and that   *)
(* the configuration has the last element of each name, for any names and  *)
(* texts.                                                                  *)
(***************************************************************************)
EXTENDS Lifecycle, StartUp, DeviceFiles, QueueLemmas

Tasks == {"register", "start", "unregister", "signal", "session_for_pid"}
HandlerPlaces == {"idle", "asking", "queueing", "locked"}
MainPlaces == {"registering", "starting", "entering", "checking", "locked", "waiting",
               "unregistering", "ended"}
RunPlaces == {"starting", "entering", "checking", "locked", "waiting"}

LifeTyped ==
  /\ mainAt \in MainPlaces /\ mainPort \in 1 .. 3 /\ mainAsked \in BOOLEAN
  /\ loopTasks \in [Ports -> Seq(Tasks)]
  /\ handlerAt \in [Ports -> HandlerPlaces]
  /\ handlerSet \in [Ports -> BOOLEAN] /\ portStarted \in [Ports -> BOOLEAN]
  /\ action_queue \in Seq(Ports \cup {"stop"})
  /\ action_queue_mutex \in Ports \cup {"main", Nobody} /\ running \in BOOLEAN
  /\ stopSignal \in [at : {"none", "handling", "done"}, thread : Threads \cup {Nobody}]
  /\ firstEvent \in Ports \cup {Nobody}

\* Who is inside dequeue_action or enqueue_action holds the mutex.
MutexHeld ==
  /\ action_queue_mutex = "main" <=> mainAt = "locked"
  /\ \A p \in Ports : action_queue_mutex = p <=> handlerAt[p] = "locked"

\* The tasks on a loop.
OnLoop(p) == Range(loopTasks[p])

\* The port main is at, and whether main is at p or has been.
AtPort(p) == p = PortOf(mainAt, mainPort)
Passed(p) == \E k \in 1 .. 3 : k < mainPort /\ p = PortOf(mainAt, k)

ControlTasks ==
  /\ mainAsked => mainAt \in {"registering", "starting", "unregistering"}
  /\ mainAt \notin {"registering", "starting", "unregistering"} => mainPort = 1
  /\ \A p \in Ports : \A c \in {"register", "start", "unregister"} :
       c \in OnLoop(p) => mainAsked /\ c = TaskOf(mainAt) /\ AtPort(p)

HandlersHaveTasks ==
  \A p \in Ports : handlerAt[p] # "idle" =>
    /\ loopTasks[p] # <<>>
    /\ \/ Head(loopTasks[p]) = "signal"
       \/ Head(loopTasks[p]) = "start" /\ p = "session_tracker"

Quiet(p) == ~handlerSet[p] /\ handlerAt[p] = "idle"

HandlersFollowMain ==
  \A p \in Ports :
    /\ mainAt = "registering" =>
         /\ Passed(p) => handlerSet[p]
         /\ AtPort(p) /\ mainAsked => "register" \in OnLoop(p) \/ handlerSet[p]
    /\ mainAt \in RunPlaces => handlerSet[p]
    /\ mainAt = "unregistering" =>
         /\ Passed(p) => Quiet(p)
         /\ AtPort(p) /\ mainAsked => "unregister" \in OnLoop(p) \/ Quiet(p)
    /\ mainAt = "ended" => Quiet(p)

\* Before the first event nothing has started but the session tracker, and
\* main goes on to the next port only after it.
TrackerFirst ==
  /\ firstEvent \in {Nobody, "session_tracker"}
  /\ firstEvent = Nobody =>
       /\ \A p \in Ports \ {"session_tracker"} :
            /\ ~portStarted[p] /\ handlerAt[p] = "idle"
            /\ OnLoop(p) \cap {"start", "signal"} = {}
       /\ \/ mainAt = "registering"
          \/ /\ mainAt = "starting" /\ mainPort = 1
             /\ mainAsked => "start" \in OnLoop("session_tracker")

\* One stop, in front of everything.
StopInFront ==
  /\ stopSignal.at # "done" => "stop" \notin Range(action_queue)
  /\ action_queue # <<>> => "stop" \notin Range(Tail(action_queue))

LifeInv ==
  LifeTyped /\ MutexHeld /\ ControlTasks /\ HandlersHaveTasks /\ HandlersFollowMain
    /\ TrackerFirst /\ StopInFront

-----------------------------------------------------------------------------
\* A task is put on the loop of p.
LEMMA LoopAsked ==
  ASSUME loopTasks \in [Ports -> Seq(Tasks)], NEW p \in Ports, NEW t \in Tasks,
         loopTasks' = [loopTasks EXCEPT ![p] = Append(@, t)]
  PROVE  /\ loopTasks' \in [Ports -> Seq(Tasks)]
         /\ OnLoop(p)' = OnLoop(p) \cup {t} /\ loopTasks'[p] # <<>>
         /\ loopTasks[p] # <<>> => Head(loopTasks'[p]) = Head(loopTasks[p])
         /\ \A q \in Ports \ {p} : loopTasks'[q] = loopTasks[q] /\ OnLoop(q)' = OnLoop(q)
<1> DEFINE s == loopTasks[p]
<1>1. s \in Seq(Tasks) /\ loopTasks'[p] = Append(s, t)
      /\ \A q \in Ports \ {p} : loopTasks'[q] = loopTasks[q]
  OBVIOUS
<1>2. OnLoop(p) = Range(s) /\ OnLoop(p)' = Range(Append(s, t))
  BY <1>1 DEF OnLoop
<1> HIDE DEF s
<1>3. /\ Append(s, t) \in Seq(Tasks) /\ Append(s, t) # <<>>
      /\ Range(Append(s, t)) = Range(s) \cup {t}
      /\ s # <<>> => Head(Append(s, t)) = Head(s)
  BY <1>1, Appended
<1>4. \A q \in Ports \ {p} : OnLoop(q)' = OnLoop(q)
  BY <1>1 DEF OnLoop
<1>5. loopTasks' \in [Ports -> Seq(Tasks)]
  BY <1>1, <1>3
<1> QED BY <1>1, <1>2, <1>3, <1>4, <1>5 DEF s

\* The loop of p is done with its first task.
LEMMA LoopDone ==
  ASSUME loopTasks \in [Ports -> Seq(Tasks)], NEW p \in Ports, loopTasks[p] # <<>>,
         loopTasks' = [loopTasks EXCEPT ![p] = Tail(@)]
  PROVE  /\ loopTasks' \in [Ports -> Seq(Tasks)]
         /\ Head(loopTasks[p]) \in Tasks
         /\ OnLoop(p) = OnLoop(p)' \cup {Head(loopTasks[p])}
         /\ \A q \in Ports \ {p} : loopTasks'[q] = loopTasks[q] /\ OnLoop(q)' = OnLoop(q)
<1> DEFINE s == loopTasks[p]
<1>1. s \in Seq(Tasks) /\ s # <<>> /\ loopTasks'[p] = Tail(s)
      /\ \A q \in Ports \ {p} : loopTasks'[q] = loopTasks[q]
  OBVIOUS
<1>2. OnLoop(p) = Range(s) /\ OnLoop(p)' = Range(Tail(s))
  BY <1>1 DEF OnLoop
<1> HIDE DEF s
<1>3. Head(s) \in Tasks /\ Tail(s) \in Seq(Tasks) /\ Range(s) = Range(Tail(s)) \cup {Head(s)}
  BY <1>1, Taken
<1>4. \A q \in Ports \ {p} : OnLoop(q)' = OnLoop(q)
  BY <1>1 DEF OnLoop
<1>5. loopTasks' \in [Ports -> Seq(Tasks)]
  BY <1>1, <1>3
<1> QED BY <1>1, <1>2, <1>3, <1>4, <1>5 DEF s

\* A loop's first task is on the loop.
LEMMA FirstIsOnLoop ==
  ASSUME loopTasks \in [Ports -> Seq(Tasks)], NEW p \in Ports, loopTasks[p] # <<>>
  PROVE  Head(loopTasks[p]) \in OnLoop(p) /\ Head(loopTasks[p]) \in Tasks
<1> DEFINE s == loopTasks[p]
<1>1. s \in Seq(Tasks) /\ s # <<>> /\ OnLoop(p) = Range(s)
  BY DEF OnLoop
<1> HIDE DEF s
<1>2. Head(s) \in Tasks /\ Head(s) \in Range(s)
  BY <1>1, Taken
<1> QED BY <1>1, <1>2 DEF s

\* The port main is at, in each of its rounds over the ports.
LEMMA PortsInTurn ==
  ASSUME NEW at \in MainPlaces
  PROVE  /\ \A k \in 1 .. 3 : PortOf(at, k) \in Ports
         /\ \A p \in Ports : \E k \in 1 .. 3 : p = PortOf(at, k)
         /\ PortOf("starting", 1) = "session_tracker"
BY DEF PortOf, start_event_processing, register_event_handlers, Ports, MainPlaces

\* Three ports.
LEMMA ThreePorts == Len(register_event_handlers) = 3
BY DEF register_event_handlers

\* Nothing is created, running or queued.
LEMMA InitLifeInv == LifeInit => LifeInv
<1> SUFFICES ASSUME LifeInit PROVE LifeInv
  OBVIOUS
<1> USE DEF LifeInit, Quiet, OnLoop
<1>1. LifeTyped
  <2>1. loopTasks \in [Ports -> Seq(Tasks)] /\ action_queue \in Seq(Ports \cup {"stop"})
    BY EmptyQueue
  <2>2. stopSignal \in [at : {"none", "handling", "done"}, thread : Threads \cup {Nobody}]
    OBVIOUS
  <2>3. handlerAt \in [Ports -> HandlerPlaces]
    BY DEF HandlerPlaces
  <2>4. handlerSet \in [Ports -> BOOLEAN] /\ portStarted \in [Ports -> BOOLEAN]
    OBVIOUS
  <2>5. mainAt \in MainPlaces
    BY DEF MainPlaces
  <2>6. mainPort \in 1 .. 3
    OBVIOUS
  <2>7. action_queue_mutex \in Ports \cup {"main", Nobody} /\ firstEvent \in Ports \cup {Nobody}
    OBVIOUS
  <2> QED BY <2>1, <2>2, <2>3, <2>4, <2>5, <2>6, <2>7, Zenon DEF LifeTyped
<1>2. MutexHeld
  BY DEF MutexHeld, Ports, Nobody
<1>3. \A p \in Ports : OnLoop(p) = {}
  BY EmptyQueue
<1>4. ControlTasks /\ HandlersHaveTasks
  BY <1>3 DEF ControlTasks, HandlersHaveTasks
<1>5. HandlersFollowMain
  BY DEF HandlersFollowMain, Passed, RunPlaces
<1>6. TrackerFirst
  BY <1>3 DEF TrackerFirst
<1>7. StopInFront
  BY EmptyQueue DEF StopInFront
<1> QED BY <1>1, <1>2, <1>4, <1>5, <1>6, <1>7 DEF LifeInv

\* Main asks the next port's loop.
LEMMA MainAsksPortKeeps == ASSUME LifeInv, MainAsksPort PROVE LifeInv'
<1> USE DEF LifeInv, LifeTyped
<1>1. PICK q \in Ports : q = PortOf(mainAt, mainPort)
  BY PortsInTurn
<1>2. mainAt \in {"registering", "starting", "unregistering"}
  BY DEF MainAsksPort
<1>3. PICK t \in {"register", "start", "unregister"} : t = TaskOf(mainAt)
  BY <1>2 DEF TaskOf
<1>4. /\ ~mainAsked /\ mainAsked' = TRUE
      /\ loopTasks' = [loopTasks EXCEPT ![q] = Append(@, t)] /\ t \in Tasks
      /\ UNCHANGED <<mainAt, mainPort, handlerAt, handlerSet, portStarted, action_queue,
                     action_queue_mutex, running, firstEvent, stopSignal, portSignals>>
  BY <1>1, <1>3 DEF MainAsksPort, MainAsks, loopVars, queueVars, Tasks
<1>5. \A p \in Ports : (AtPort(p)' <=> p = q) /\ (AtPort(p) <=> p = q)
  BY <1>1, <1>4 DEF AtPort, PortOf
<1>6. /\ loopTasks' \in [Ports -> Seq(Tasks)]
      /\ OnLoop(q)' = OnLoop(q) \cup {t} /\ loopTasks'[q] # <<>>
      /\ loopTasks[q] # <<>> => Head(loopTasks'[q]) = Head(loopTasks[q])
      /\ \A p \in Ports \ {q} : loopTasks'[p] = loopTasks[p] /\ OnLoop(p)' = OnLoop(p)
  BY <1>4, LoopAsked
<1>7. LifeTyped'
  BY <1>4, <1>6
<1>8. MutexHeld'
  BY <1>4 DEF MutexHeld
<1>9. ControlTasks'
  <2> SUFFICES ASSUME NEW p \in Ports, NEW c \in {"register", "start", "unregister"}, c \in OnLoop(p)'
               PROVE  p = q /\ c = t
    BY <1>2, <1>3, <1>4, <1>5 DEF ControlTasks, TaskOf
  <2> QED BY <1>4, <1>6 DEF ControlTasks
<1>10. HandlersHaveTasks'
  BY <1>4, <1>6 DEF HandlersHaveTasks
<1>11. HandlersFollowMain'
  <2>1. \A p \in Ports : Passed(p)' = Passed(p) /\ Quiet(p)' = Quiet(p)
    BY <1>4 DEF Passed, PortOf, Quiet
  <2>2. /\ mainAt = "registering" => t = "register"
        /\ mainAt = "unregistering" => t = "unregister"
    BY <1>3 DEF TaskOf
  <2>3. t \in OnLoop(q)'
    BY <1>6
  <2> QED BY <1>4, <1>5, <2>1, <2>2, <2>3 DEF HandlersFollowMain
<1>12. TrackerFirst'
  <2> SUFFICES ASSUME firstEvent = Nobody
               PROVE  /\ \A p \in Ports \ {"session_tracker"} : OnLoop(p)' \cap {"start", "signal"} = {}
                      /\ mainAt = "starting" => "start" \in OnLoop("session_tracker")'
    BY <1>4 DEF TrackerFirst
  <2>1. CASE mainAt = "registering"
    <3>1. t = "register"
      BY <1>3, <2>1 DEF TaskOf
    <3> QED BY <1>6, <2>1, <3>1 DEF TrackerFirst
  <2>2. CASE mainAt = "starting" /\ mainPort = 1
    <3>1. t = "start" /\ q = "session_tracker"
      BY <1>1, <1>3, <2>2 DEF PortOf, start_event_processing, TaskOf
    <3> QED BY <1>6, <2>2, <3>1 DEF TrackerFirst
  <2> QED BY <2>1, <2>2 DEF TrackerFirst
<1>13. StopInFront'
  BY <1>4 DEF StopInFront
<1> QED BY <1>7, <1>8, <1>9, <1>10, <1>11, <1>12, <1>13

\* The loop has done what main asked.
LEMMA MainGoesOnKeeps == ASSUME LifeInv, MainGoesOn PROVE LifeInv'
<1> DEFINE q == PortOf(mainAt, mainPort)
<1> USE DEF LifeInv, LifeTyped
<1>1. /\ mainAsked /\ mainAsked' = FALSE
      /\ \/ mainPort < 3 /\ mainPort' = mainPort + 1 /\ mainAt' = mainAt
         \/ mainPort = 3 /\ mainPort' = 1 /\ mainAt' = AfterPorts(mainAt)
      /\ UNCHANGED <<loopTasks, handlerAt, handlerSet, portStarted, action_queue,
                     action_queue_mutex, running, firstEvent, stopSignal, portSignals>>
  BY ThreePorts DEF MainGoesOn, loopVars, queueVars
<1>2. TaskOf(mainAt) \notin OnLoop(q) /\ q \in Ports
  BY PortsInTurn DEF MainGoesOn, TaskDone, OnLoop
<1>3. mainAt \in {"registering", "starting", "unregistering"}
  BY <1>1 DEF ControlTasks
<1>4. /\ mainPort = 3 => mainAt' \in {"starting", "entering", "ended"}
      /\ mainAt = "registering" => mainAt' \in {"registering", "starting"}
      /\ mainAt = "starting" => mainAt' \in {"starting", "entering"}
      /\ mainAt = "unregistering" => mainAt' \in {"unregistering", "ended"}
  BY <1>1, <1>3 DEF AfterPorts
<1>5. \A p \in Ports : OnLoop(p)' = OnLoop(p) /\ Quiet(p)' = Quiet(p)
  BY <1>1 DEF OnLoop, Quiet
<1>6. \A p \in Ports : \A c \in {"register", "start", "unregister"} : c \notin OnLoop(p)
  <2>1. ASSUME NEW p \in Ports, NEW c \in {"register", "start", "unregister"}, c \in OnLoop(p)
        PROVE  FALSE
    BY <1>2, <2>1 DEF ControlTasks, AtPort
  <2> QED BY <2>1
<1>7. LifeTyped'
  <2>1. mainPort' \in 1 .. 3
    <3>1. mainPort \in 1 .. 3
      OBVIOUS
    <3> QED BY ONLY <1>1, <3>1
  <2>2. mainAt' \in MainPlaces
    BY <1>3, <1>4 DEF MainPlaces
  <2> QED BY <1>1, <2>1, <2>2
<1>8. MutexHeld'
  BY <1>1, <1>3, <1>4 DEF MutexHeld
<1>9. ControlTasks'
  BY <1>1, <1>5, <1>6 DEF ControlTasks
<1>10. HandlersHaveTasks'
  BY <1>1 DEF HandlersHaveTasks
<1>11. HandlersFollowMain'
  <2> DEFINE Came(p) == (mainAt = "registering" => handlerSet[p]) /\ (mainAt = "unregistering" => Quiet(p))
  <2>1. \A p \in Ports : Passed(p) \/ AtPort(p) => Came(p)
    BY <1>1, <1>6 DEF HandlersFollowMain
  <2>2. mainAt' = mainAt => \A p \in Ports : Passed(p)' => Passed(p) \/ AtPort(p)
    BY <1>1 DEF Passed, AtPort, PortOf
  <2>3. mainPort = 3 => \A p \in Ports : Passed(p) \/ AtPort(p)
    BY PortsInTurn DEF Passed, AtPort
  <2>4. mainPort' = 1 => \A p \in Ports : ~Passed(p)'
    BY DEF Passed
  <2>5. CASE mainAt' = mainAt
    BY <1>1, <1>3, <1>5, <2>1, <2>2, <2>5 DEF HandlersFollowMain, RunPlaces
  <2>6. CASE mainPort = 3
    BY <1>1, <1>3, <1>4, <1>5, <2>1, <2>3, <2>4, <2>6 DEF HandlersFollowMain, RunPlaces, AfterPorts
  <2> QED BY <1>1, <2>5, <2>6
<1>12. TrackerFirst'
  <2> SUFFICES ASSUME firstEvent = Nobody
               PROVE  \/ mainAt' = "registering"
                      \/ mainAt' = "starting" /\ mainPort' = 1
    BY <1>1, <1>5 DEF TrackerFirst
  <2>1. ~(mainAt = "starting")
    BY <1>1, <1>6 DEF TrackerFirst, Ports
  <2> QED BY <1>1, <1>4, <2>1 DEF TrackerFirst
<1>13. StopInFront'
  BY <1>1 DEF StopInFront
<1> QED BY <1>7, <1>8, <1>9, <1>10, <1>11, <1>12, <1>13

\* Main runs: it takes events, under the mutex.
LEMMA MainRunsKeeps ==
  ASSUME LifeInv, MainEnters \/ MainChecks \/ MainWaits \/ MainWakes \/ MainTakes PROVE LifeInv'
<1> USE DEF LifeInv, LifeTyped
<1>1. UNCHANGED <<mainPort, mainAsked, loopTasks, handlerAt, handlerSet, portStarted, stopSignal,
                  firstEvent>>
  BY DEF MainEnters, MainChecks, MainWaits, MainWakes, MainTakes, loopVars
<1>2. /\ mainAt \in RunPlaces /\ mainAt # "starting"
      /\ mainAt' \in (RunPlaces \ {"starting"}) \cup {"unregistering"}
  BY DEF MainEnters, MainChecks, MainWaits, MainWakes, MainTakes, RunPlaces
<1>3. ~mainAsked /\ firstEvent = "session_tracker"
  BY <1>2 DEF ControlTasks, TrackerFirst, RunPlaces
<1>4. mainPort = 1
  BY <1>2 DEF ControlTasks, RunPlaces
<1>5. \A p \in Ports : OnLoop(p)' = OnLoop(p) /\ Quiet(p)' = Quiet(p)
  BY <1>1 DEF OnLoop, Quiet
<1>6. \A p \in Ports : \A c \in {"register", "start", "unregister"} : c \notin OnLoop(p)
  BY <1>3 DEF ControlTasks
<1>7. action_queue' \in Seq(Ports \cup {"stop"})
      /\ \/ action_queue' = action_queue
         \/ action_queue # <<>> /\ action_queue' = Tail(action_queue)
  <2>1. CASE MainTakes
    BY <2>1, Taken DEF MainTakes
  <2>2. CASE ~MainTakes
    BY <2>2 DEF MainEnters, MainChecks, MainWaits, MainWakes
  <2> QED BY <2>1, <2>2
<1>8. LifeTyped'
  <2>1. action_queue_mutex' \in Ports \cup {"main", Nobody} /\ running' \in BOOLEAN
    BY DEF MainEnters, MainChecks, MainWaits, MainWakes, MainTakes
  <2>2. mainAt' \in MainPlaces
    BY <1>2 DEF MainPlaces, RunPlaces
  <2> QED BY <1>1, <1>7, <2>1, <2>2
<1>9. MutexHeld'
  BY <1>1 DEF MutexHeld, MainEnters, MainChecks, MainWaits, MainWakes, MainTakes, Ports, Nobody
<1>10. ControlTasks'
  BY <1>1, <1>3, <1>4, <1>5, <1>6 DEF ControlTasks
<1>11. HandlersHaveTasks'
  BY <1>1 DEF HandlersHaveTasks
<1>12. HandlersFollowMain'
  <2>1. \A p \in Ports : handlerSet[p]
    BY <1>2 DEF HandlersFollowMain
  <2>2. \A p \in Ports : ~Passed(p)'
    BY <1>1, <1>4 DEF Passed
  <2> QED BY <1>1, <1>2, <1>3, <2>1, <2>2 DEF HandlersFollowMain, RunPlaces
<1>13. TrackerFirst'
  BY <1>1, <1>3, Zenon DEF TrackerFirst, Nobody
<1>14. StopInFront'
  <2> DEFINE S == Ports \cup {"stop"}
  <2>1. ASSUME action_queue # <<>> PROVE Range(action_queue) = Range(Tail(action_queue)) \cup {Head(action_queue)}
                                         /\ Tail(action_queue) \in Seq(S)
    BY <2>1, Taken
  <2>2. ASSUME action_queue # <<>>, Tail(action_queue) # <<>>
        PROVE  Range(Tail(action_queue)) = Range(Tail(Tail(action_queue))) \cup {Head(Tail(action_queue))}
    BY <2>1, <2>2, Taken
  <2> QED BY <1>1, <1>7, <2>1, <2>2 DEF StopInFront
<1> QED BY <1>8, <1>9, <1>10, <1>11, <1>12, <1>13, <1>14

\* A loop takes its next task: it does what main asked, or enters the
\* daemon's handler.
LEMMA LoopTakesKeeps == ASSUME LifeInv, NEW p \in Ports, LoopTakes(p) PROVE LifeInv'
<1> USE DEF LifeInv, LifeTyped
<1> DEFINE task == Head(loopTasks[p])
<1> DEFINE Called == CallsHandler(p, task)
<1> DEFINE T == "session_tracker"
<1>1. handlerAt[p] = "idle" /\ loopTasks[p] # <<>> /\ task \in OnLoop(p) /\ task \in Tasks
  BY FirstIsOnLoop DEF LoopTakes
<1>2. UNCHANGED <<mainAt, mainPort, mainAsked, action_queue, action_queue_mutex, running,
                  firstEvent, stopSignal, portSignals>>
  BY DEF LoopTakes, mainVars, queueVars
<1>3. /\ handlerSet' = [handlerSet EXCEPT ![p] = IF task \in {"register", "unregister"}
                                                 THEN task = "register" ELSE @]
      /\ portStarted' = IF task = "start" THEN [portStarted EXCEPT ![p] = TRUE] ELSE portStarted
      /\ Called /\ p = "client_requests" =>
           /\ handlerAt' = [handlerAt EXCEPT ![p] = "asking"]
           /\ loopTasks' = [loopTasks EXCEPT ![T] = Append(@, "session_for_pid")]
      /\ Called /\ p # "client_requests" =>
           handlerAt' = [handlerAt EXCEPT ![p] = "queueing"] /\ loopTasks' = loopTasks
      /\ ~Called => handlerAt' = handlerAt /\ loopTasks' = [loopTasks EXCEPT ![p] = Tail(@)]
  BY DEF LoopTakes, SetHandler
<1>4. Called => handlerSet[p] /\ (task = "signal" \/ (task = "start" /\ p = T))
  BY DEF CallsHandler
<1> HIDE DEF task, Called
<1>5. /\ loopTasks' \in [Ports -> Seq(Tasks)]
      /\ \A q \in Ports : \A c \in {"register", "start", "unregister"} : c \in OnLoop(q)' => c \in OnLoop(q)
      /\ \A q \in Ports \ {p} : OnLoop(q) \subseteq OnLoop(q)'
                                /\ OnLoop(q)' \subseteq OnLoop(q) \cup {"session_for_pid"}
      /\ OnLoop(p) \subseteq OnLoop(p)' \cup {task} /\ OnLoop(p)' \subseteq OnLoop(p)
      /\ Called => OnLoop(p)' = OnLoop(p)
      /\ \A q \in Ports : q # p \/ Called =>
           (loopTasks[q] # <<>> => loopTasks'[q] # <<>> /\ Head(loopTasks'[q]) = Head(loopTasks[q]))
  <2>1. CASE Called /\ p = "client_requests"
    <3>1. T \in Ports /\ T # p /\ "session_for_pid" \in Tasks
      BY <2>1 DEF Ports, Tasks
    <3>2. /\ loopTasks' \in [Ports -> Seq(Tasks)]
          /\ OnLoop(T)' = OnLoop(T) \cup {"session_for_pid"} /\ loopTasks'[T] # <<>>
          /\ loopTasks[T] # <<>> => Head(loopTasks'[T]) = Head(loopTasks[T])
          /\ \A q \in Ports \ {T} : loopTasks'[q] = loopTasks[q] /\ OnLoop(q)' = OnLoop(q)
      BY <1>3, <2>1, <3>1, LoopAsked
    <3> HIDE DEF T
    <3> QED BY <2>1, <3>1, <3>2
  <2>2. CASE Called /\ p # "client_requests"
    BY <1>3, <2>2 DEF OnLoop
  <2>3. CASE ~Called
    <3>1. /\ loopTasks' \in [Ports -> Seq(Tasks)]
          /\ OnLoop(p) = OnLoop(p)' \cup {task}
          /\ \A q \in Ports \ {p} : loopTasks'[q] = loopTasks[q] /\ OnLoop(q)' = OnLoop(q)
      BY <1>1, <1>3, <2>3, LoopDone DEF task
    <3> QED BY <2>3, <3>1
  <2> QED BY <2>1, <2>2, <2>3
<1>6. \A q \in Ports : /\ AtPort(q)' <=> AtPort(q)
                       /\ Passed(q)' <=> Passed(q)
  BY <1>2 DEF AtPort, Passed, PortOf
<1>7. /\ handlerSet' \in [Ports -> BOOLEAN] /\ portStarted' \in [Ports -> BOOLEAN]
      /\ handlerAt' \in [Ports -> HandlerPlaces]
      /\ Called \/ handlerAt' = handlerAt
      /\ \A q \in Ports \ {p} : handlerSet'[q] = handlerSet[q] /\ handlerAt'[q] = handlerAt[q]
                                /\ portStarted'[q] = portStarted[q]
      /\ Called => handlerAt'[p] \in {"asking", "queueing"}
      /\ handlerSet'[p] = (task = "register" \/ (task # "unregister" /\ handlerSet[p]))
      /\ portStarted'[p] = (task = "start" \/ portStarted[p])
  BY <1>3 DEF HandlerPlaces
<1>8. task \in {"register", "start", "unregister"} => mainAsked /\ task = TaskOf(mainAt) /\ AtPort(p)
  BY <1>1 DEF ControlTasks
<1>9. LifeTyped'
  BY <1>2, <1>5, <1>7
<1>10. MutexHeld'
  BY <1>1, <1>2, <1>7 DEF MutexHeld
<1>11. ControlTasks'
  BY <1>2, <1>5, <1>6 DEF ControlTasks
<1>12. HandlersHaveTasks'
  <2> SUFFICES ASSUME NEW q \in Ports, handlerAt'[q] # "idle"
               PROVE  /\ loopTasks'[q] # <<>>
                      /\ \/ Head(loopTasks'[q]) = "signal"
                         \/ Head(loopTasks'[q]) = "start" /\ q = T
    BY DEF HandlersHaveTasks
  <2>1. CASE q = p
    <3>1. Called
      BY <1>1, <1>7, <2>1
    <3> QED BY <1>1, <1>4, <1>5, <2>1, <3>1 DEF task
  <2>2. CASE q # p
    <3>1. loopTasks[q] # <<>> /\ (Head(loopTasks[q]) = "signal" \/ (Head(loopTasks[q]) = "start" /\ q = T))
      BY <1>7, <2>2 DEF HandlersHaveTasks
    <3> QED BY <1>5, <2>2, <3>1
  <2> QED BY <2>1, <2>2
<1>13. HandlersFollowMain'
  <2> SUFFICES ASSUME NEW q \in Ports
               PROVE  /\ mainAt = "registering" =>
                           /\ Passed(q) => handlerSet'[q]
                           /\ AtPort(q) /\ mainAsked => "register" \in OnLoop(q)' \/ handlerSet'[q]
                      /\ mainAt \in RunPlaces => handlerSet'[q]
                      /\ mainAt = "unregistering" =>
                           /\ Passed(q) => Quiet(q)'
                           /\ AtPort(q) /\ mainAsked => "unregister" \in OnLoop(q)' \/ Quiet(q)'
                      /\ mainAt = "ended" => Quiet(q)'
    BY <1>2, <1>6 DEF HandlersFollowMain
  <2>1. CASE q # p
    BY <1>5, <1>7, <2>1 DEF HandlersFollowMain, Quiet
  <2>2. CASE q = p
    <3>1. task = "unregister" => mainAt = "unregistering" /\ AtPort(p) /\ ~Called
      BY <1>4, <1>8 DEF TaskOf, ControlTasks
    <3>2. task = "register" => mainAt = "registering" /\ AtPort(p)
      BY <1>8 DEF TaskOf, ControlTasks
    <3>3. ~handlerSet[p] => ~Called
      BY <1>4
    <3>4. mainAt = "registering" \/ mainAt \in RunPlaces => (handlerSet[p] => handlerSet'[p])
      BY <1>7, <3>1 DEF RunPlaces
    <3>5. mainAt \in {"unregistering", "ended"} => (Quiet(p) => Quiet(p)')
      BY <1>7, <3>2, <3>3 DEF Quiet
    <3>6. mainAt = "registering" /\ AtPort(p) /\ mainAsked => "register" \in OnLoop(p)' \/ handlerSet'[p]
      BY <1>5, <1>7, <3>4 DEF HandlersFollowMain
    <3>7. mainAt = "unregistering" /\ AtPort(p) /\ mainAsked => "unregister" \in OnLoop(p)' \/ Quiet(p)'
      BY <1>1, <1>5, <1>7, <3>1, <3>5 DEF HandlersFollowMain, Quiet
    <3> QED BY <2>2, <3>4, <3>5, <3>6, <3>7 DEF HandlersFollowMain
  <2> QED BY <2>1, <2>2
<1>14. TrackerFirst'
  <2> SUFFICES ASSUME firstEvent = Nobody
               PROVE  /\ \A q \in Ports \ {T} :
                           /\ ~portStarted'[q] /\ handlerAt'[q] = "idle"
                           /\ OnLoop(q)' \cap {"start", "signal"} = {}
                      /\ mainAt = "starting" /\ mainAsked => "start" \in OnLoop(T)'
    BY <1>2 DEF TrackerFirst
  <2>1. p # T => task \notin {"start", "signal"} /\ ~Called
    BY <1>1, <1>4 DEF TrackerFirst
  <2>2. ASSUME NEW q \in Ports \ {T}
        PROVE  ~portStarted'[q] /\ handlerAt'[q] = "idle" /\ OnLoop(q)' \cap {"start", "signal"} = {}
    <3>1. ~portStarted[q] /\ handlerAt[q] = "idle" /\ OnLoop(q) \cap {"start", "signal"} = {}
      BY DEF TrackerFirst
    <3>2. CASE q = p
      BY <1>5, <1>7, <2>1, <3>1, <3>2
    <3>3. CASE q # p
      BY <1>5, <1>7, <3>1, <3>3
    <3> QED BY <3>2, <3>3
  <2>3. ASSUME mainAt = "starting", mainAsked PROVE "start" \in OnLoop(T)'
    <3>1. "start" \in OnLoop(T) /\ T \in Ports
      BY <2>3 DEF TrackerFirst, Ports
    <3>2. handlerSet[T]
      BY <2>3, <3>1 DEF HandlersFollowMain, RunPlaces
    <3>3. p = T /\ task = "start" => Called
      BY <3>2 DEF Called, CallsHandler
    <3> QED BY <1>5, <3>1, <3>3
  <2> QED BY <2>2, <2>3
<1>15. StopInFront'
  BY <1>2 DEF StopInFront
<1> QED BY <1>9, <1>10, <1>11, <1>12, <1>13, <1>14, <1>15

\* A loop inside the daemon's handler goes on.
LEMMA HandlerKeeps ==
  ASSUME LifeInv, NEW p \in Ports, SessionKnown(p) \/ LockQueue(p) PROVE LifeInv'
<1> USE DEF LifeInv, LifeTyped
<1>1. /\ UNCHANGED <<mainAt, mainPort, mainAsked, loopTasks, handlerSet, portStarted, action_queue,
                     running, stopSignal, firstEvent>>
      /\ handlerAt[p] \in {"asking", "queueing"}
      /\ \E at \in {"queueing", "locked"} : handlerAt' = [handlerAt EXCEPT ![p] = at]
  BY DEF SessionKnown, LockQueue, mainVars, queueVars
<1>2. /\ handlerAt' \in [Ports -> HandlerPlaces] /\ handlerAt'[p] # "idle"
      /\ \A q \in Ports \ {p} : handlerAt'[q] = handlerAt[q]
  BY <1>1 DEF HandlerPlaces
<1>3. \A q \in Ports : ~Quiet(p) /\ (Quiet(q) => Quiet(q)') /\ OnLoop(q)' = OnLoop(q)
                       /\ (AtPort(q)' <=> AtPort(q)) /\ (Passed(q)' <=> Passed(q))
  BY <1>1, <1>2 DEF Quiet, OnLoop, AtPort, Passed, PortOf
<1>4. LifeTyped'
  <2>1. action_queue_mutex' \in Ports \cup {"main", Nobody}
    BY DEF SessionKnown, LockQueue, queueVars
  <2> QED BY <1>1, <1>2, <2>1
<1>5. MutexHeld'
  <2>1. p \notin {"main", Nobody}
    BY DEF Ports, Nobody
  <2>2. CASE SessionKnown(p)
    BY <2>2, <2>1, <1>1 DEF MutexHeld, SessionKnown, queueVars
  <2>3. CASE LockQueue(p)
    BY <2>3, <2>1, <1>1, <1>2 DEF MutexHeld, LockQueue, Ports, Nobody
  <2> QED BY <2>2, <2>3
<1>6. ControlTasks'
  BY <1>1, <1>3 DEF ControlTasks
<1>7. HandlersHaveTasks'
  BY <1>1, <1>2 DEF HandlersHaveTasks
<1>8. HandlersFollowMain'
  BY <1>1, <1>3 DEF HandlersFollowMain
<1>9. TrackerFirst'
  BY <1>1, <1>2, <1>3 DEF TrackerFirst
<1>10. StopInFront'
  BY <1>1 DEF StopInFront
<1> QED BY <1>4, <1>5, <1>6, <1>7, <1>8, <1>9, <1>10

\* A handler queues its event and returns.
LEMMA EnqueueKeeps == ASSUME LifeInv, NEW p \in Ports, enqueue_action(p) PROVE LifeInv'
<1> USE DEF LifeInv, LifeTyped
<1>1. /\ UNCHANGED <<mainAt, mainPort, mainAsked, handlerSet, portStarted, running, stopSignal>>
      /\ handlerAt[p] = "locked" /\ handlerAt' = [handlerAt EXCEPT ![p] = "idle"]
      /\ action_queue' = Append(action_queue, p) /\ action_queue_mutex' = Nobody
      /\ loopTasks' = [loopTasks EXCEPT ![p] = Tail(@)]
      /\ firstEvent' = IF firstEvent = Nobody THEN p ELSE firstEvent
  BY DEF enqueue_action, mainVars
<1>2. /\ handlerAt' \in [Ports -> HandlerPlaces] /\ handlerAt'[p] = "idle"
      /\ \A q \in Ports \ {p} : handlerAt'[q] = handlerAt[q]
  BY <1>1 DEF HandlerPlaces
<1>3. loopTasks[p] # <<>> /\ Head(loopTasks[p]) \in {"signal", "start"}
  BY <1>1 DEF HandlersHaveTasks
<1>4. /\ loopTasks' \in [Ports -> Seq(Tasks)]
      /\ OnLoop(p) = OnLoop(p)' \cup {Head(loopTasks[p])}
      /\ \A q \in Ports \ {p} : loopTasks'[q] = loopTasks[q] /\ OnLoop(q)' = OnLoop(q)
  BY <1>1, <1>3, LoopDone
<1>5. /\ \A q \in Ports : OnLoop(q)' \subseteq OnLoop(q)
      /\ \A q \in Ports : \A c \in {"register", "unregister"} : c \in OnLoop(q) => c \in OnLoop(q)'
  BY <1>3, <1>4
<1>6. \A q \in Ports : (Quiet(q) => Quiet(q)') /\ (AtPort(q)' <=> AtPort(q))
                       /\ (Passed(q)' <=> Passed(q))
  BY <1>1, <1>2 DEF Quiet, AtPort, Passed, PortOf
<1>7. firstEvent' # Nobody /\ firstEvent' \in Ports
  BY <1>1 DEF Ports, Nobody
<1>8. /\ action_queue' \in Seq(Ports \cup {"stop"})
      /\ Range(action_queue') = Range(action_queue) \cup {p}
      /\ action_queue # <<>> => Tail(action_queue') = Append(Tail(action_queue), p)
      /\ action_queue = <<>> => Tail(action_queue') = <<>>
  <2> DEFINE S == Ports \cup {"stop"}
  <2>1. p \in S /\ action_queue \in Seq(S) /\ action_queue' = Append(action_queue, p)
    BY <1>1
  <2> HIDE DEF S
  <2>2. /\ Append(action_queue, p) \in Seq(S)
        /\ Range(Append(action_queue, p)) = Range(action_queue) \cup {p}
        /\ action_queue # <<>> => Tail(Append(action_queue, p)) = Append(Tail(action_queue), p)
        /\ action_queue = <<>> => Tail(Append(action_queue, p)) = <<>>
    BY ONLY <2>1, Appended
  <2> QED BY <2>1, <2>2 DEF S
<1>9. LifeTyped'
  BY <1>1, <1>2, <1>4, <1>7, <1>8
<1>10. MutexHeld'
  <2>1. p \notin {"main", Nobody} /\ action_queue_mutex = p
    BY <1>1 DEF MutexHeld, Ports, Nobody
  <2> QED BY <1>1, <1>2, <2>1 DEF MutexHeld, Ports, Nobody
<1>11. ControlTasks'
  BY <1>1, <1>5, <1>6 DEF ControlTasks
<1>12. HandlersHaveTasks'
  BY <1>2, <1>4 DEF HandlersHaveTasks
<1>13. HandlersFollowMain'
  BY <1>1, <1>5, <1>6 DEF HandlersFollowMain
<1>14. TrackerFirst'
  <2>1. firstEvent = Nobody => p = "session_tracker"
    BY <1>1 DEF TrackerFirst
  <2> QED BY <1>1, <1>7, <2>1 DEF TrackerFirst
<1>15. StopInFront'
  <2>1. p # "stop"
    BY DEF Ports
  <2>2. ASSUME action_queue # <<>>
        PROVE  Range(Append(Tail(action_queue), p)) = Range(Tail(action_queue)) \cup {p}
    <3> DEFINE S == Ports \cup {"stop"}
    <3>1. action_queue \in Seq(S) /\ p \in S
      OBVIOUS
    <3> HIDE DEF S
    <3>2. Tail(action_queue) \in Seq(S)
      BY ONLY <2>2, <3>1, Taken
    <3> DEFINE t == Tail(action_queue)
    <3>3. t \in Seq(S)
      BY <3>2
    <3> HIDE DEF t
    <3>4. Range(Append(t, p)) = Range(t) \cup {p}
      BY ONLY <3>1, <3>3, Appended
    <3> QED BY <3>4 DEF t
  <2>3. stopSignal'.at # "done" => "stop" \notin Range(action_queue')
    BY <1>1, <1>8, <2>1 DEF StopInFront
  <2>4. "stop" \notin Range(Tail(action_queue'))
    <3>1. CASE action_queue = <<>>
      BY <1>8, <3>1, EmptyQueue
    <3>2. CASE action_queue # <<>>
      <4>1. Range(Tail(action_queue')) = Range(Tail(action_queue)) \cup {p}
        BY <1>8, <2>2, <3>2
      <4> QED BY <2>1, <3>2, <4>1 DEF StopInFront
    <3> QED BY <3>1, <3>2
  <2> QED BY <2>3, <2>4 DEF StopInFront
<1> QED BY <1>9, <1>10, <1>11, <1>12, <1>13, <1>14, <1>15

\* The world reports something to a port that has started.
LEMMA PortSignalledKeeps == ASSUME LifeInv, NEW p \in Ports, PortSignalled(p) PROVE LifeInv'
<1> USE DEF LifeInv, LifeTyped
<1>1. /\ UNCHANGED <<mainAt, mainPort, mainAsked, handlerAt, handlerSet, portStarted, action_queue,
                     action_queue_mutex, running, stopSignal, firstEvent>>
      /\ loopTasks' = [loopTasks EXCEPT ![p] = Append(@, "signal")] /\ portStarted[p]
  BY DEF PortSignalled, mainVars, loopVars, queueVars
<1>2. /\ loopTasks' \in [Ports -> Seq(Tasks)]
      /\ OnLoop(p)' = OnLoop(p) \cup {"signal"} /\ loopTasks'[p] # <<>>
      /\ loopTasks[p] # <<>> => Head(loopTasks'[p]) = Head(loopTasks[p])
      /\ \A q \in Ports \ {p} : loopTasks'[q] = loopTasks[q] /\ OnLoop(q)' = OnLoop(q)
  <2>1. "signal" \in Tasks
    BY DEF Tasks
  <2> QED BY <1>1, <2>1, LoopAsked
<1>3. \A q \in Ports : /\ Quiet(q)' <=> Quiet(q)
                       /\ AtPort(q)' <=> AtPort(q)
                       /\ Passed(q)' <=> Passed(q)
                       /\ OnLoop(q) \subseteq OnLoop(q)' /\ OnLoop(q)' \subseteq OnLoop(q) \cup {"signal"}
  BY <1>1, <1>2 DEF Quiet, AtPort, Passed, PortOf
<1>4. LifeTyped'
  BY <1>1, <1>2
<1>5. MutexHeld'
  BY <1>1 DEF MutexHeld
<1>6. ControlTasks'
  BY <1>1, <1>3 DEF ControlTasks
<1>7. HandlersHaveTasks'
  BY <1>1, <1>2 DEF HandlersHaveTasks
<1>8. HandlersFollowMain'
  BY <1>1, <1>3 DEF HandlersFollowMain
<1>9. TrackerFirst'
  <2>1. firstEvent = Nobody => p = "session_tracker"
    BY <1>1 DEF TrackerFirst
  <2> QED BY <1>1, <1>2, <1>3, <2>1 DEF TrackerFirst
<1>10. StopInFront'
  BY <1>1 DEF StopInFront
<1> QED BY <1>4, <1>5, <1>6, <1>7, <1>8, <1>9, <1>10

\* A signal interrupts a thread; its handler puts the stop in front.
LEMMA SignalKeeps == ASSUME LifeInv, Interrupt \/ stop PROVE LifeInv'
<1> USE DEF LifeInv, LifeTyped
<1>1. UNCHANGED <<mainAt, mainPort, mainAsked, loopTasks, handlerAt, handlerSet, portStarted,
                  action_queue_mutex, running, firstEvent>>
  BY DEF Interrupt, stop, mainVars, loopVars, queueVars
<1>2. \A q \in Ports : /\ Quiet(q)' <=> Quiet(q)
                       /\ AtPort(q)' <=> AtPort(q)
                       /\ Passed(q)' <=> Passed(q)
                       /\ OnLoop(q)' = OnLoop(q)
  BY <1>1 DEF Quiet, AtPort, Passed, PortOf, OnLoop
<1>3. MutexHeld' /\ HandlersHaveTasks'
  BY <1>1 DEF MutexHeld, HandlersHaveTasks
<1>4. ControlTasks'
  BY <1>1, <1>2 DEF ControlTasks
<1>5. HandlersFollowMain'
  BY <1>1, <1>2 DEF HandlersFollowMain
<1>6. TrackerFirst'
  <2>1. "session_tracker" \in Ports
    BY DEF Ports
  <2> QED BY <1>1, <1>2, <2>1 DEF TrackerFirst
<1>7. CASE Interrupt
  <2>1. action_queue' = action_queue /\ stopSignal.at = "none" /\ stopSignal'.at = "handling"
        /\ stopSignal' \in [at : {"none", "handling", "done"}, thread : Threads \cup {Nobody}]
    BY <1>7 DEF Interrupt, queueVars
  <2>2. LifeTyped' /\ StopInFront'
    BY <1>1, <2>1 DEF StopInFront
  <2> QED BY <1>3, <1>4, <1>5, <1>6, <2>2
<1>8. CASE stop
  <2>1. action_queue' = <<"stop">> \o action_queue /\ stopSignal.at = "handling"
        /\ stopSignal'.at = "done"
        /\ stopSignal' \in [at : {"none", "handling", "done"}, thread : Threads \cup {Nobody}]
    BY <1>8 DEF stop
  <2>2. action_queue' \in Seq(Ports \cup {"stop"}) /\ Tail(action_queue') = action_queue
    BY <2>1, Prepended
  <2>3. LifeTyped' /\ StopInFront'
    BY <1>1, <2>1, <2>2 DEF StopInFront
  <2> QED BY <1>3, <1>4, <1>5, <1>6, <2>3
<1> QED BY <1>7, <1>8

\* Every step of main, the loops, the world and the signal keeps the
\* invariant.
LEMMA NextLifeInv == LifeInv /\ [LifeNext]_lifeVars => LifeInv'
<1> SUFFICES ASSUME LifeInv, [LifeNext]_lifeVars PROVE LifeInv'
  OBVIOUS
<1>1. CASE MainSteps
  BY <1>1, MainAsksPortKeeps, MainGoesOnKeeps, MainRunsKeeps DEF MainSteps
<1>2. ASSUME NEW p \in Ports, LoopSteps(p) \/ PortSignalled(p) PROVE LifeInv'
  BY <1>2, LoopTakesKeeps, HandlerKeeps, EnqueueKeeps, PortSignalledKeeps DEF LoopSteps
<1>3. CASE Interrupt \/ stop
  BY <1>3, SignalKeeps
<1>4. CASE UNCHANGED lifeVars
  BY <1>4 DEF lifeVars, LifeInv, LifeTyped, MutexHeld, ControlTasks, HandlersHaveTasks,
     HandlersFollowMain, TrackerFirst, StopInFront, OnLoop, Quiet, AtPort, Passed, PortOf
<1> QED BY <1>1, <1>2, <1>3, <1>4 DEF LifeNext

\* What is known of a running daemon, whatever the world sends.
THEOREM LifecycleInvariant == LifeSpec => []LifeInv
<1> QED BY InitLifeInv, NextLifeInv, PTL DEF LifeSpec

\* The daemon's first event is the session tracker's, and when run has
\* returned no handler of the daemon is set or still runs.
THEOREM RunsInOrder == LifeSpec => []RunIsOrderly
<1>1. LifeInv => RunIsOrderly
  BY DEF LifeInv, HandlersFollowMain, TrackerFirst, Quiet, RunIsOrderly, HandlersEndFirst,
     InitialSessionFirst
<1> QED BY <1>1, LifecycleInvariant, PTL

\* After stop is queued, no other action is taken.
THEOREM StopOvertakes == LifeSpec => StopComesFirst
<1> DEFINE Overtakes == MainTakes /\ "stop" \in Range(action_queue) => Head(action_queue) = "stop"
<1>1. LifeInv => Overtakes
  <2> SUFFICES ASSUME LifeInv, MainTakes, "stop" \in Range(action_queue)
               PROVE  Head(action_queue) = "stop"
    OBVIOUS
  <2>1. action_queue \in Seq(Ports \cup {"stop"}) /\ action_queue # <<>>
    BY DEF LifeInv, LifeTyped, MainTakes
  <2>2. Range(action_queue) = Range(Tail(action_queue)) \cup {Head(action_queue)}
    BY <2>1, Taken
  <2> QED BY <2>1, <2>2 DEF LifeInv, StopInFront
<1> QED BY <1>1, LifecycleInvariant, PTL DEF StopComesFirst

-----------------------------------------------------------------------------
(* The objects that the daemon is built of.                                *)

ObjectNames ==
  {"brightness_control", "client_settings", "performance_booster", "proximity_sensor",
   "session_tracker", "state_machine_factory", "state_machine_options",
   "system_power_control", "timer", "user_activity", "backlight",
   "backlight_brightness_control", "brightness_notification", "device_config",
   "light_sensor", "ofono_voice_call_service", "temporary_suspend_inhibition",
   "jingos_display", "jingos_screen_service", "jingos_power_button",
   "upower_power_source_and_lid", "wakeup_service"}

\* What there is, in four tables.
LEMMA ObjectsAre ==
  /\ DOMAIN Objects = ObjectNames
  /\ \A o \in DOMAIN FirstObjects : Objects[o] = FirstObjects[o]
  /\ \A o \in DOMAIN PowerObjects : Objects[o] = PowerObjects[o]
  /\ \A o \in DOMAIN BrightnessObjects : Objects[o] = BrightnessObjects[o]
  /\ \A o \in DOMAIN ServiceObjects : Objects[o] = ServiceObjects[o]
<1>1. DOMAIN FirstObjects = {"brightness_control", "client_settings", "performance_booster",
        "proximity_sensor", "session_tracker", "state_machine_factory",
        "state_machine_options"}
  BY DEF FirstObjects
<1>2. DOMAIN PowerObjects = {"system_power_control", "timer", "user_activity", "backlight"}
  BY DEF PowerObjects
<1>3. DOMAIN BrightnessObjects = {"backlight_brightness_control", "brightness_notification",
        "device_config"}
  BY DEF BrightnessObjects
<1>4. DOMAIN ServiceObjects = {"light_sensor", "ofono_voice_call_service",
        "temporary_suspend_inhibition", "jingos_display", "jingos_screen_service",
        "jingos_power_button", "upower_power_source_and_lid", "wakeup_service"}
  BY DEF ServiceObjects
<1> QED BY <1>1, <1>2, <1>3, <1>4 DEF Objects, ObjectNames, Over

\* Which object an implementation is made for; of the others none is counted.
Uncounted == {"Backlit", "Null"}
ObjectOf(i) ==
  CASE i = "RepowerdService" -> "client_settings"
    [] i = "UbuntuPerformanceBooster" -> "performance_booster"
    [] i = "UbuntuProximitySensor" -> "proximity_sensor"
    [] i = "LogindSessionTracker" -> "session_tracker"
    [] i = "DefaultStateMachineFactory" -> "state_machine_factory"
    [] i = "DefaultStateMachineOptions" -> "state_machine_options"
    [] i \in {"Logind", "Libsuspend"} -> "system_power_control"
    [] i = "EventLoopTimer" -> "timer"
    [] i = "JingosUserActivity" -> "user_activity"
    [] i \in {"AndroidBacklight", "SysfsBacklight"} -> "backlight"
    [] i = "BacklightBrightnessControl" -> "backlight_brightness_control"
    [] i = "AndroidDeviceConfig" -> "device_config"
    [] i = "UbuntuLightSensor" -> "light_sensor"
    [] i = "OfonoVoiceCallService" -> "ofono_voice_call_service"
    [] i = "Real" -> "temporary_suspend_inhibition"
    [] i = "JingosDisplay" -> "jingos_display"
    [] i = "JingosScreenService" -> "jingos_screen_service"
    [] i = "JingosPowerButton" -> "jingos_power_button"
    [] i = "UPower" -> "upower_power_source_and_lid"
    [] i \in {"DevAlarm", "Timerfd"} -> "wakeup_service"

\* What an object needs is below it.
Height(o) ==
  CASE o \in {"jingos_screen_service", "upower_power_source_and_lid"} -> 3
    [] o \in {"brightness_control", "brightness_notification"} -> 2
    [] o \in {"backlight_brightness_control", "temporary_suspend_inhibition"} -> 1
    [] OTHER -> 0

IsInOrder(o) ==
  /\ Len(Objects[o]) \in Nat \ {0} /\ DOMAIN Objects[o] = 1 .. Len(Objects[o])
  /\ \A n \in DOMAIN Objects[o] :
       /\ \A p \in Objects[o][n].needs : p \in ObjectNames /\ Height(p) < Height(o)
       /\ Objects[o][n].name \in Uncounted \/ ObjectOf(Objects[o][n].name) = o
       /\ \A m \in DOMAIN Objects[o] : Objects[o][m].name = Objects[o][n].name => m = n

\* The getters' alternatives, one object after the other.
LEMMA ObjectsInOrder == \A o \in ObjectNames : IsInOrder(o)
<1>1. IsInOrder("brightness_control")
  <2>1. PICK q : q = Objects["brightness_control"]
    OBVIOUS
  <2>2. q = FirstObjects["brightness_control"]
    BY <2>1, ObjectsAre DEF FirstObjects
  <2>3. /\ Len(q) = 2 /\ DOMAIN q = 1 .. 2
        /\ q[1].name = "Backlit" /\ q[1].needs = {"backlight_brightness_control"}
        /\ q[2].name = "Null" /\ q[2].needs = {}
    BY <2>2 DEF FirstObjects, Sure, OnBus, Null, Impl
  <2>4. ("Backlit" \in Uncounted \/ ObjectOf("Backlit") = "brightness_control") /\ ("Null" \in Uncounted \/ ObjectOf("Null") = "brightness_control")
    BY DEF Uncounted, ObjectOf
  <2>5. \A p \in {"backlight_brightness_control"} : p \in ObjectNames /\ Height(p) < Height("brightness_control")
    BY DEF ObjectNames, Height
  <2> QED BY <2>1, <2>3, <2>4, <2>5 DEF IsInOrder
<1>2. IsInOrder("client_settings")
  BY ObjectsAre DEF FirstObjects, IsInOrder, Sure, OnBus, Impl, Uncounted, ObjectOf, Height
<1>3. IsInOrder("performance_booster")
  <2>1. PICK q : q = Objects["performance_booster"]
    OBVIOUS
  <2>2. q = FirstObjects["performance_booster"]
    BY <2>1, ObjectsAre DEF FirstObjects
  <2>3. /\ Len(q) = 2 /\ DOMAIN q = 1 .. 2
        /\ q[1].name = "UbuntuPerformanceBooster" /\ q[1].needs = {}
        /\ q[2].name = "Null" /\ q[2].needs = {}
    BY <2>2 DEF FirstObjects, Sure, OnBus, Null, Impl
  <2>4. ("UbuntuPerformanceBooster" \in Uncounted \/ ObjectOf("UbuntuPerformanceBooster") = "performance_booster") /\ ("Null" \in Uncounted \/ ObjectOf("Null") = "performance_booster")
    BY DEF Uncounted, ObjectOf
  <2> QED BY <2>1, <2>3, <2>4 DEF IsInOrder
<1>4. IsInOrder("proximity_sensor")
  <2>1. PICK q : q = Objects["proximity_sensor"]
    OBVIOUS
  <2>2. q = FirstObjects["proximity_sensor"]
    BY <2>1, ObjectsAre DEF FirstObjects
  <2>3. /\ Len(q) = 2 /\ DOMAIN q = 1 .. 2
        /\ q[1].name = "UbuntuProximitySensor" /\ q[1].needs = {}
        /\ q[2].name = "Null" /\ q[2].needs = {}
    BY <2>2 DEF FirstObjects, Sure, OnBus, Null, Impl
  <2>4. ("UbuntuProximitySensor" \in Uncounted \/ ObjectOf("UbuntuProximitySensor") = "proximity_sensor") /\ ("Null" \in Uncounted \/ ObjectOf("Null") = "proximity_sensor")
    BY DEF Uncounted, ObjectOf
  <2> QED BY <2>1, <2>3, <2>4 DEF IsInOrder
<1>5. IsInOrder("session_tracker")
  BY ObjectsAre DEF FirstObjects, IsInOrder, Sure, OnBus, Impl, Uncounted, ObjectOf, Height
<1>6. IsInOrder("state_machine_factory")
  BY ObjectsAre DEF FirstObjects, IsInOrder, Sure, OnBus, Impl, Uncounted, ObjectOf, Height
<1>7. IsInOrder("state_machine_options")
  BY ObjectsAre DEF FirstObjects, IsInOrder, Sure, OnBus, Impl, Uncounted, ObjectOf, Height
<1>8. IsInOrder("system_power_control")
  <2>1. PICK q : q = Objects["system_power_control"]
    OBVIOUS
  <2>2. q = PowerObjects["system_power_control"]
    BY <2>1, ObjectsAre DEF PowerObjects
  <2>3. /\ Len(q) = 3 /\ DOMAIN q = 1 .. 3
        /\ q[1].name = "Logind" /\ q[1].needs = {}
        /\ q[2].name = "Libsuspend" /\ q[2].needs = {}
        /\ q[3].name = "Null" /\ q[3].needs = {}
    BY <2>2 DEF PowerObjects, Sure, OnBus, Null, Impl
  <2>4. ("Logind" \in Uncounted \/ ObjectOf("Logind") = "system_power_control") /\ ("Libsuspend" \in Uncounted \/ ObjectOf("Libsuspend") = "system_power_control") /\ ("Null" \in Uncounted \/ ObjectOf("Null") = "system_power_control")
    BY DEF Uncounted, ObjectOf
  <2> QED BY <2>1, <2>3, <2>4 DEF IsInOrder
<1>9. IsInOrder("timer")
  BY ObjectsAre DEF PowerObjects, IsInOrder, Sure, OnBus, Impl, Uncounted, ObjectOf, Height
<1>10. IsInOrder("user_activity")
  BY ObjectsAre DEF PowerObjects, IsInOrder, Sure, OnBus, Impl, Uncounted, ObjectOf, Height
<1>11. IsInOrder("backlight")
  <2>1. PICK q : q = Objects["backlight"]
    OBVIOUS
  <2>2. q = PowerObjects["backlight"]
    BY <2>1, ObjectsAre DEF PowerObjects
  <2>3. /\ Len(q) = 2 /\ DOMAIN q = 1 .. 2
        /\ q[1].name = "AndroidBacklight" /\ q[1].needs = {}
        /\ q[2].name = "SysfsBacklight" /\ q[2].needs = {}
    BY <2>2 DEF PowerObjects, Sure, OnBus, Null, Impl
  <2>4. ("AndroidBacklight" \in Uncounted \/ ObjectOf("AndroidBacklight") = "backlight") /\ ("SysfsBacklight" \in Uncounted \/ ObjectOf("SysfsBacklight") = "backlight")
    BY DEF Uncounted, ObjectOf
  <2> QED BY <2>1, <2>3, <2>4 DEF IsInOrder
<1>12. IsInOrder("backlight_brightness_control")
  <2>1. PICK q : q = Objects["backlight_brightness_control"]
    OBVIOUS
  <2>2. q = BrightnessObjects["backlight_brightness_control"]
    BY <2>1, ObjectsAre DEF BrightnessObjects
  <2>3. /\ Len(q) = 1 /\ DOMAIN q = 1 .. 1
        /\ q[1].name = "BacklightBrightnessControl" /\ q[1].needs = {"backlight", "light_sensor", "device_config"}
    BY <2>2 DEF BrightnessObjects, Sure, OnBus, Null, Impl
  <2>4. ("BacklightBrightnessControl" \in Uncounted \/ ObjectOf("BacklightBrightnessControl") = "backlight_brightness_control")
    BY DEF Uncounted, ObjectOf
  <2>5. \A p \in {"backlight", "light_sensor", "device_config"} : p \in ObjectNames /\ Height(p) < Height("backlight_brightness_control")
    BY DEF ObjectNames, Height
  <2> QED BY <2>1, <2>3, <2>4, <2>5 DEF IsInOrder
<1>13. IsInOrder("brightness_notification")
  <2>1. PICK q : q = Objects["brightness_notification"]
    OBVIOUS
  <2>2. q = BrightnessObjects["brightness_notification"]
    BY <2>1, ObjectsAre DEF BrightnessObjects
  <2>3. /\ Len(q) = 2 /\ DOMAIN q = 1 .. 2
        /\ q[1].name = "Backlit" /\ q[1].needs = {"backlight_brightness_control"}
        /\ q[2].name = "Null" /\ q[2].needs = {}
    BY <2>2 DEF BrightnessObjects, Sure, OnBus, Null, Impl
  <2>4. ("Backlit" \in Uncounted \/ ObjectOf("Backlit") = "brightness_notification") /\ ("Null" \in Uncounted \/ ObjectOf("Null") = "brightness_notification")
    BY DEF Uncounted, ObjectOf
  <2>5. \A p \in {"backlight_brightness_control"} : p \in ObjectNames /\ Height(p) < Height("brightness_notification")
    BY DEF ObjectNames, Height
  <2> QED BY <2>1, <2>3, <2>4, <2>5 DEF IsInOrder
<1>14. IsInOrder("device_config")
  BY ObjectsAre DEF BrightnessObjects, IsInOrder, Sure, OnBus, Impl, Uncounted, ObjectOf, Height
<1>15. IsInOrder("light_sensor")
  <2>1. PICK q : q = Objects["light_sensor"]
    OBVIOUS
  <2>2. q = ServiceObjects["light_sensor"]
    BY <2>1, ObjectsAre DEF ServiceObjects
  <2>3. /\ Len(q) = 2 /\ DOMAIN q = 1 .. 2
        /\ q[1].name = "UbuntuLightSensor" /\ q[1].needs = {}
        /\ q[2].name = "Null" /\ q[2].needs = {}
    BY <2>2 DEF ServiceObjects, Sure, OnBus, Null, Impl
  <2>4. ("UbuntuLightSensor" \in Uncounted \/ ObjectOf("UbuntuLightSensor") = "light_sensor") /\ ("Null" \in Uncounted \/ ObjectOf("Null") = "light_sensor")
    BY DEF Uncounted, ObjectOf
  <2> QED BY <2>1, <2>3, <2>4 DEF IsInOrder
<1>16. IsInOrder("ofono_voice_call_service")
  BY ObjectsAre DEF ServiceObjects, IsInOrder, Sure, OnBus, Impl, Uncounted, ObjectOf, Height
<1>17. IsInOrder("temporary_suspend_inhibition")
  <2>1. PICK q : q = Objects["temporary_suspend_inhibition"]
    OBVIOUS
  <2>2. q = ServiceObjects["temporary_suspend_inhibition"]
    BY <2>1, ObjectsAre DEF ServiceObjects
  <2>3. /\ Len(q) = 1 /\ DOMAIN q = 1 .. 1
        /\ q[1].name = "Real" /\ q[1].needs = {"system_power_control"}
    BY <2>2 DEF ServiceObjects, Sure, OnBus, Null, Impl
  <2>4. ("Real" \in Uncounted \/ ObjectOf("Real") = "temporary_suspend_inhibition")
    BY DEF Uncounted, ObjectOf
  <2>5. \A p \in {"system_power_control"} : p \in ObjectNames /\ Height(p) < Height("temporary_suspend_inhibition")
    BY DEF ObjectNames, Height
  <2> QED BY <2>1, <2>3, <2>4, <2>5 DEF IsInOrder
<1>18. IsInOrder("jingos_display")
  BY ObjectsAre DEF ServiceObjects, IsInOrder, Sure, OnBus, Impl, Uncounted, ObjectOf, Height
<1>19. IsInOrder("jingos_screen_service")
  <2>1. PICK q : q = Objects["jingos_screen_service"]
    OBVIOUS
  <2>2. q = ServiceObjects["jingos_screen_service"]
    BY <2>1, ObjectsAre DEF ServiceObjects
  <2>3. /\ Len(q) = 1 /\ DOMAIN q = 1 .. 1
        /\ q[1].name = "JingosScreenService" /\ q[1].needs = {"wakeup_service", "brightness_notification", "temporary_suspend_inhibition", "device_config"}
    BY <2>2 DEF ServiceObjects, Sure, OnBus, Null, Impl
  <2>4. ("JingosScreenService" \in Uncounted \/ ObjectOf("JingosScreenService") = "jingos_screen_service")
    BY DEF Uncounted, ObjectOf
  <2>5. \A p \in {"wakeup_service", "brightness_notification", "temporary_suspend_inhibition", "device_config"} : p \in ObjectNames /\ Height(p) < Height("jingos_screen_service")
    BY DEF ObjectNames, Height
  <2> QED BY <2>1, <2>3, <2>4, <2>5 DEF IsInOrder
<1>20. IsInOrder("jingos_power_button")
  BY ObjectsAre DEF ServiceObjects, IsInOrder, Sure, OnBus, Impl, Uncounted, ObjectOf, Height
<1>21. IsInOrder("upower_power_source_and_lid")
  <2>1. PICK q : q = Objects["upower_power_source_and_lid"]
    OBVIOUS
  <2>2. q = ServiceObjects["upower_power_source_and_lid"]
    BY <2>1, ObjectsAre DEF ServiceObjects
  <2>3. /\ Len(q) = 1 /\ DOMAIN q = 1 .. 1
        /\ q[1].name = "UPower" /\ q[1].needs = {"temporary_suspend_inhibition", "device_config"}
    BY <2>2 DEF ServiceObjects, Sure, OnBus, Null, Impl
  <2>4. ("UPower" \in Uncounted \/ ObjectOf("UPower") = "upower_power_source_and_lid")
    BY DEF Uncounted, ObjectOf
  <2>5. \A p \in {"temporary_suspend_inhibition", "device_config"} : p \in ObjectNames /\ Height(p) < Height("upower_power_source_and_lid")
    BY DEF ObjectNames, Height
  <2> QED BY <2>1, <2>3, <2>4, <2>5 DEF IsInOrder
<1>22. IsInOrder("wakeup_service")
  <2>1. PICK q : q = Objects["wakeup_service"]
    OBVIOUS
  <2>2. q = ServiceObjects["wakeup_service"]
    BY <2>1, ObjectsAre DEF ServiceObjects
  <2>3. /\ Len(q) = 2 /\ DOMAIN q = 1 .. 2
        /\ q[1].name = "DevAlarm" /\ q[1].needs = {}
        /\ q[2].name = "Timerfd" /\ q[2].needs = {}
    BY <2>2 DEF ServiceObjects, Sure, OnBus, Null, Impl
  <2>4. ("DevAlarm" \in Uncounted \/ ObjectOf("DevAlarm") = "wakeup_service") /\ ("Timerfd" \in Uncounted \/ ObjectOf("Timerfd") = "wakeup_service")
    BY DEF Uncounted, ObjectOf
  <2> QED BY <2>1, <2>3, <2>4 DEF IsInOrder
<1> QED BY <1>1, <1>2, <1>3, <1>4, <1>5, <1>6, <1>7, <1>8, <1>9, <1>10, <1>11, <1>12, <1>13, <1>14, <1>15, <1>16, <1>17, <1>18, <1>19, <1>20, <1>21, <1>22 DEF ObjectNames

\* The ports are objects.
LEMMA PortsAreObjects ==
  \A phase : /\ PortsOf(phase) \in Seq(ObjectNames)
             /\ \A k \in 1 .. Len(PortsOf(phase)) : PortsOf(phase)[k] \in ObjectNames
<1>1. DaemonPorts \in Seq(ObjectNames)
  BY DEF DaemonPorts, ObjectNames
<1>2. MachinePorts \in Seq(ObjectNames)
  BY DEF MachinePorts, ObjectNames
<1> QED BY <1>1, <1>2 DEF PortsOf

\* The last of some places.
LEMMA MaxIs ==
  ASSUME NEW n \in Nat, NEW T, T \subseteq 1 .. n, T # {}
  PROVE  Max(T) \in T /\ \A x \in T : x <= Max(T)
<1> DEFINE D == {n - x : x \in T}
<1>1. D \subseteq Nat /\ D # {}
  <2>1. \A x \in T : x \in Int /\ x <= n /\ n - x \in Nat
    OBVIOUS
  <2> QED BY <2>1
<1>2. PICK d \in D : \A y \in D : d <= y
  BY <1>1, NatMinimum
<1>3. PICK x \in T : d = n - x
  BY <1>2
<1>4. \A y \in T : x >= y
  <2> SUFFICES ASSUME NEW y \in T PROVE x >= y
    OBVIOUS
  <2>1. d <= n - y
    BY <1>2
  <2> QED BY <1>3, <2>1
<1>5. Max(T) \in T /\ \A y \in T : Max(T) >= y
  BY <1>3, <1>4 DEF Max
<1> QED BY <1>5

Frames == [object : ObjectNames, try : Nat]

\* Getters that have been called, each for what the one before it needs, build
\* different objects, which are not there yet.
CallsInOrder ==
  /\ building \in Seq(Frames) /\ DOMAIN built \subseteq ObjectNames
  /\ \A n \in DOMAIN building :
       /\ building[n].object \notin DOMAIN built
       /\ building[n].try \in DOMAIN Objects[building[n].object]
       /\ n + 1 \in DOMAIN building => building[n + 1].object \in Trying(building[n]).needs
       /\ \A m \in DOMAIN building :
            n < m => Height(building[m].object) < Height(building[n].object)

\* Alternative m of an object cannot be had.
CannotBeHad(o, m) == Objects[o][m].name \in failed \/ Objects[o][m].needs \cap threw # {}

\* What was not tried again cannot be had.
TriedInTurn ==
  /\ \A n \in DOMAIN building : \A m \in 1 .. building[n].try - 1 : CannotBeHad(building[n].object, m)
  /\ \A o \in DOMAIN built : \E n \in DOMAIN Objects[o] :
       built[o] = Objects[o][n].name /\ \A m \in 1 .. n - 1 : CannotBeHad(o, m)

\* What is counted is there.
CountedAreBuilt == \A i \in DOMAIN constructed : constructed[i] = 1 /\ ObjectOf(i) \in DOMAIN built

Asking == startPhase \in {"daemon", "machine"}

\* The ports that have been asked for are there, but the one that is being built.
PortsAskedInTurn ==
  /\ startPhase \in {"daemon", "starting", "running", "machine", "ready", "terminated"}
  /\ portsAsked \in Nat
  /\ Asking => \A k \in 1 .. portsAsked : k \in 1 .. Len(PortsOf(startPhase)) /\
       \/ PortsOf(startPhase)[k] \in DOMAIN built
       \/ building # <<>> /\ building[1].object = PortsOf(startPhase)[k]
  /\ ~Asking => building = <<>>
  /\ startPhase \in {"starting", "running"} => portsAsked = 0
  /\ NoPortIsMissing

StartInv == CallsInOrder /\ TriedInTurn /\ CountedAreBuilt /\ PortsAskedInTurn

\* Nothing is there and nothing is asked for.
LEMMA InitStartInv == StartInit => StartInv
<1> SUFFICES ASSUME StartInit PROVE StartInv
  OBVIOUS
<1>1. building = <<>> /\ DOMAIN built = {} /\ DOMAIN constructed = {} /\ startPhase = "daemon" /\ portsAsked = 0
  BY DEF StartInit
<1>2. building \in Seq(Frames) /\ DOMAIN building = {}
  BY <1>1, EmptyQueue
<1> QED BY <1>1, <1>2 DEF StartInv, CallsInOrder, TriedInTurn, CountedAreBuilt, PortsAskedInTurn, NoPortIsMissing, Asking

\* The next port is asked for, or the last is there.
LEMMA AskForPortKeeps ==
  ASSUME StartInv, AskForPort
  PROVE  StartInv'
<1>1. /\ Asking /\ building = <<>> /\ UNCHANGED <<built, constructed, failed, threw>>
  BY DEF AskForPort, Asking
<1>2. PICK P : P = PortsOf(startPhase)
  OBVIOUS
<1>3. P \in Seq(ObjectNames) /\ Len(P) \in Nat /\ DOMAIN P = 1 .. Len(P) /\ \A k \in 1 .. Len(P) : P[k] \in ObjectNames
  BY <1>2, PortsAreObjects
<1>4. portsAsked \in Nat /\ \A k \in 1 .. portsAsked : k \in 1 .. Len(P) /\ P[k] \in DOMAIN built
  BY <1>1, <1>2 DEF StartInv, PortsAskedInTurn
<1>5. CountedAreBuilt'
  BY <1>1 DEF StartInv, CountedAreBuilt
<1>6. CASE portsAsked = Len(P)
  <2>1. startPhase' = AfterPhase(startPhase) /\ portsAsked' = 0 /\ building' = building
    BY <1>2, <1>6 DEF AskForPort
  <2>2. Range(P) \subseteq DOMAIN built
    BY <1>3, <1>4, <1>6 DEF Range
  <2>3. NoPortIsMissing' /\ startPhase' \in {"starting", "ready"}
    BY <1>1, <1>2, <2>1, <2>2 DEF NoPortIsMissing, StartInv, PortsAskedInTurn, Asking, AfterPhase, PortsOf
  <2>4. PortsAskedInTurn'
    BY <1>1, <2>1, <2>3 DEF PortsAskedInTurn, Asking
  <2>5. CallsInOrder' /\ TriedInTurn'
    BY <1>1, <2>1 DEF StartInv, CallsInOrder, TriedInTurn, CannotBeHad
  <2> QED BY <1>5, <2>4, <2>5 DEF StartInv
<1>7. CASE portsAsked # Len(P)
  <2>1. PICK o : o = P[portsAsked + 1]
    OBVIOUS
  <2>2. /\ portsAsked' = portsAsked + 1 /\ startPhase' = startPhase
        /\ building' = IF IsBuilt(o) THEN <<>> ELSE <<Getter(o)>>
    BY <1>2, <1>7, <2>1 DEF AskForPort
  <2>3. portsAsked + 1 \in 1 .. Len(P) /\ o \in ObjectNames
    <3>1. portsAsked <= Len(P)
      <4>1. CASE portsAsked = 0
        BY <1>3, <4>1
      <4>2. CASE portsAsked # 0
        BY <1>3, <1>4, <4>2
      <4> QED BY <4>1, <4>2
    <3>2. portsAsked \in Nat /\ portsAsked # Len(P) /\ Len(P) \in Nat
      BY <1>3, <1>4, <1>7
    <3>3. portsAsked + 1 \in 1 .. Len(P)
      BY <3>1, <3>2
    <3> QED BY <1>3, <2>1, <3>3
  <2>4. /\ \A n \in DOMAIN building' : n = 1 /\ building'[n] = Getter(o) /\ ~IsBuilt(o)
        /\ building' \in Seq(Frames)
        /\ ~IsBuilt(o) => building' # <<>> /\ building'[1].object = o
    <3>1. Getter(o) \in Frames /\ Getter(o).object = o
      BY <2>3 DEF Getter, Frames
    <3>2. CASE IsBuilt(o)
      BY <2>2, <3>2, EmptyQueue
    <3>3. CASE ~IsBuilt(o)
      BY <2>2, <3>1, <3>3
    <3> QED BY <3>2, <3>3
  <2>5. Getter(o).object = o /\ Getter(o).try = 1 /\ 1 \in DOMAIN Objects[o]
    BY <2>3, ObjectsInOrder DEF Getter, IsInOrder
  <2>6. CallsInOrder'
    BY <1>1, <2>4, <2>5 DEF StartInv, CallsInOrder, IsBuilt
  <2>7. TriedInTurn'
    BY <1>1, <2>4, <2>5 DEF StartInv, TriedInTurn, CannotBeHad
  <2>8. PortsAskedInTurn'
    <3>1. \A k \in 1 .. portsAsked + 1 : k \in 1 .. Len(P) /\
             (P[k] \in DOMAIN built \/ (building' # <<>> /\ building'[1].object = P[k]))
      <4> SUFFICES ASSUME NEW k \in 1 .. portsAsked + 1
                   PROVE  k \in 1 .. Len(P) /\
                     (P[k] \in DOMAIN built \/ (building' # <<>> /\ building'[1].object = P[k]))
        OBVIOUS
      <4>1. CASE k = portsAsked + 1
        BY <2>1, <2>3, <2>4, <4>1 DEF IsBuilt
      <4>2. CASE k # portsAsked + 1
        <5>1. k \in 1 .. portsAsked
          BY <1>4, <4>2
        <5> QED BY <1>4, <5>1
      <4> QED BY <4>1, <4>2
    <3>2. Asking' /\ PortsOf(startPhase)' = P /\ portsAsked' \in Nat
      BY <1>1, <1>2, <1>4, <2>2 DEF Asking
    <3>3. NoPortIsMissing'
      BY <1>1, <2>2 DEF NoPortIsMissing, StartInv, PortsAskedInTurn
    <3> QED BY <1>1, <2>2, <3>1, <3>2, <3>3 DEF PortsAskedInTurn, StartInv, Asking
  <2> QED BY <1>5, <2>6, <2>7, <2>8 DEF StartInv
<1> QED BY <1>6, <1>7

\* What the constructor needs is asked for.
LEMMA AskForNeededKeeps ==
  ASSUME StartInv, AskForNeeded
  PROVE  StartInv'
<1>1. /\ building # <<>> /\ UNCHANGED <<startPhase, portsAsked, built, constructed, failed, threw>>
  BY DEF AskForNeeded
<1>2. PICK o \in Trying(Last(building)).needs : ~IsBuilt(o) /\ building' = Append(building, Getter(o))
  BY DEF AskForNeeded
<1>3. PICK l : l = Len(building)
  OBVIOUS
<1>4. /\ building \in Seq(Frames) /\ l \in DOMAIN building /\ l \in Nat \ {0} /\ DOMAIN building = 1 .. l
      /\ Last(building) = building[l]
  BY <1>1, <1>3 DEF StartInv, CallsInOrder, Last
<1>5. PICK f : f = building[l]
  OBVIOUS
<1>6. f.object \in ObjectNames /\ f.try \in DOMAIN Objects[f.object] /\ o \in Objects[f.object][f.try].needs
  <2>1. f \in Frames
    BY <1>4, <1>5
  <2>2. f.try \in DOMAIN Objects[f.object]
    BY <1>4, <1>5 DEF StartInv, CallsInOrder
  <2> QED BY <1>2, <1>4, <1>5, <2>1, <2>2 DEF Frames, Trying
<1>7. o \in ObjectNames /\ Height(o) < Height(f.object)
  BY <1>6, ObjectsInOrder DEF IsInOrder
<1>8. Getter(o) \in Frames /\ Getter(o).object = o /\ Getter(o).try = 1 /\ 1 \in DOMAIN Objects[o]
  BY <1>7, ObjectsInOrder DEF Getter, Frames, IsInOrder
<1>9. /\ building' \in Seq(Frames) /\ DOMAIN building' = DOMAIN building \cup {l + 1} /\ building' # <<>>
      /\ building'[l + 1] = Getter(o)
      /\ \A k \in DOMAIN building : k \in Nat /\ 0 < k /\ k <= l /\ building'[k] = building[k]
  <2>1. /\ Append(building, Getter(o)) \in Seq(Frames)
        /\ DOMAIN Append(building, Getter(o)) = DOMAIN building \cup {Len(building) + 1}
        /\ Append(building, Getter(o))[Len(building) + 1] = Getter(o)
        /\ \A k \in DOMAIN building : k \in Nat /\ 0 < k /\ k < Len(building) + 1
             /\ Append(building, Getter(o))[k] = building[k]
    BY <1>4, <1>8, AppendedByPlace
  <2>2. Append(building, Getter(o)) # <<>>
    BY <1>4, <1>8, Appended
  <2> QED BY <1>2, <1>3, <1>4, <2>1, <2>2
<1>10. \A x : Height(x) \in Int
  BY DEF Height
<1>11. CallsInOrder'
  <2>1. ASSUME NEW n \in DOMAIN building' 
        PROVE  /\ building'[n].object \notin DOMAIN built'
               /\ building'[n].try \in DOMAIN Objects[building'[n].object]
    BY <1>1, <1>2, <1>8, <1>9 DEF StartInv, CallsInOrder, IsBuilt
  <2>2. ASSUME NEW n \in DOMAIN building', n + 1 \in DOMAIN building'
        PROVE  building'[n + 1].object \in Trying(building'[n]).needs
    <3>1. CASE n = l
      BY <1>2, <1>4, <1>8, <1>9, <3>1
    <3>2. CASE n # l
      <4>1. n \in DOMAIN building /\ n + 1 \in DOMAIN building
        BY <1>4, <1>9, <2>2, <3>2
      <4> QED BY <1>9, <4>1 DEF StartInv, CallsInOrder
    <3> QED BY <3>1, <3>2
  <2>3. ASSUME NEW n \in DOMAIN building', NEW m \in DOMAIN building', n < m
        PROVE  Height(building'[m].object) < Height(building'[n].object)
    <3>1. n \in DOMAIN building
      BY <1>4, <1>9, <2>3
    <3>2. CASE m \in DOMAIN building
      BY <1>9, <2>3, <3>1, <3>2 DEF StartInv, CallsInOrder
    <3>3. CASE m = l + 1
      <4>1. building'[m].object = o /\ building'[n] = building[n]
        BY <1>8, <1>9, <3>1, <3>3
      <4>2. n = l \/ Height(f.object) < Height(building[n].object)
        BY <1>4, <1>5, <3>1 DEF StartInv, CallsInOrder
      <4> QED BY <1>5, <1>7, <1>10, <4>1, <4>2
    <3> QED BY <1>9, <3>2, <3>3
  <2> QED BY <1>1, <1>9, <2>1, <2>2, <2>3 DEF StartInv, CallsInOrder
<1>12. TriedInTurn'
  <2>1. ASSUME NEW n \in DOMAIN building', NEW m \in 1 .. building'[n].try - 1
        PROVE  CannotBeHad(building'[n].object, m)
    <3>1. n \in DOMAIN building
      <4>1. CASE n = l + 1
        BY <1>8, <1>9, <2>1, <4>1
      <4> QED BY <1>9, <4>1
    <3> QED BY <1>9, <2>1, <3>1 DEF StartInv, TriedInTurn
  <2> QED BY <1>1, <2>1 DEF StartInv, TriedInTurn, CannotBeHad
<1>13. CountedAreBuilt'
  BY <1>1 DEF StartInv, CountedAreBuilt
<1>14. PortsAskedInTurn'
  <2>1. building'[1] = building[1]
    BY <1>4, <1>9
  <2> QED BY <1>1, <1>9, <2>1 DEF StartInv, PortsAskedInTurn, NoPortIsMissing, Asking
<1> QED BY <1>11, <1>12, <1>13, <1>14 DEF StartInv

\* The object that was called for last is there.
LEMMA ConstructorReturnsKeeps ==
  ASSUME StartInv, ConstructorReturns
  PROVE  StartInv'
<1>1. /\ building # <<>> /\ building' = Front(building)
      /\ UNCHANGED <<startPhase, portsAsked, failed, threw>>
  BY DEF ConstructorReturns, NeedsAreBuilt
<1>2. PICK l : l = Len(building)
  OBVIOUS
<1>3. /\ building \in Seq(Frames) /\ l \in DOMAIN building /\ l \in Nat \ {0} /\ DOMAIN building = 1 .. l
      /\ Last(building) = building[l]
  BY <1>1, <1>2 DEF StartInv, CallsInOrder, Last
<1>4. PICK f : f = building[l]
  OBVIOUS
<1>5. f.object \in ObjectNames /\ f.object \notin DOMAIN built /\ f.try \in DOMAIN Objects[f.object] /\ f.try \in Nat
  <2>1. f \in Frames
    BY <1>3, <1>4
  <2>2. f.object \notin DOMAIN built /\ f.try \in DOMAIN Objects[f.object]
    BY <1>3, <1>4 DEF StartInv, CallsInOrder
  <2> QED BY <2>1, <2>2 DEF Frames
<1>6. PICK i : i = Objects[f.object][f.try].name
  OBVIOUS
<1>7. /\ built' = With(built, f.object, i)
      /\ constructed' = IF i \in {"Backlit", "Null"} THEN constructed
                        ELSE With(constructed, i, IF i \in DOMAIN constructed THEN constructed[i] + 1 ELSE 1)
  BY <1>3, <1>4, <1>6 DEF ConstructorReturns, Trying
<1>8. /\ DOMAIN built' = DOMAIN built \cup {f.object} /\ built'[f.object] = i
      /\ \A o \in DOMAIN built : built'[o] = built[o]
  BY <1>5, <1>7 DEF With
<1>9. /\ building' \in Seq(Frames) /\ DOMAIN building' = 1 .. l - 1
      /\ \A k \in DOMAIN building' : k \in DOMAIN building /\ k < l /\ building'[k] = building[k]
  BY <1>1, <1>2, <1>3 DEF Front
<1>10. \A x : Height(x) \in Int
  BY DEF Height
<1>11. \A k \in DOMAIN building' : building[k].object # f.object
  BY <1>3, <1>4, <1>9, <1>10 DEF StartInv, CallsInOrder
<1>12. CallsInOrder'
  <2>1. \A n \in DOMAIN building' : building'[n].object \notin DOMAIN built'
    BY <1>8, <1>9, <1>11 DEF StartInv, CallsInOrder
  <2> QED BY <1>5, <1>8, <1>9, <2>1 DEF StartInv, CallsInOrder
<1>13. TriedInTurn'
  <2>1. ASSUME NEW o \in DOMAIN built'
        PROVE  \E n \in DOMAIN Objects[o] :
                 built'[o] = Objects[o][n].name /\ \A m \in 1 .. n - 1 : CannotBeHad(o, m)
    <3>1. CASE o = f.object
      BY <1>3, <1>4, <1>5, <1>6, <1>8, <3>1 DEF StartInv, TriedInTurn
    <3>2. CASE o # f.object
      BY <1>8, <3>2 DEF StartInv, TriedInTurn
    <3> QED BY <3>1, <3>2
  <2>2. \A n \in DOMAIN building' : \A m \in 1 .. building'[n].try - 1 : CannotBeHad(building'[n].object, m)
    BY <1>9 DEF StartInv, TriedInTurn
  <2> QED BY <1>1, <2>1, <2>2 DEF TriedInTurn, CannotBeHad
<1>14. CountedAreBuilt'
  <2>1. CASE i \in {"Backlit", "Null"}
    BY <1>7, <1>8, <2>1 DEF StartInv, CountedAreBuilt
  <2>2. CASE i \notin {"Backlit", "Null"}
    <3>1. ObjectOf(i) = f.object
      BY <1>5, <1>6, <2>2, ObjectsInOrder DEF IsInOrder, Uncounted
    <3>2. i \notin DOMAIN constructed
      BY <1>5, <3>1 DEF StartInv, CountedAreBuilt
    <3>3. constructed' = With(constructed, i, 1)
      BY <1>7, <2>2, <3>2
    <3>4. DOMAIN constructed' = DOMAIN constructed \cup {i} /\ constructed'[i] = 1
          /\ \A j \in DOMAIN constructed : constructed'[j] = constructed[j]
      BY <3>2, <3>3 DEF With
    <3> QED BY <1>8, <3>1, <3>4 DEF StartInv, CountedAreBuilt
  <2> QED BY <2>1, <2>2
<1>15. PortsAskedInTurn'
  <2>1. ASSUME Asking, NEW k \in 1 .. portsAsked
        PROVE  k \in 1 .. Len(PortsOf(startPhase)) /\
                 (PortsOf(startPhase)[k] \in DOMAIN built'
                    \/ (building' # <<>> /\ building'[1].object = PortsOf(startPhase)[k]))
    <3>1. k \in 1 .. Len(PortsOf(startPhase)) /\
            (PortsOf(startPhase)[k] \in DOMAIN built \/ building[1].object = PortsOf(startPhase)[k])
      BY <2>1 DEF StartInv, PortsAskedInTurn
    <3>2. CASE l = 1
      BY <1>4, <1>8, <3>1, <3>2
    <3>3. CASE l # 1
      <4>1. 1 \in DOMAIN building'
        BY <1>3, <1>9, <3>3
      <4>2. building'[1] = building[1]
        BY <1>9, <4>1
      <4>3. building' # <<>>
        <5>1. building' = <<>> => DOMAIN building' = {}
          OBVIOUS
        <5> QED BY <4>1, <5>1
      <4> QED BY <1>8, <3>1, <4>2, <4>3
    <3> QED BY <3>2, <3>3
  <2>2. Asking
    BY <1>1 DEF StartInv, PortsAskedInTurn
  <2>3. NoPortIsMissing'
    BY <1>1, <1>8 DEF StartInv, PortsAskedInTurn, NoPortIsMissing
  <2> QED BY <1>1, <2>1, <2>2, <2>3 DEF StartInv, PortsAskedInTurn, Asking
<1> QED BY <1>12, <1>13, <1>14, <1>15 DEF StartInv

\* A constructor throws: the last call that has something else to try does, or
\* the process ends.
LEMMA ConstructorThrowsKeeps ==
  ASSUME StartInv, ConstructorThrows
  PROVE  StartInv'
<1>1. building # <<>> /\ UNCHANGED <<portsAsked, built, constructed>>
  BY DEF ConstructorThrows, NeedsAreBuilt
<1>2. PICK l : l = Len(building)
  OBVIOUS
<1>3. /\ building \in Seq(Frames) /\ l \in DOMAIN building /\ l \in Nat \ {0} /\ DOMAIN building = 1 .. l
      /\ Last(building) = building[l]
  BY <1>1, <1>2 DEF StartInv, CallsInOrder, Last
<1>4. /\ failed' = failed \cup {Objects[building[l].object][building[l].try].name}
      /\ threw' = threw \cup {building[n].object :
                            n \in {k \in DOMAIN building : \A c \in Catching(building) : k > c}}
  BY <1>3 DEF ConstructorThrows, Trying
<1>5. \A o, m : CannotBeHad(o, m) => CannotBeHad(o, m)'
  BY <1>4 DEF CannotBeHad
<1>6. CountedAreBuilt'
  BY <1>1 DEF StartInv, CountedAreBuilt
<1>7. \A o \in DOMAIN built' : \E n \in DOMAIN Objects[o] :
        built'[o] = Objects[o][n].name /\ \A m \in 1 .. n - 1 : CannotBeHad(o, m)'
  BY <1>1, <1>5 DEF StartInv, TriedInTurn
<1>8. CASE Catching(building) = {}
  <2>1. building' = <<>> /\ startPhase' = "terminated"
    BY <1>8 DEF ConstructorThrows
  <2>2. building' \in Seq(Frames) /\ DOMAIN building' = {}
    BY <2>1, EmptyQueue
  <2>3. CallsInOrder' /\ TriedInTurn'
    BY <1>1, <1>7, <2>2 DEF StartInv, CallsInOrder, TriedInTurn
  <2>4. PortsAskedInTurn'
    BY <1>1, <2>1 DEF StartInv, PortsAskedInTurn, NoPortIsMissing, Asking
  <2> QED BY <1>6, <2>3, <2>4 DEF StartInv
<1>9. CASE Catching(building) # {}
  <2>1. PICK n : n = Max(Catching(building))
    OBVIOUS
  <2>2. n \in Catching(building) /\ \A c \in Catching(building) : c <= n
    <3>1. Catching(building) \subseteq 1 .. l
      BY <1>3 DEF Catching
    <3> QED BY <1>3, <1>9, <2>1, <3>1, MaxIs
  <2>3. n \in DOMAIN building /\ n \in Nat /\ 0 < n /\ n <= l
        /\ building[n].try < Len(Objects[building[n].object])
    BY <1>3, <2>2 DEF Catching
  <2>4. PICK f : f = building[n]
    OBVIOUS
  <2>5. f \in Frames /\ f.object \in ObjectNames /\ f.try \in Nat
    <3>1. f \in Frames
      BY <1>3, <2>3, <2>4
    <3> QED BY <3>1 DEF Frames
  <2>6. DOMAIN Objects[f.object] = 1 .. Len(Objects[f.object]) /\ Len(Objects[f.object]) \in Nat
    BY <2>5, ObjectsInOrder DEF IsInOrder
  <2>7. f.try \in DOMAIN Objects[f.object] /\ f.try + 1 \in DOMAIN Objects[f.object]
    BY <2>3, <2>4, <2>5, <2>6 DEF StartInv, CallsInOrder
  <2>8. building' = [SubSeq(building, 1, n) EXCEPT ![n].try = @ + 1] /\ startPhase' = startPhase
    BY <1>9, <2>1 DEF ConstructorThrows, Caught
  <2>9. PICK q : q = SubSeq(building, 1, n)
    OBVIOUS
  <2>10. q \in Seq(Frames) /\ DOMAIN q = 1 .. n /\ \A k \in 1 .. n : k \in DOMAIN building /\ q[k] = building[k]
    BY <1>3, <2>3, <2>9
  <2>11. PICK g : g = [f EXCEPT !.try = f.try + 1]
    OBVIOUS
  <2>12. g \in Frames /\ g.object = f.object /\ g.try = f.try + 1
    BY <2>5, <2>11 DEF Frames
  <2>13. building' = [q EXCEPT ![n] = g]
    BY <2>3, <2>4, <2>8, <2>9, <2>10, <2>11
  <2>14. /\ building' \in Seq(Frames) /\ DOMAIN building' = 1 .. n /\ building'[n] = g
         /\ \A k \in 1 .. n : k # n => building'[k] = building[k]
    BY <2>3, <2>10, <2>12, <2>13
  <2>15. \A k \in DOMAIN building' : k \in DOMAIN building /\ building'[k].object = building[k].object
    BY <2>4, <2>10, <2>12, <2>14
  <2>16. CallsInOrder'
    <3>1. ASSUME NEW k \in DOMAIN building'
          PROVE  /\ building'[k].object \notin DOMAIN built'
                 /\ building'[k].try \in DOMAIN Objects[building'[k].object]
      <4>1. CASE k = n
        BY <1>1, <2>3, <2>4, <2>7, <2>12, <2>14, <4>1 DEF StartInv, CallsInOrder
      <4>2. CASE k # n
        BY <1>1, <2>14, <2>15, <4>2 DEF StartInv, CallsInOrder
      <4> QED BY <4>1, <4>2
    <3>2. ASSUME NEW k \in DOMAIN building', k + 1 \in DOMAIN building'
          PROVE  building'[k + 1].object \in Trying(building'[k]).needs
      <4>1. k # n /\ building'[k] = building[k]
        BY <2>3, <2>14, <3>2
      <4> QED BY <2>15, <3>2, <4>1 DEF StartInv, CallsInOrder
    <3>3. \A k, m \in DOMAIN building' : k < m => Height(building'[m].object) < Height(building'[k].object)
      BY <2>15 DEF StartInv, CallsInOrder
    <3> QED BY <1>1, <2>14, <3>1, <3>2, <3>3 DEF StartInv, CallsInOrder
  <2>17. CannotBeHad(f.object, f.try)'
    <3>1. CASE n = l
      BY <1>4, <2>4, <3>1 DEF CannotBeHad
    <3>2. CASE n # l
      <4>1. n + 1 \in DOMAIN building
        BY <1>3, <2>3, <3>2
      <4>2. building[n + 1].object \in Objects[f.object][f.try].needs
        BY <2>3, <2>4, <4>1 DEF StartInv, CallsInOrder, Trying
      <4>3. \A c \in Catching(building) : n + 1 > c
        BY <1>3, <2>2, <2>3 DEF Catching
      <4>4. building[n + 1].object \in threw'
        BY <1>4, <4>1, <4>3
      <4> QED BY <4>2, <4>4 DEF CannotBeHad
    <3> QED BY <3>1, <3>2
  <2>18. TriedInTurn'
    <3>1. ASSUME NEW k \in DOMAIN building', NEW m \in 1 .. building'[k].try - 1,
                 NEW o, o = building'[k].object
          PROVE  CannotBeHad(o, m)'
      <4>1. CASE k = n
        <5>1. m = f.try \/ m \in 1 .. f.try - 1
          BY <2>5, <2>12, <2>14, <3>1, <4>1
        <5>2. m \in 1 .. f.try - 1 => CannotBeHad(f.object, m)
          BY <2>3, <2>4 DEF StartInv, TriedInTurn
        <5>3. o = f.object
          BY <2>12, <2>14, <3>1, <4>1
        <5> QED BY <1>5, <2>17, <5>1, <5>2, <5>3
      <4>2. CASE k # n
        <5>1. building'[k] = building[k]
          BY <2>14, <4>2
        <5>2. CannotBeHad(o, m)
          BY <2>15, <3>1, <5>1 DEF StartInv, TriedInTurn
        <5> QED BY <1>5, <5>2
      <4> QED BY <4>1, <4>2
    <3>2. \A k \in DOMAIN building' : \A m \in 1 .. building'[k].try - 1 : CannotBeHad(building[k].object, m)'
      BY <3>1
    <3> QED BY <1>7, <3>2 DEF TriedInTurn
  <2>19. PortsAskedInTurn'
    <3>1. 1 \in DOMAIN building'
      BY <2>3, <2>14
    <3>2. building' # <<>>
      <4>1. building' = <<>> => DOMAIN building' = {}
        OBVIOUS
      <4> QED BY <3>1, <4>1
    <3>3. building'[1].object = building[1].object
      BY <2>15, <3>1
    <3>4. Asking
      BY <1>1 DEF StartInv, PortsAskedInTurn
    <3> QED BY <1>1, <2>8, <3>2, <3>3, <3>4 DEF StartInv, PortsAskedInTurn, NoPortIsMissing, Asking
  <2> QED BY <1>6, <2>16, <2>18, <2>19 DEF StartInv
<1> QED BY <1>8, <1>9

\* Every step.
LEMMA NextStartInv == StartInv /\ [StartNext]_startVars => StartInv'
<1> SUFFICES ASSUME StartInv, [StartNext]_startVars PROVE StartInv'
  OBVIOUS
<1>1. CASE UNCHANGED startVars
  BY <1>1 DEF startVars, StartInv, CallsInOrder, TriedInTurn, CannotBeHad, CountedAreBuilt, PortsAskedInTurn,
              NoPortIsMissing, Asking
<1>2. ASSUME StartPorts \/ FirstSession PROVE StartInv'
  <2>1. /\ UNCHANGED <<portsAsked, building, built, constructed, failed, threw>> /\ ~Asking
        /\ \/ startPhase = "starting" /\ startPhase' \in {"running", "terminated"}
           \/ startPhase = "running" /\ startPhase' = "machine"
    BY <1>2 DEF StartPorts, FirstSession, Asking
  <2>2. CallsInOrder' /\ TriedInTurn' /\ CountedAreBuilt'
    BY <2>1 DEF StartInv, CallsInOrder, TriedInTurn, CannotBeHad, CountedAreBuilt
  <2>3. PortsAskedInTurn'
    BY <2>1 DEF StartInv, PortsAskedInTurn, NoPortIsMissing, Asking
  <2> QED BY <2>2, <2>3 DEF StartInv
<1> QED BY <1>1, <1>2, AskForPortKeeps, AskForNeededKeeps, ConstructorReturnsKeeps, ConstructorThrowsKeeps
        DEF StartNext

\* That says what was asked for.
LEMMA StartIsInOrder == StartInv => NoPortIsMissing /\ NothingIsBuiltTwice /\ FallbackIsLast
<1> SUFFICES ASSUME StartInv PROVE NoPortIsMissing /\ NothingIsBuiltTwice /\ FallbackIsLast
  OBVIOUS
<1>1. ASSUME NEW o \in DOMAIN built, NEW n \in DOMAIN Objects[o],
             \A m \in 1 .. n : Objects[o][m].name # built[o]
      PROVE  CannotBeHad(o, n)
  <2>1. PICK k \in DOMAIN Objects[o] :
          built[o] = Objects[o][k].name /\ \A m \in 1 .. k - 1 : CannotBeHad(o, m)
    BY DEF StartInv, TriedInTurn
  <2>2. DOMAIN Objects[o] = 1 .. Len(Objects[o]) /\ Len(Objects[o]) \in Nat
    BY ObjectsInOrder DEF IsInOrder, StartInv, CallsInOrder
  <2>3. k \notin 1 .. n /\ k \in Nat /\ n \in Nat /\ 1 <= n
    BY <1>1, <2>1, <2>2
  <2>4. n \in 1 .. k - 1
    BY <2>1, <2>2, <2>3
  <2> QED BY <2>1, <2>4
<1>2. FallbackIsLast
  BY <1>1 DEF FallbackIsLast, CannotBeHad
<1> QED BY <1>2 DEF StartInv, PortsAskedInTurn, CountedAreBuilt, NothingIsBuiltTwice

\* StartUp: whichever constructors throw, no port that is called is missing, no
\* implementation is made twice, and a fallback is what is left when all before
\* it cannot be had.
THEOREM StartCorrect == StartSpec => [](NoPortIsMissing /\ NothingIsBuiltTwice /\ FallbackIsLast)
BY InitStartInv, NextStartInv, StartIsInOrder, PTL DEF StartSpec

-----------------------------------------------------------------------------
(* The files that configure the device.                                    *)

ConfigTyped ==
  /\ file \in {"config-default", "config-device", "read"}
  /\ last_config_name \in Range(NameOf) \cup {""} /\ inElement \in BOOLEAN
  /\ config = [n \in DOMAIN config |-> config[n]] /\ declared = [n \in DOMAIN declared |-> declared[n]]
  /\ \A n \in DOMAIN config : config[n] \in Seq(Texts)
  /\ \A n \in DOMAIN declared : declared[n] \in Seq(Texts)
  /\ inElement => last_config_name \in DOMAIN declared \ unfinished
  /\ ~inElement /\ last_config_name # "" => last_config_name \in unfinished

\* Of all names but those of elements that were cut off, config has the values of
\* the last element, unless it was empty so far.
ConfigFollows ==
  \A n : n \notin unfinished =>
    /\ n \in DOMAIN config <=> n \in DOMAIN declared /\ declared[n] # <<>>
    /\ n \in DOMAIN config => config[n] = declared[n]

ConfigInv == ConfigTyped /\ ConfigFollows

\* Names are not empty, without their prefix either.
LEMMA NamesAreNamed == \A a \in AttributeNames : NameOf[a] \in Range(NameOf) /\ NameOf[a] # ""
BY DeviceFilesAssumption DEF Range

\* An element begins: what an earlier one of its name left is gone.
LEMMA BeginningKeeps ==
  ASSUME ConfigInv, xml_start_element
  PROVE  ConfigInv'
<1>1. PICK a \in AttributeNames :
        ElementBegins(NameOf[a]) /\ config' = Restrict(config, DOMAIN config \ {NameOf[a]})
  BY DEF xml_start_element
<1>2. PICK N : N = NameOf[a] /\ N # "" /\ N \in Range(NameOf)
  BY NamesAreNamed
<1>3. /\ DOMAIN config' = DOMAIN config \ {N} /\ \A n \in DOMAIN config' : config'[n] = config[n]
      /\ config' = [n \in DOMAIN config' |-> config'[n]]
  BY <1>1, <1>2 DEF Restrict
<1>4. /\ last_config_name' = N /\ inElement' = TRUE /\ unfinished' = unfinished \ {N}
      /\ declared' = With(declared, N, <<>>) /\ file' = file
  BY <1>1, <1>2 DEF ElementBegins
<1>5. /\ DOMAIN declared' = DOMAIN declared \cup {N} /\ declared'[N] = <<>>
      /\ \A n \in DOMAIN declared' : n # N => declared'[n] = declared[n]
      /\ declared' = [n \in DOMAIN declared' |-> declared'[n]]
  BY <1>4 DEF With
<1>6. ConfigTyped'
  BY <1>2, <1>3, <1>4, <1>5, EmptyQueue DEF ConfigInv, ConfigTyped
<1>7. ConfigFollows'
  BY <1>3, <1>4, <1>5 DEF ConfigInv, ConfigFollows
<1> QED BY <1>6, <1>7 DEF ConfigInv

\* Something is put at the end of the texts of an element.
LEMMA TextsAppended ==
  ASSUME NEW texts \in Seq(Texts), NEW text \in Texts
  PROVE  /\ Append(texts, text) \in Seq(Texts) /\ Append(texts, text) # <<>>
         /\ Append(<<>>, text) = <<text>>
<1>1. Append(<<>>, text) = <<>> \o <<text>> /\ <<text>> \in Seq(Texts)
  BY EmptyQueue, AppendJoins
<1>2. <<>> \o <<text>> = <<text>>
  BY <1>1, ConcatEmptySeq
<1> QED BY <1>1, <1>2, AppendProperties

\* A text is one more value of the element it is in, or of one that was cut off.
LEMMA TextIsRead ==
  ASSUME ConfigInv, xml_text
  PROVE  ConfigInv'
<1>1. UNCHANGED <<file, last_config_name, inElement, unfinished>>
  BY DEF xml_text
<1>2. PICK N : N = last_config_name
  OBVIOUS
<1>3. PICK t \in Texts \cup {""} :
        IF t = "" \/ N = "" THEN UNCHANGED <<config, declared>>
        ELSE /\ config' = With(config, N, IF N \in DOMAIN config THEN Append(config[N], t) ELSE <<t>>)
             /\ declared' = IF ~inElement THEN declared ELSE With(declared, N, Append(declared[N], t))
  BY <1>2 DEF xml_text
<1>4. CASE t = "" \/ N = ""
  BY <1>1, <1>3, <1>4 DEF ConfigInv, ConfigTyped, ConfigFollows
<1>5. CASE ~(t = "" \/ N = "")
  <2>1. t \in Texts
    BY <1>5
  <2>2. PICK V : V = (IF N \in DOMAIN config THEN Append(config[N], t) ELSE <<t>>)
    OBVIOUS
  <2>3. V \in Seq(Texts)
    <3>1. CASE N \in DOMAIN config
      BY <2>1, <2>2, <3>1, TextsAppended DEF ConfigInv, ConfigTyped
    <3>2. CASE N \notin DOMAIN config
      BY <2>1, <2>2, <3>2, EmptyQueue, TextsAppended
    <3> QED BY <3>1, <3>2
  <2>4. /\ DOMAIN config' = DOMAIN config \cup {N} /\ config'[N] = V
        /\ \A n \in DOMAIN config' : n # N => config'[n] = config[n]
        /\ config' = [n \in DOMAIN config' |-> config'[n]]
    BY <1>3, <1>5, <2>2 DEF With
  <2>5. CASE ~inElement
    <3>1. declared' = declared /\ N \in unfinished
      BY <1>2, <1>3, <1>5, <2>5 DEF ConfigInv, ConfigTyped
    <3>2. ConfigTyped'
      BY <1>1, <2>3, <2>4, <3>1 DEF ConfigInv, ConfigTyped
    <3>3. ConfigFollows'
      BY <1>1, <2>4, <3>1 DEF ConfigInv, ConfigFollows
    <3> QED BY <3>2, <3>3 DEF ConfigInv
  <2>6. CASE inElement
    <3>1. N \in DOMAIN declared /\ N \notin unfinished /\ declared[N] \in Seq(Texts)
      BY <1>2, <2>6 DEF ConfigInv, ConfigTyped
    <3>2. PICK D : D = Append(declared[N], t)
      OBVIOUS
    <3>3. D \in Seq(Texts) /\ D # <<>>
      BY <2>1, <3>1, <3>2, TextsAppended
    <3>4. V = D
      <4>1. CASE N \in DOMAIN config
        BY <2>2, <3>1, <3>2, <4>1 DEF ConfigInv, ConfigFollows
      <4>2. CASE N \notin DOMAIN config
        <5>1. declared[N] = <<>>
          BY <3>1, <4>2 DEF ConfigInv, ConfigFollows
        <5> QED BY <2>1, <2>2, <3>1, <3>2, <4>2, <5>1, TextsAppended
      <4> QED BY <4>1, <4>2
    <3>5. /\ DOMAIN declared' = DOMAIN declared /\ declared'[N] = D
          /\ \A n \in DOMAIN declared' : n # N => declared'[n] = declared[n]
          /\ declared' = [n \in DOMAIN declared' |-> declared'[n]]
      BY <1>3, <1>5, <2>6, <3>1, <3>2 DEF With
    <3>6. ConfigTyped'
      BY <1>1, <2>3, <2>4, <3>3, <3>5 DEF ConfigInv, ConfigTyped
    <3>7. ConfigFollows'
      BY <1>1, <2>4, <3>1, <3>3, <3>4, <3>5 DEF ConfigInv, ConfigFollows
    <3> QED BY <3>6, <3>7 DEF ConfigInv
  <2> QED BY <2>5, <2>6 DEF ConfigInv, ConfigTyped
<1> QED BY <1>4, <1>5

\* Nothing is read.
LEMMA InitConfigInv == FileInit => ConfigInv
BY EmptyQueue DEF FileInit, ConfigInv, ConfigTyped, ConfigFollows

\* Every step.
LEMMA NextConfigInv == ConfigInv /\ [FileNext]_fileVars => ConfigInv'
<1> SUFFICES ASSUME ConfigInv, [FileNext]_fileVars PROVE ConfigInv'
  OBVIOUS
<1>1. CASE UNCHANGED fileVars
  BY <1>1 DEF fileVars, ConfigInv, ConfigTyped, ConfigFollows
<1>2. CASE parse_first_matching_file_in_dirs
  BY <1>2 DEF parse_first_matching_file_in_dirs, ConfigInv, ConfigTyped, ConfigFollows
<1>3. CASE xml_end_element
  BY <1>3 DEF xml_end_element, ConfigInv, ConfigTyped, ConfigFollows
<1> QED BY <1>1, <1>2, <1>3, BeginningKeeps, TextIsRead DEF FileNext

\* What config follows, it holds.
LEMMA ConfigHolds == ConfigInv => LastElementHolds
<1> SUFFICES ASSUME ConfigInv PROVE LastElementHolds
  OBVIOUS
<1>1. /\ DOMAIN config \ unfinished = {n \in DOMAIN declared \ unfinished : declared[n] # <<>>}
      /\ \A n \in DOMAIN config \ unfinished : config[n] = declared[n]
  BY DEF ConfigInv, ConfigFollows
<1> QED BY <1>1 DEF Restrict, LastElementHolds

\* DeviceFiles: of whatever files, cut off or not, what get returns for a name are
\* the values of the last element of that name, but of one that was cut off.
THEOREM FilesCorrect == FileSpec => []LastElementHolds
BY InitConfigInv, NextConfigInv, ConfigHolds, PTL DEF FileSpec

=============================================================================
