--------------------------- MODULE ServiceProofs ----------------------------
(***************************************************************************)
(* That what the daemon believes of the services around it is so, once     *)
(* nothing is on its way: of logind, of oFono, of UPower and of the        *)
(* display outputs.  Each is a table or a value that the service copies    *)
(* from what it is told, by signals that wait in a queue; and each         *)
(* invariant says, in its own terms, that the last of the signals that     *)
(* wait is right, and that without one the copy is (LastIn and NoneIn of   *)
(* QueueLemmas).  Signals may overtake the answer to the first question,   *)
(* and what is told to the daemon is queued once more.  The last part is   *)
(* about all components in one behaviour, and proves their types.          *)
(***************************************************************************)
EXTENDS PortProofs, LifecycleProofs, ScreenServiceProofs, MCAdapters

-----------------------------------------------------------------------------
(* The display outputs.                                                    *)

\* The last of the signals says what is so.  A display that has not asked, or
\* is not answered yet, has no signal lost; an answer that no signal follows is
\* right, and so is what is known when none is left.
OutputInv ==
  /\ externalOutput \in BOOLEAN /\ outputAnswer \in BOOLEAN /\ DisplayTypeOK
  /\ displayAt = "new" => outputSignals = <<>>
  /\ \A x : LastIn(outputSignals, BOOLEAN, x) => x = externalOutput
  /\ displayAt = "answered" /\ NoneIn(outputSignals, BOOLEAN) => outputAnswer = externalOutput
  /\ displayAt = "known" /\ NoneIn(outputSignals, BOOLEAN) =>
       has_active_external_displays_ = externalOutput

\* No display is known and nothing is on its way.
LEMMA InitOutputInv == DisplayInit => OutputInv
BY NoneHasNoLast, EmptyQueue DEF DisplayInit, OutputInv, DisplayTypeOK

\* A display comes or goes, and that is signalled once the service is asked.
LEMMA OutputChangesKeeps ==
  OutputInv /\ OutputChanges => OutputInv'
<1> SUFFICES ASSUME OutputInv, OutputChanges PROVE OutputInv'
  OBVIOUS
<1>1. CASE displayAt = "new"
  <2>1. \A x : ~LastIn(outputSignals, BOOLEAN, x)
    BY <1>1, NoneHasNoLast DEF OutputInv
  <2> QED BY <1>1, <2>1 DEF OutputInv, OutputChanges, DisplayTypeOK
<1>2. CASE displayAt # "new"
  <2>1. externalOutput' \in BOOLEAN /\ outputSignals \in Seq(BOOLEAN)
    BY DEF OutputInv, OutputChanges, DisplayTypeOK
  <2>2. outputSignals' = Append(outputSignals, externalOutput')
    BY <1>2, Zenon DEF OutputChanges
  <2>3. outputSignals' \in Seq(BOOLEAN) /\ ~NoneIn(outputSignals', BOOLEAN)
        /\ \A x : LastIn(outputSignals', BOOLEAN, x) => x = externalOutput'
    BY <2>1, <2>2, LastAppended
  <2> QED BY <1>2, <2>1, <2>3 DEF OutputInv, OutputChanges, DisplayTypeOK
<1> QED BY <1>1, <1>2

\* ActiveOutputs is handled.
LEMMA SignalHandledKeeps ==
  OutputInv /\ dbus_ActiveOutputs => OutputInv'
<1> SUFFICES ASSUME OutputInv, dbus_ActiveOutputs PROVE OutputInv'
  OBVIOUS
<1>1. outputSignals \in Seq(BOOLEAN) /\ outputSignals # <<>>
      /\ outputSignals' = Tail(outputSignals)
      /\ has_active_external_displays_' = Head(outputSignals)
  BY DEF OutputInv, dbus_ActiveOutputs, DisplayTypeOK
<1>2. /\ outputSignals' \in Seq(BOOLEAN) /\ Head(outputSignals) \in BOOLEAN
      /\ \A x : LastIn(outputSignals', BOOLEAN, x) => LastIn(outputSignals, BOOLEAN, x)
      /\ NoneIn(outputSignals', BOOLEAN) => LastIn(outputSignals, BOOLEAN, Head(outputSignals))
  BY <1>1, LastTaken
<1>3. NoneIn(outputSignals', BOOLEAN) => has_active_external_displays_' = externalOutput
  BY <1>1, <1>2 DEF OutputInv
<1> QED BY <1>1, <1>2, <1>3 DEF OutputInv, dbus_ActiveOutputs, DisplayTypeOK

\* Each step: the question and its answer take as long as they take.
LEMMA NextOutputInv ==
  OutputInv /\ [DisplayNext]_displayVars => OutputInv'
<1> SUFFICES ASSUME OutputInv, [DisplayNext]_displayVars PROVE OutputInv'
  OBVIOUS
<1>1. CASE Subscribe \/ QueryOutputs \/ UNCHANGED displayVars
  BY <1>1 DEF OutputInv, DisplayTypeOK, Subscribe, QueryOutputs, displayVars
<1>2. CASE ServiceAnswers
  BY <1>2 DEF OutputInv, DisplayTypeOK, ServiceAnswers
<1>3. CASE dbus_query_active_outputs
  BY <1>3 DEF OutputInv, DisplayTypeOK, dbus_query_active_outputs
<1> QED
  BY <1>1, <1>2, <1>3, OutputChangesKeeps, SignalHandledKeeps DEF DisplayNext

\* Without a signal on its way, what is known is so.
LEMMA OutputsKnow == OutputInv => OutputsAreKnown
BY NoneHasNoLast DEF OutputInv, OutputsAreKnown

\* Whatever signal overtakes the answer to the first question, repowerd knows in
\* the end whether there is an external display.
THEOREM OutputsCorrect == DisplaySpec => []OutputsAreKnown
BY OutputsKnow, InitOutputInv, NextOutputInv, PTL DEF DisplaySpec

-----------------------------------------------------------------------------
(* What logind blocks.                                                     *)
(*                                                                         *)
(* The control asks when it is signalled, so what it has is newer than     *)
(* the signal; it tells the daemon what it has, last.                      *)

PowerSignalTypes == [signal : {"BlockInhibited", "PrepareForSleep"}, value : BOOLEAN]
BlockSignals == {m \in PowerSignalTypes : m.signal = "BlockInhibited"}
BlockEvents == {"system_allow_suspend", "system_disallow_suspend"}
PowerEvents == BlockEvents \cup {"system_resume"}
EventOf(blocked) == IF blocked THEN "system_disallow_suspend" ELSE "system_allow_suspend"

BlockTyped ==
  /\ sleepBlocked \in BOOLEAN /\ is_suspend_blocked \in BOOLEAN
  /\ powerPhase \in {"stopped", "subscribed", "started"}
  /\ powerSignals \in Seq(PowerSignalTypes) /\ powerQueue \in Seq(PowerEvents)

BlockInv ==
  /\ BlockTyped
  /\ powerPhase = "stopped" => powerSignals = <<>>
  /\ powerPhase = "started" /\ NoneIn(powerSignals, BlockSignals) => is_suspend_blocked = sleepBlocked
  /\ \A x : LastIn(powerQueue, BlockEvents, x) => x = EventOf(is_suspend_blocked)
  /\ powerPhase = "started" /\ NoneIn(powerQueue, BlockEvents) =>
       machinesBlocked = IF is_suspend_blocked THEN "blocked" ELSE "free"

\* Nothing is subscribed to yet.
LEMMA InitBlockInv == LogindPowerInit => BlockInv
BY NoneHasNoLast, EmptyQueue DEF LogindPowerInit, BlockInv, BlockTyped

\* A signal of logind.
LEMMA SentKeeps ==
  ASSUME BlockInv, NEW m \in PowerSignalTypes, Sent(m), sleepBlocked' \in BOOLEAN,
         m \in BlockSignals \/ sleepBlocked' = sleepBlocked,
         UNCHANGED <<controlVars, powerQueue, daemonSideVars>>
  PROVE  BlockInv'
<1>1. CASE powerPhase = "stopped"
  BY <1>1 DEF BlockInv, BlockTyped, Sent, controlVars, daemonSideVars
<1>2. CASE powerPhase # "stopped"
  <2>1. powerSignals \in Seq(PowerSignalTypes) /\ powerSignals' = Append(powerSignals, m)
    BY <1>2 DEF BlockInv, BlockTyped, Sent
  <2>2. /\ powerSignals' \in Seq(PowerSignalTypes)
        /\ m \in BlockSignals => ~NoneIn(powerSignals', BlockSignals)
        /\ m \notin BlockSignals =>
             (NoneIn(powerSignals', BlockSignals) <=> NoneIn(powerSignals, BlockSignals))
    BY <2>1, LastAppended
  <2>3. NoneIn(powerSignals', BlockSignals) =>
          NoneIn(powerSignals, BlockSignals) /\ sleepBlocked' = sleepBlocked
    BY <2>2
  <2> QED BY <1>2, <2>2, <2>3 DEF BlockInv, BlockTyped, controlVars, daemonSideVars
<1> QED BY <1>1, <1>2

\* The value that the control has is told, or is the one that was told.
LEMMA ToldKeeps ==
  ASSUME NEW q \in Seq(PowerEvents), NEW b \in BOOLEAN, NEW r,
         r = NotifySuspendBlockState(b), powerQueue = q
  PROVE  /\ r \in Seq(PowerEvents) /\ ~NoneIn(r, BlockEvents)
         /\ \A x : LastIn(r, BlockEvents, x) => x = EventOf(b)
<1>1. EventOf(b) \in BlockEvents /\ EventOf(b) \in PowerEvents /\ r = Append(q, EventOf(b))
  BY DEF EventOf, NotifySuspendBlockState, BlockEvents, PowerEvents
<1> QED BY <1>1, LastAppended

\* BlockInhibited: logind is asked.
LEMMA BlockSignalKeeps ==
  ASSUME LogindAnswers, BlockInv, HandlePowerSignal, Head(powerSignals).signal = "BlockInhibited"
  PROVE  BlockInv'
<1>1. /\ powerSignals \in Seq(PowerSignalTypes) /\ powerSignals # <<>>
      /\ powerSignals' = Tail(powerSignals) /\ powerQueue \in Seq(PowerEvents)
      /\ is_suspend_blocked' = sleepBlocked /\ sleepBlocked \in BOOLEAN
      /\ powerQueue' = IF sleepBlocked # is_suspend_blocked THEN NotifySuspendBlockState(sleepBlocked)
                       ELSE powerQueue
      /\ UNCHANGED <<sleepBlocked, powerPhase, machinesBlocked>>
  BY DEF BlockInv, BlockTyped, HandlePowerSignal, handle_dbus_change_manager_properties,
         dbus_get_block_inhibited, logindStateVars, daemonSideVars
<1>2. powerSignals' \in Seq(PowerSignalTypes)
  BY <1>1, LastTaken
<1>3. CASE sleepBlocked # is_suspend_blocked
  <2>1. powerQueue' \in Seq(PowerEvents) /\ ~NoneIn(powerQueue', BlockEvents)
        /\ \A x : LastIn(powerQueue', BlockEvents, x) => x = EventOf(sleepBlocked)
    BY <1>1, <1>3, ToldKeeps
  <2> QED BY <1>1, <1>2, <2>1 DEF BlockInv, BlockTyped
<1>4. CASE sleepBlocked = is_suspend_blocked
  BY <1>1, <1>2, <1>4 DEF BlockInv, BlockTyped
<1> QED BY <1>3, <1>4

\* PrepareForSleep: says nothing of what is blocked.
LEMMA SleepSignalKeeps ==
  ASSUME BlockInv, HandlePowerSignal, Head(powerSignals).signal # "BlockInhibited"
  PROVE  BlockInv'
<1>1. /\ powerSignals \in Seq(PowerSignalTypes) /\ powerSignals # <<>>
      /\ powerSignals' = Tail(powerSignals) /\ powerQueue \in Seq(PowerEvents)
      /\ powerQueue' = powerQueue \/ powerQueue' = Append(powerQueue, "system_resume")
      /\ UNCHANGED <<sleepBlocked, powerPhase, machinesBlocked, is_suspend_blocked>>
  BY DEF BlockInv, BlockTyped, HandlePowerSignal, logindStateVars, daemonSideVars
<1>2. Head(powerSignals) \notin BlockSignals
  BY DEF BlockSignals
<1>3. powerSignals' \in Seq(PowerSignalTypes)
      /\ (NoneIn(powerSignals', BlockSignals) => NoneIn(powerSignals, BlockSignals))
  BY <1>1, <1>2, LastTaken
<1>4. /\ powerQueue' \in Seq(PowerEvents)
      /\ NoneIn(powerQueue', BlockEvents) <=> NoneIn(powerQueue, BlockEvents)
      /\ \A x : LastIn(powerQueue', BlockEvents, x) => LastIn(powerQueue, BlockEvents, x)
  <2>1. "system_resume" \in PowerEvents /\ "system_resume" \notin BlockEvents
    BY DEF PowerEvents, BlockEvents
  <2>2. CASE powerQueue' = Append(powerQueue, "system_resume")
    BY <1>1, <2>1, <2>2, LastAppended
  <2> QED BY <1>1, <2>2
<1> QED BY <1>1, <1>3, <1>4 DEF BlockInv, BlockTyped

\* initialize_is_suspend_blocked asks logind, and tells the daemon.
LEMMA StartKeepsBlock ==
  ASSUME LogindAnswers, BlockInv, initialize_is_suspend_blocked
  PROVE  BlockInv'
<1>1. /\ powerQueue \in Seq(PowerEvents) /\ sleepBlocked \in BOOLEAN
      /\ is_suspend_blocked' = sleepBlocked /\ powerPhase' = "started"
      /\ powerQueue' = NotifySuspendBlockState(sleepBlocked)
      /\ UNCHANGED <<sleepBlocked, powerSignals>>
  BY DEF BlockInv, BlockTyped, initialize_is_suspend_blocked, dbus_get_block_inhibited,
         logindStateVars
<1>2. powerQueue' \in Seq(PowerEvents) /\ ~NoneIn(powerQueue', BlockEvents)
      /\ \A x : LastIn(powerQueue', BlockEvents, x) => x = EventOf(sleepBlocked)
  BY <1>1, ToldKeeps
<1> QED BY <1>1, <1>2 DEF BlockInv, BlockTyped

\* The daemon takes an event: the last that it takes is the right one.
LEMMA EventTakenKeepsBlock ==
  ASSUME BlockInv, DaemonTakesPowerEvent
  PROVE  BlockInv'
<1>1. /\ powerQueue \in Seq(PowerEvents) /\ powerQueue # <<>> /\ powerQueue' = Tail(powerQueue)
      /\ UNCHANGED <<sleepBlocked, powerSignals, powerPhase, is_suspend_blocked>>
  BY DEF BlockInv, BlockTyped, DaemonTakesPowerEvent, logindStateVars, controlVars
<1>2. /\ powerQueue' \in Seq(PowerEvents)
      /\ \A x : LastIn(powerQueue', BlockEvents, x) => LastIn(powerQueue, BlockEvents, x)
      /\ NoneIn(powerQueue', BlockEvents) /\ Head(powerQueue) \in BlockEvents =>
           LastIn(powerQueue, BlockEvents, Head(powerQueue))
      /\ NoneIn(powerQueue', BlockEvents) /\ Head(powerQueue) \notin BlockEvents =>
           NoneIn(powerQueue, BlockEvents)
  BY <1>1, LastTaken
<1>3. ASSUME powerPhase = "started", NoneIn(powerQueue', BlockEvents)
      PROVE  machinesBlocked' = IF is_suspend_blocked THEN "blocked" ELSE "free"
  <2>1. CASE Head(powerQueue) \in BlockEvents
    <3>1. Head(powerQueue) = EventOf(is_suspend_blocked)
      BY <1>2, <1>3, <2>1 DEF BlockInv
    <3> QED BY <3>1 DEF EventOf, DaemonTakesPowerEvent
  <2>2. CASE Head(powerQueue) \notin BlockEvents
    <3>1. UNCHANGED machinesBlocked
      BY <2>2 DEF BlockEvents, DaemonTakesPowerEvent
    <3> QED BY <1>2, <1>3, <2>2, <3>1 DEF BlockInv
  <2> QED BY <2>1, <2>2
<1> QED BY <1>1, <1>2, <1>3 DEF BlockInv, BlockTyped

\* Each step, of logind, of its control and of the daemon.
LEMMA NextBlockInv ==
  ASSUME LogindAnswers, BlockInv, [LogindPowerNext]_logindPowerVars
  PROVE  BlockInv'
<1>1. CASE BlockInhibitedChanges
  <2>1. [signal |-> "BlockInhibited", value |-> sleepBlocked] \in BlockSignals
    BY DEF BlockInv, BlockTyped, BlockSignals, PowerSignalTypes
  <2>2. [signal |-> "BlockInhibited", value |-> sleepBlocked] \in PowerSignalTypes
    BY <2>1 DEF BlockSignals
  <2>3. sleepBlocked' \in BOOLEAN /\ UNCHANGED <<controlVars, powerQueue, daemonSideVars>>
        /\ Sent([signal |-> "BlockInhibited", value |-> sleepBlocked])
    BY <1>1 DEF BlockInhibitedChanges
  <2> QED BY <2>1, <2>2, <2>3, SentKeeps
<1>2. CASE LogindSleeps \/ LogindResumes
  <2>1. PICK v \in BOOLEAN : Sent([signal |-> "PrepareForSleep", value |-> v])
    BY <1>2 DEF LogindSleeps, LogindResumes
  <2>2. [signal |-> "PrepareForSleep", value |-> v] \in PowerSignalTypes
    BY DEF PowerSignalTypes
  <2>3. sleepBlocked' = sleepBlocked /\ sleepBlocked' \in BOOLEAN
        /\ UNCHANGED <<controlVars, powerQueue, daemonSideVars>>
    BY <1>2 DEF LogindSleeps, LogindResumes, BlockInv, BlockTyped
  <2> QED BY <2>1, <2>2, <2>3, SentKeeps
<1>3. CASE StartLogindPower
  BY <1>3 DEF StartLogindPower, BlockInv, BlockTyped, logindStateVars, daemonSideVars
<1>4. CASE DisallowDefaultSystemHandlers \/ AllowDefaultSystemHandlers \/ UNCHANGED logindPowerVars
  BY <1>4 DEF DisallowDefaultSystemHandlers, AllowDefaultSystemHandlers, BlockInv, BlockTyped,
       logindPowerVars, logindStateVars, daemonSideVars, controlVars
<1> QED
  BY <1>1, <1>2, <1>3, <1>4, BlockSignalKeeps, SleepSignalKeeps, StartKeepsBlock,
     EventTakenKeepsBlock DEF LogindPowerNext

\* Without a signal or an event on its way, what the machines know is so.
LEMMA BlockKnows == BlockInv => BlockIsKnown
BY NoneHasNoLast DEF BlockInv, BlockTyped, BlockIsKnown

\* If logind answers: once nothing is on its way, the machines allow suspend if
\* logind does, whatever was blocked or allowed while they were told.
THEOREM BlockCorrect ==
  ASSUME LogindAnswers
  PROVE  LogindPowerSpec => []BlockIsKnown
<1>1. BlockInv /\ [LogindPowerNext]_logindPowerVars => BlockInv'
  BY NextBlockInv
<1> QED BY <1>1, BlockKnows, InitBlockInv, PTL DEF LogindPowerSpec

-----------------------------------------------------------------------------
(* The calls and the modems of oFono.                                      *)
(*                                                                         *)
(* Call by call, and modem by modem: a signal that is not about a call     *)
(* leaves alone what is known of it.                                       *)

CallEvents == {"active_call", "no_active_call"}
CallSignals == [signal : {"CallAdded", "PropertyChanged", "CallRemoved"}, path : CallPaths,
                state : OfonoStates \cup {"invalid"}]
ModemSignals == [signal : {"ModemAdded", "ModemRemoved"}, path : Modems, state : {"none"}]
DormancyTasks == [signal : {"set_fast_dormancy"}, path : {"none"}, state : {"low", "normal"}]
OfonoTasks == CallSignals \cup ModemSignals \cup DormancyTasks

AboutCall(c) == {m \in CallSignals : m.path = c}
AboutModem(d) == {m \in ModemSignals : m.path = d}

StateIn(table, c) == IF c \in DOMAIN table THEN table[c] ELSE "invalid"
IsCallTable(table) == DOMAIN table \subseteq CallPaths /\ table \in [DOMAIN table -> OfonoStates]

Heard(c) == StateIn(HeardCalls, c)

VoiceTyped ==
  /\ IsCallTable(ofonoCalls) /\ IsCallTable(calls)
  /\ ofonoModems \subseteq Modems /\ modems \subseteq Modems /\ fastDormancy \subseteq Modems
  /\ ofonoCrashed \in BOOLEAN /\ inCall \in BOOLEAN
  /\ callPhase \in {"stopped", "subscribed", "started"}
  /\ ofonoLoop \in Seq(OfonoTasks) /\ callEvents \in Seq(CallEvents)

\* The last signal on a call says how it is, and so does the table when there is none,
\* of the calls that have been heard of.
TableFollows ==
  /\ callPhase = "stopped" => ofonoLoop = <<>> /\ DOMAIN ofonoCalls \subseteq unheardCalls
  /\ \A c \in CallPaths :
       /\ NoneIn(ofonoLoop, AboutCall(c)) => StateIn(calls, c) = Heard(c)
       /\ \A m : LastIn(ofonoLoop, AboutCall(c), m) => m.state = Heard(c)

ModemsFollow ==
  /\ callPhase # "started" => modems = {}
  /\ \A d \in Modems :
       /\ callPhase = "started" /\ NoneIn(ofonoLoop, AboutModem(d)) => (d \in modems <=> d \in ofonoModems)
       /\ \A m : LastIn(ofonoLoop, AboutModem(d), m) => (m.signal = "ModemAdded" <=> d \in ofonoModems)

CallEventOf(table) == IF is_any_call_active(table) THEN "active_call" ELSE "no_active_call"

EventsFollow ==
  /\ NoneIn(callEvents, CallEvents) => (inCall <=> is_any_call_active(calls))
  /\ \A e : LastIn(callEvents, CallEvents, e) => e = CallEventOf(calls)

VoiceInv == VoiceTyped /\ EventsFollow /\ (~ofonoCrashed => TableFollows /\ ModemsFollow)

\* Tasks of the loop, told apart by what they carry.
LEMMA KindsOfTasks ==
  ASSUME NEW m \in OfonoTasks
  PROVE  /\ m.signal \in {"CallAdded", "PropertyChanged", "CallRemoved"} <=> m \in CallSignals
         /\ m.signal \in {"ModemAdded", "ModemRemoved"} <=> m \in ModemSignals
         /\ m \in CallSignals => m.path \in CallPaths /\ m.state \in OfonoStates \cup {"invalid"}
         /\ m \in ModemSignals => m.path \in Modems
         /\ \A c : m \in AboutCall(c) <=> m \in CallSignals /\ m.path = c
         /\ \A d : m \in AboutModem(d) <=> m \in ModemSignals /\ m.path = d
BY DEF OfonoTasks, CallSignals, ModemSignals, DormancyTasks, AboutCall, AboutModem

\* The empty table.
LEMMA NothingIsTable ==
  IsCallTable(Nothing) /\ ~is_any_call_active(Nothing) /\ \A c : StateIn(Nothing, c) = "invalid"
BY DEF Nothing, IsCallTable, is_any_call_active, StateIn

\* What is heard of a call is what oFono says of it.
LEMMA HeardIsOfonos ==
  ASSUME IsCallTable(ofonoCalls)
  PROVE  /\ IsCallTable(HeardCalls)
         /\ \A c : Heard(c) = IF c \in unheardCalls THEN "invalid" ELSE StateIn(ofonoCalls, c)
<1>1. HeardCalls = [c \in DOMAIN ofonoCalls \ unheardCalls |-> ofonoCalls[c]]
  BY DEF HeardCalls, Restrict
<1> QED BY <1>1 DEF IsCallTable, Heard, StateIn

\* Nothing is known of oFono.
LEMMA InitVoiceInv == VoiceInit => VoiceInv
<1> SUFFICES ASSUME VoiceInit PROVE VoiceInv
  OBVIOUS
<1>1. VoiceTyped
  BY EmptyQueue, NothingIsTable DEF VoiceInit, VoiceTyped
<1>2. TableFollows /\ ModemsFollow
  BY NoneHasNoLast, NothingIsTable, HeardIsOfonos DEF VoiceInit, TableFollows, ModemsFollow, Nothing
<1>3. EventsFollow
  BY NoneHasNoLast, NothingIsTable DEF VoiceInit, EventsFollow
<1> QED BY <1>1, <1>2, <1>3 DEF VoiceInv

-----------------------------------------------------------------------------
\* A table with the state of one call changed, or the call removed.
Changed(table, c, s) ==
  IF s = "invalid" THEN Restrict(table, DOMAIN table \ {c}) ELSE With(table, c, s)

\* What Changed leaves in the table, call by call.
LEMMA TableChanged ==
  ASSUME NEW table, IsCallTable(table), NEW c \in CallPaths, NEW s \in OfonoStates \cup {"invalid"}
  PROVE  /\ IsCallTable(Changed(table, c, s))
         /\ \A d : StateIn(Changed(table, c, s), d) = IF d = c THEN s ELSE StateIn(table, d)
<1>1. CASE s = "invalid"
  <2>1. Changed(table, c, s) = [x \in DOMAIN table \ {c} |-> table[x]]
    BY <1>1 DEF Restrict, Changed
  <2> QED BY <1>1, <2>1 DEF IsCallTable, StateIn
<1>2. CASE s # "invalid"
  <2>1. Changed(table, c, s) = [x \in DOMAIN table \cup {c} |-> IF x = c THEN s ELSE table[x]]
    BY <1>2 DEF With, Changed
  <2>2. s \in OfonoStates
    BY <1>2
  <2> QED BY <1>2, <2>1, <2>2 DEF IsCallTable, StateIn
<1> QED BY <1>1, <1>2

\* Whether a call is active depends on the states in the table only.
LEMMA ActiveByState ==
  ASSUME NEW table, IsCallTable(table)
  PROVE  is_any_call_active(table) <=> \E c \in CallPaths : is_call_state_active(StateIn(table, c))
BY DEF IsCallTable, is_any_call_active, is_call_state_active, StateIn

\* A signal of oFono or a task is queued once the service has subscribed.
LEMMA QueuedKeeps ==
  ASSUME VoiceInv, NEW m \in OfonoTasks, OfonoSignalled(m),
         IsCallTable(ofonoCalls'), ofonoModems' \subseteq Modems,
         callPhase = "stopped" => \/ DOMAIN ofonoCalls' \subseteq unheardCalls'
                                  \/ UNCHANGED <<ofonoCalls, unheardCalls>>,
         \A c \in CallPaths : Heard(c)' =
            IF m \in AboutCall(c) /\ callPhase # "stopped" THEN m.state ELSE Heard(c),
         \A d \in Modems : IF m \in AboutModem(d) THEN m.signal = "ModemAdded" <=> d \in ofonoModems'
                           ELSE d \in ofonoModems' <=> d \in ofonoModems
  PROVE  VoiceInv'
<1>1. /\ UNCHANGED <<callPhase, calls, modems, callEvents, inCall, fastDormancy, ofonoCrashed>>
      /\ ofonoLoop \in Seq(OfonoTasks)
      /\ ofonoLoop' = IF callPhase = "stopped" THEN ofonoLoop ELSE Append(ofonoLoop, m)
  BY DEF OfonoSignalled, callServiceVars, callDaemonVars, VoiceInv, VoiceTyped
<1>2. ofonoLoop' \in Seq(OfonoTasks)
  BY <1>1, LastAppended
<1>3. VoiceTyped'
  BY <1>1, <1>2 DEF VoiceInv, VoiceTyped
<1>4. EventsFollow'
  BY <1>1 DEF VoiceInv, EventsFollow
<1>5. CASE callPhase = "stopped"
  <2>1. ASSUME ~ofonoCrashed PROVE TableFollows' /\ ModemsFollow'
    <3>1. ofonoLoop = <<>> /\ ofonoLoop' = <<>> /\ DOMAIN ofonoCalls' \subseteq unheardCalls'
          /\ TableFollows /\ ModemsFollow /\ \A c \in CallPaths : Heard(c)' = Heard(c)
      BY <1>1, <1>5, <2>1 DEF VoiceInv, TableFollows
    <3>2. \A K, x : ~LastIn(ofonoLoop', K, x)
      BY <3>1, NoneHasNoLast
    <3> QED BY <1>1, <1>5, <3>1, <3>2 DEF TableFollows, ModemsFollow
  <2> QED BY <1>1, <1>3, <1>4, <2>1 DEF VoiceInv
<1>6. CASE callPhase # "stopped"
  <2>1. \A K : /\ m \in K => /\ ~NoneIn(ofonoLoop', K)
                             /\ \A x : LastIn(ofonoLoop', K, x) => x = m
               /\ m \notin K => /\ NoneIn(ofonoLoop', K) <=> NoneIn(ofonoLoop, K)
                                /\ \A x : LastIn(ofonoLoop', K, x) => LastIn(ofonoLoop, K, x)
    BY <1>1, <1>6, LastAppended
  <2>2. ASSUME ~ofonoCrashed PROVE TableFollows'
    <3>1. TableFollows
      BY <2>2 DEF VoiceInv
    <3>2. ASSUME NEW c \in CallPaths
          PROVE  /\ NoneIn(ofonoLoop', AboutCall(c)) => StateIn(calls', c) = Heard(c)'
                 /\ \A x : LastIn(ofonoLoop', AboutCall(c), x) => x.state = Heard(c)'
      <4>1. CASE m \in AboutCall(c)
        BY <1>6, <2>1, <4>1
      <4>2. CASE m \notin AboutCall(c)
        <5>1. Heard(c)' = Heard(c) /\ calls' = calls
          BY <1>1, <4>2
        <5> QED BY <2>1, <3>1, <4>2, <5>1 DEF TableFollows
      <4> QED BY <4>1, <4>2
    <3> QED BY <1>1, <1>6, <3>2 DEF TableFollows
  <2>3. ASSUME ~ofonoCrashed PROVE ModemsFollow'
    <3>1. ModemsFollow
      BY <2>3 DEF VoiceInv
    <3>2. ASSUME NEW d \in Modems
          PROVE  /\ callPhase = "started" /\ NoneIn(ofonoLoop', AboutModem(d)) =>
                      (d \in modems' <=> d \in ofonoModems')
                 /\ \A x : LastIn(ofonoLoop', AboutModem(d), x) =>
                      (x.signal = "ModemAdded" <=> d \in ofonoModems')
      <4>1. CASE m \in AboutModem(d)
        BY <2>1, <4>1
      <4>2. CASE m \notin AboutModem(d)
        <5>1. (d \in ofonoModems' <=> d \in ofonoModems) /\ modems' = modems
          BY <1>1, <4>2
        <5> QED BY <2>1, <3>1, <4>2, <5>1 DEF ModemsFollow
      <4> QED BY <4>1, <4>2
    <3> QED BY <1>1, <3>1, <3>2 DEF ModemsFollow
  <2> QED BY <1>1, <1>3, <1>4, <2>2, <2>3 DEF VoiceInv
<1> QED BY <1>5, <1>6

\* What oFono signals is what it then has.
LEMMA OfonoKeeps ==
  ASSUME VoiceInv, CallAdded \/ CallStateChanges \/ CallRemoved \/ ModemAdded \/ ModemRemoved
               \/ set_power_mode
  PROVE  VoiceInv'
<1>1. IsCallTable(ofonoCalls) /\ ofonoModems \subseteq Modems
  BY DEF VoiceInv, VoiceTyped
<1>2. ASSUME NEW c \in CallPaths, NEW s \in OfonoStates \cup {"invalid"},
             NEW g \in {"CallAdded", "PropertyChanged", "CallRemoved"},
             ofonoCalls' = Changed(ofonoCalls, c, s), CallSignalled(g, c, s)
      PROVE  VoiceInv'
  <2> DEFINE m == [signal |-> g, path |-> c, state |-> s]
  <2>1. m \in CallSignals /\ m \in OfonoTasks /\ m.path = c /\ m.state = s
    BY DEF CallSignals, OfonoTasks
  <2>2. /\ OfonoSignalled(m) /\ UNCHANGED ofonoModems
        /\ unheardCalls' = IF callPhase = "stopped" /\ s # "invalid" THEN unheardCalls \cup {c}
                           ELSE unheardCalls \ {c}
    BY <1>2 DEF CallSignalled
  <2> HIDE DEF m
  <2>3. m \notin ModemSignals /\ (\A d : m \in AboutCall(d) <=> d = c) /\ \A d : m \notin AboutModem(d)
    BY <2>1, KindsOfTasks
  <2>4. IsCallTable(ofonoCalls')
        /\ \A d : StateIn(ofonoCalls', d) = IF d = c THEN s ELSE StateIn(ofonoCalls, d)
    BY <1>1, <1>2, TableChanged
  <2>5. \A d : /\ Heard(d) = IF d \in unheardCalls THEN "invalid" ELSE StateIn(ofonoCalls, d)
               /\ Heard(d)' = IF d \in unheardCalls' THEN "invalid" ELSE StateIn(ofonoCalls', d)
    <3>1. \A d : Heard(d) = IF d \in unheardCalls THEN "invalid" ELSE StateIn(ofonoCalls, d)
      BY <1>1, HeardIsOfonos
    <3>2. HeardCalls' = [d \in DOMAIN ofonoCalls' \ unheardCalls' |-> ofonoCalls'[d]]
      BY DEF HeardCalls, Restrict
    <3>3. \A d : Heard(d)' = IF d \in unheardCalls' THEN "invalid" ELSE StateIn(ofonoCalls', d)
      BY <2>4, <3>2 DEF Heard, StateIn, IsCallTable
    <3> QED BY <3>1, <3>3
  <2>6. CASE callPhase # "stopped"
    <3>1. \A d \in CallPaths : Heard(d)' = IF m \in AboutCall(d) THEN m.state ELSE Heard(d)
      BY <2>1, <2>2, <2>3, <2>4, <2>5, <2>6
    <3> QED BY <1>1, <2>1, <2>2, <2>3, <2>4, <2>6, <3>1, QueuedKeeps
  <2>7. CASE callPhase = "stopped" /\ ~ofonoCrashed
    <3>1. DOMAIN ofonoCalls \subseteq unheardCalls
      BY <2>7 DEF VoiceInv, TableFollows
    <3>2. DOMAIN ofonoCalls' \subseteq unheardCalls'
      BY <1>2, <2>2, <2>7, <3>1 DEF Changed, Restrict, With
    <3>3. \A d : Heard(d) = "invalid" /\ Heard(d)' = "invalid"
      BY <2>5, <3>1, <3>2 DEF StateIn
    <3> QED BY <1>1, <2>1, <2>2, <2>3, <2>4, <2>7, <3>2, <3>3, QueuedKeeps
  <2>8. CASE ofonoCrashed
    <3>1. /\ UNCHANGED <<callPhase, calls, modems, callEvents, inCall, fastDormancy, ofonoCrashed>>
          /\ ofonoLoop \in Seq(OfonoTasks)
          /\ ofonoLoop' = IF callPhase = "stopped" THEN ofonoLoop ELSE Append(ofonoLoop, m)
      BY <2>2 DEF OfonoSignalled, callServiceVars, callDaemonVars, VoiceInv, VoiceTyped
    <3>2. ofonoLoop' \in Seq(OfonoTasks)
      BY <2>1, <3>1, LastAppended
    <3>3. VoiceTyped' /\ EventsFollow' /\ ofonoCrashed'
      BY <2>2, <2>4, <2>8, <3>1, <3>2 DEF VoiceInv, VoiceTyped, EventsFollow
    <3> QED BY <3>3 DEF VoiceInv
  <2> QED BY <2>6, <2>7, <2>8
<1>3. ASSUME NEW m \in ModemSignals \cup DormancyTasks, OfonoSignalled(m),
             UNCHANGED <<ofonoCalls, unheardCalls>>,
             ofonoModems' \subseteq Modems,
             \A d \in Modems : IF m \in AboutModem(d) THEN m.signal = "ModemAdded" <=> d \in ofonoModems'
                               ELSE d \in ofonoModems' <=> d \in ofonoModems
      PROVE  VoiceInv'
  <2>1. m \in OfonoTasks /\ m \notin CallSignals
    BY DEF OfonoTasks, CallSignals, ModemSignals, DormancyTasks
  <2>2. \A c : m \notin AboutCall(c)
    BY <2>1 DEF AboutCall
  <2>3. \A c : Heard(c)' = Heard(c)
    BY <1>3 DEF Heard, HeardCalls, StateIn
  <2> QED BY <1>1, <1>3, <2>1, <2>2, <2>3, QueuedKeeps
<1>4. CASE CallAdded
  <2>1. PICK c \in CallPaths \ DOMAIN ofonoCalls, s \in OfonoStates :
          ofonoCalls' = With(ofonoCalls, c, s) /\ CallSignalled("CallAdded", c, s)
    BY <1>4 DEF CallAdded
  <2>2. ofonoCalls' = Changed(ofonoCalls, c, s)
    BY <2>1 DEF OfonoStates, Changed
  <2> QED BY <1>2, <2>1, <2>2
<1>5. CASE CallStateChanges
  <2>1. PICK c \in DOMAIN ofonoCalls, s \in OfonoStates :
          ofonoCalls' = [ofonoCalls EXCEPT ![c] = s] /\ CallSignalled("PropertyChanged", c, s)
    BY <1>5 DEF CallStateChanges
  <2>2. s # "invalid" /\ c \in CallPaths
    BY <1>1 DEF OfonoStates, IsCallTable
  <2>3. ofonoCalls' = Changed(ofonoCalls, c, s)
    BY <1>1, <2>1, <2>2 DEF IsCallTable, With, Changed
  <2> QED BY <1>2, <2>1, <2>2, <2>3
<1>6. CASE CallRemoved
  <2>1. PICK c \in DOMAIN ofonoCalls :
          ofonoCalls' = Restrict(ofonoCalls, DOMAIN ofonoCalls \ {c})
          /\ CallSignalled("CallRemoved", c, "invalid")
    BY <1>6 DEF CallRemoved
  <2>2. c \in CallPaths /\ ofonoCalls' = Changed(ofonoCalls, c, "invalid")
    BY <1>1, <2>1 DEF IsCallTable, Changed
  <2> QED BY <1>2, <2>1, <2>2
<1>7. CASE ModemAdded \/ ModemRemoved
  <2>1. PICK d \in Modems, g \in {"ModemAdded", "ModemRemoved"} :
          /\ ofonoModems' = IF g = "ModemAdded" THEN ofonoModems \cup {d} ELSE ofonoModems \ {d}
          /\ OfonoSignalled([signal |-> g, path |-> d, state |-> "none"])
    BY <1>1, <1>7 DEF ModemAdded, ModemRemoved
  <2> DEFINE m == [signal |-> g, path |-> d, state |-> "none"]
  <2>2. m \in ModemSignals /\ m.signal = g /\ OfonoSignalled(m) /\ \A e : m \in AboutModem(e) <=> e = d
    BY <2>1 DEF ModemSignals, AboutModem
  <2> HIDE DEF m
  <2>3. UNCHANGED <<ofonoCalls, unheardCalls>>
    BY <1>7 DEF ModemAdded, ModemRemoved
  <2> QED BY <1>1, <1>3, <2>1, <2>2, <2>3
<1>8. CASE set_power_mode
  <2>1. PICK mode \in {"low", "normal"} :
          OfonoSignalled([signal |-> "set_fast_dormancy", path |-> "none", state |-> mode])
    BY <1>8 DEF set_power_mode
  <2> DEFINE m == [signal |-> "set_fast_dormancy", path |-> "none", state |-> mode]
  <2>2. m \in DormancyTasks /\ OfonoSignalled(m) /\ \A e : m \notin AboutModem(e)
    BY <2>1 DEF ModemSignals, AboutModem, DormancyTasks
  <2> HIDE DEF m
  <2> QED BY <1>1, <1>3, <1>8, <2>2 DEF set_power_mode
<1> QED BY <1>4, <1>5, <1>6, <1>7, <1>8

-----------------------------------------------------------------------------
\* A call's signal is handled.
LEMMA CallHandledKeeps ==
  ASSUME VoiceInv, NEW m \in CallSignals, update_call_state(m.path, m.state)
  PROVE  /\ IsCallTable(calls') /\ callEvents' \in Seq(CallEvents)
         /\ \A d : StateIn(calls', d) = IF d = m.path THEN m.state ELSE StateIn(calls, d)
         /\ inCall' = inCall => EventsFollow'
<1> DEFINE c == m.path
           s == m.state
           old == StateIn(calls, c)
<1>1. c \in CallPaths /\ s \in OfonoStates \cup {"invalid"}
  BY DEF CallSignals
<1>2. calls' = Changed(calls, c, s)
  BY DEF update_call_state, Changed
<1>3. callEvents' = callEvents \o
          (IF ~is_call_state_active(old) /\ is_call_state_active(s) THEN <<"active_call">>
           ELSE IF is_call_state_active(old) /\ ~is_call_state_active(s) /\ ~is_any_call_active(calls')
           THEN <<"no_active_call">> ELSE <<>>)
  BY DEF update_call_state, StateIn
<1>4. IsCallTable(calls) /\ callEvents \in Seq(CallEvents)
  BY DEF VoiceInv, VoiceTyped
<1> HIDE DEF c, s
<1>5. IsCallTable(calls') /\ \A d : StateIn(calls', d) = IF d = c THEN s ELSE StateIn(calls, d)
  BY <1>1, <1>2, <1>4, TableChanged
<1>6. /\ is_any_call_active(calls) <=> \E d \in CallPaths : is_call_state_active(StateIn(calls, d))
      /\ is_any_call_active(calls') <=> \E d \in CallPaths : is_call_state_active(StateIn(calls', d))
  BY <1>4, <1>5, ActiveByState
<1> HIDE DEF old
<1>7. ASSUME NEW e \in CallEvents, callEvents' = callEvents \o <<e>>, e = CallEventOf(calls')
      PROVE  callEvents' \in Seq(CallEvents) /\ EventsFollow'
  <2>1. callEvents' = Append(callEvents, e)
    BY <1>4, <1>7, AppendJoins
  <2>2. callEvents' \in Seq(CallEvents) /\ ~NoneIn(callEvents', CallEvents)
        /\ \A x : LastIn(callEvents', CallEvents, x) => x = e
    BY <1>4, <2>1, LastAppended
  <2> QED BY <1>7, <2>2 DEF EventsFollow
<1>8. CASE ~is_call_state_active(old) /\ is_call_state_active(s)
  <2>1. is_any_call_active(calls')
    BY <1>1, <1>5, <1>6, <1>8
  <2>2. "active_call" \in CallEvents /\ "active_call" = CallEventOf(calls')
    BY <2>1 DEF CallEvents, CallEventOf
  <2>3. callEvents' = callEvents \o <<"active_call">>
    BY <1>3, <1>8
  <2> QED BY <1>5, <1>7, <2>2, <2>3 DEF c, s
<1>9. CASE is_call_state_active(old) /\ ~is_call_state_active(s) /\ ~is_any_call_active(calls')
  <2>1. "no_active_call" \in CallEvents /\ "no_active_call" = CallEventOf(calls')
    BY <1>9 DEF CallEvents, CallEventOf
  <2>2. callEvents' = callEvents \o <<"no_active_call">>
    BY <1>3, <1>9
  <2> QED BY <1>5, <1>7, <2>1, <2>2 DEF c, s
<1>10. CASE ~(\/ ~is_call_state_active(old) /\ is_call_state_active(s)
              \/ is_call_state_active(old) /\ ~is_call_state_active(s) /\ ~is_any_call_active(calls'))
  <2>1. callEvents' = callEvents \o <<>>
    BY <1>3, <1>10
  <2>2. callEvents' = callEvents
    BY <1>4, <2>1
  <2>3. is_any_call_active(calls') <=> is_any_call_active(calls)
    BY <1>1, <1>5, <1>6, <1>10 DEF old
  <2>4. CallEventOf(calls') = CallEventOf(calls)
    BY <2>3 DEF CallEventOf
  <2> QED BY <1>4, <1>5, <2>2, <2>3, <2>4 DEF VoiceInv, EventsFollow, c, s
<1> QED BY <1>8, <1>9, <1>10

\* A task of the loop: a signal on a call, on a modem, or fast dormancy.
LEMMA LoopKeeps ==
  ASSUME VoiceInv, OfonoLoopRuns
  PROVE  VoiceInv'
<1> DEFINE m == Head(ofonoLoop)
<1>1. /\ ofonoLoop \in Seq(OfonoTasks) /\ ofonoLoop # <<>> /\ ofonoLoop' = Tail(ofonoLoop)
      /\ callPhase = "started" /\ handle_dbus_signal(m)
      /\ UNCHANGED <<ofonoCalls, unheardCalls, ofonoModems, ofonoCrashed, callPhase, inCall>>
  BY DEF VoiceInv, VoiceTyped, OfonoLoopRuns, ofonoVars
<1>2. /\ ofonoLoop' \in Seq(OfonoTasks) /\ m \in OfonoTasks
      /\ \A K : /\ \A x : LastIn(ofonoLoop', K, x) => LastIn(ofonoLoop, K, x)
                /\ NoneIn(ofonoLoop', K) /\ m \in K => LastIn(ofonoLoop, K, m)
                /\ NoneIn(ofonoLoop', K) /\ m \notin K => NoneIn(ofonoLoop, K)
  BY <1>1, LastTaken
<1> HIDE DEF m
<1>3. /\ m.signal \in {"CallAdded", "PropertyChanged", "CallRemoved"} <=> m \in CallSignals
      /\ m.signal \in {"ModemAdded", "ModemRemoved"} <=> m \in ModemSignals
      /\ m \in CallSignals => m.path \in CallPaths /\ m.state \in OfonoStates \cup {"invalid"}
      /\ m \in ModemSignals => m.path \in Modems
      /\ \A c : m \in AboutCall(c) <=> m \in CallSignals /\ m.path = c
      /\ \A d : m \in AboutModem(d) <=> m \in ModemSignals /\ m.path = d
  BY <1>2, KindsOfTasks
<1>4. \/ m \in CallSignals /\ update_call_state(m.path, m.state) /\ UNCHANGED <<modems, fastDormancy>>
      \/ m \in ModemSignals /\ dbus_ModemAddedOrRemoved(m) /\ UNCHANGED <<calls, callEvents, fastDormancy>>
      \/ /\ m \notin CallSignals /\ m \notin ModemSignals /\ UNCHANGED <<calls, modems, callEvents>>
         /\ fastDormancy' = IF m.state = "low" THEN fastDormancy \cup modems ELSE fastDormancy \ modems
  BY <1>1, <1>3 DEF handle_dbus_signal
<1>5. CASE m \in CallSignals /\ update_call_state(m.path, m.state) /\ UNCHANGED <<modems, fastDormancy>>
  <2>1. /\ IsCallTable(calls') /\ callEvents' \in Seq(CallEvents) /\ EventsFollow'
        /\ \A d : StateIn(calls', d) = IF d = m.path THEN m.state ELSE StateIn(calls, d)
    BY <1>1, <1>5, CallHandledKeeps
  <2>2. VoiceTyped'
    BY <1>1, <1>2, <1>5, <2>1 DEF VoiceInv, VoiceTyped
  <2>3. ASSUME ~ofonoCrashed PROVE TableFollows'
    <3>1. TableFollows
      BY <2>3 DEF VoiceInv
    <3>2. ASSUME NEW c \in CallPaths, NoneIn(ofonoLoop', AboutCall(c))
          PROVE  StateIn(calls', c) = Heard(c)
      <4>1. CASE m.path = c
        BY <1>2, <1>3, <1>5, <2>1, <3>1, <3>2, <4>1 DEF TableFollows, Heard, HeardCalls
      <4>2. CASE m.path # c
        BY <1>2, <1>3, <2>1, <3>1, <3>2, <4>2 DEF TableFollows, Heard, HeardCalls
      <4> QED BY <4>1, <4>2
    <3> QED BY <1>1, <1>2, <3>1, <3>2 DEF TableFollows, Heard, HeardCalls
  <2>4. ASSUME ~ofonoCrashed PROVE ModemsFollow'
    <3>1. \A d : m \notin AboutModem(d)
      BY <1>3, <1>5
    <3> QED BY <1>1, <1>2, <1>5, <2>4, <3>1 DEF VoiceInv, ModemsFollow
  <2> QED BY <1>1, <2>1, <2>2, <2>3, <2>4 DEF VoiceInv
<1>6. CASE m \in ModemSignals /\ dbus_ModemAddedOrRemoved(m) /\ UNCHANGED <<calls, callEvents, fastDormancy>>
  <2>1. modems' = IF m.signal = "ModemAdded" THEN modems \cup {m.path} ELSE modems \ {m.path}
    BY <1>6 DEF dbus_ModemAddedOrRemoved
  <2>2. VoiceTyped' /\ EventsFollow'
    BY <1>1, <1>2, <1>3, <1>6, <2>1 DEF VoiceInv, VoiceTyped, EventsFollow
  <2>3. ASSUME ~ofonoCrashed PROVE TableFollows'
    <3>1. m \notin CallSignals
      BY <1>6 DEF CallSignals, ModemSignals
    <3>2. \A c : m \notin AboutCall(c)
      BY <1>3, <3>1
    <3> QED BY <1>1, <1>2, <1>6, <2>3, <3>2 DEF VoiceInv, TableFollows, Heard, HeardCalls
  <2>4. ASSUME ~ofonoCrashed PROVE ModemsFollow'
    <3>1. ModemsFollow
      BY <2>4 DEF VoiceInv
    <3>2. ASSUME NEW d \in Modems, NoneIn(ofonoLoop', AboutModem(d))
          PROVE  d \in modems' <=> d \in ofonoModems
      <4>1. CASE m.path = d
        BY <1>2, <1>3, <1>6, <2>1, <3>1, <3>2, <4>1 DEF ModemsFollow
      <4>2. CASE m.path # d
        BY <1>1, <1>2, <1>3, <2>1, <3>1, <3>2, <4>2 DEF ModemsFollow
      <4> QED BY <4>1, <4>2
    <3> QED BY <1>1, <1>2, <3>1, <3>2 DEF ModemsFollow
  <2> QED BY <1>1, <2>2, <2>3, <2>4 DEF VoiceInv
<1>7. CASE /\ m \notin CallSignals /\ m \notin ModemSignals /\ UNCHANGED <<calls, modems, callEvents>>
           /\ fastDormancy' = IF m.state = "low" THEN fastDormancy \cup modems ELSE fastDormancy \ modems
  <2>1. VoiceTyped' /\ EventsFollow'
    BY <1>1, <1>2, <1>7 DEF VoiceInv, VoiceTyped, EventsFollow
  <2>2. (\A c : m \notin AboutCall(c)) /\ \A d : m \notin AboutModem(d)
    BY <1>3, <1>7
  <2>3. ASSUME ~ofonoCrashed PROVE TableFollows' /\ ModemsFollow'
    BY <1>1, <1>2, <1>7, <2>2, <2>3 DEF VoiceInv, TableFollows, ModemsFollow, Heard, HeardCalls
  <2> QED BY <1>1, <2>1, <2>3 DEF VoiceInv
<1> QED BY <1>4, <1>5, <1>6, <1>7

\* The other steps.
LEMMA CallEventTakenKeeps ==
  ASSUME VoiceInv, DaemonTakesCallEvent
  PROVE  VoiceInv'
<1>1. /\ callEvents \in Seq(CallEvents) /\ callEvents # <<>> /\ callEvents' = Tail(callEvents)
      /\ inCall' = (Head(callEvents) = "active_call")
      /\ UNCHANGED <<ofonoCalls, unheardCalls, ofonoModems, ofonoCrashed, ofonoLoop, callPhase, calls, modems, fastDormancy>>
  BY DEF VoiceInv, VoiceTyped, DaemonTakesCallEvent, ofonoVars, callServiceVars
<1>2. /\ callEvents' \in Seq(CallEvents) /\ Head(callEvents) \in CallEvents
      /\ \A x : LastIn(callEvents', CallEvents, x) => LastIn(callEvents, CallEvents, x)
      /\ NoneIn(callEvents', CallEvents) => LastIn(callEvents, CallEvents, Head(callEvents))
  BY <1>1, LastTaken
<1>3. VoiceTyped'
  BY <1>1, <1>2 DEF VoiceInv, VoiceTyped
<1>4. EventsFollow'
  BY <1>1, <1>2 DEF VoiceInv, EventsFollow, CallEventOf
<1>5. ~ofonoCrashed => TableFollows' /\ ModemsFollow'
  BY <1>1 DEF VoiceInv, TableFollows, ModemsFollow, Heard, HeardCalls
<1> QED BY <1>1, <1>3, <1>4, <1>5 DEF VoiceInv

\* Each step, of oFono, of the service and of the daemon.
LEMMA NextVoiceInv ==
  VoiceInv /\ [VoiceNext]_voiceVars => VoiceInv'
<1> SUFFICES ASSUME VoiceInv, [VoiceNext]_voiceVars PROVE VoiceInv'
  OBVIOUS
<1>1. CASE OfonoCrashes
  <2>1. VoiceTyped' /\ EventsFollow' /\ ofonoCrashed'
    BY <1>1, NothingIsTable DEF OfonoCrashes, VoiceInv, VoiceTyped, EventsFollow, callServiceVars,
       callDaemonVars
  <2> QED BY <2>1 DEF VoiceInv
<1>2. CASE start_processing
  BY <1>2 DEF start_processing, VoiceInv, VoiceTyped, EventsFollow, TableFollows, Heard, HeardCalls, ModemsFollow,
     ofonoVars, callDaemonVars
<1>3. CASE add_existing_modems
  <2>1. VoiceTyped' /\ EventsFollow'
    BY <1>3 DEF add_existing_modems, VoiceInv, VoiceTyped, EventsFollow, ofonoVars, callDaemonVars
  <2>2. ~ofonoCrashed => TableFollows'
    BY <1>3 DEF add_existing_modems, VoiceInv, TableFollows, Heard, HeardCalls, ofonoVars
  <2>3. ~ofonoCrashed => ModemsFollow'
    BY <1>3 DEF add_existing_modems, VoiceInv, ModemsFollow, ofonoVars
  <2>4. UNCHANGED ofonoCrashed
    BY <1>3 DEF add_existing_modems, ofonoVars
  <2> QED BY <2>1, <2>2, <2>3, <2>4 DEF VoiceInv
<1>4. CASE UNCHANGED voiceVars
  BY <1>4 DEF voiceVars, VoiceInv, VoiceTyped, EventsFollow, TableFollows, Heard, HeardCalls, ModemsFollow,
     ofonoVars, callServiceVars, callDaemonVars
<1> QED
  BY <1>1, <1>2, <1>3, <1>4, OfonoKeeps, LoopKeeps, CallEventTakenKeeps DEF VoiceNext

\* When nothing is on its way, what the service and the daemon know is so.
LEMMA QuietKnows ==
  VoiceInv => CallsAreKnown /\ ModemsAreKnown
<1> SUFFICES ASSUME VoiceInv, OfonoQuiet PROVE inCall = is_any_call_active(HeardCalls) /\ modems = ofonoModems
  BY DEF CallsAreKnown, ModemsAreKnown
<1>1. /\ \A K : NoneIn(ofonoLoop, K) /\ NoneIn(callEvents, K)
      /\ TableFollows /\ ModemsFollow /\ EventsFollow /\ VoiceTyped /\ callPhase = "started"
  BY NoneHasNoLast DEF OfonoQuiet, VoiceInv
<1>2. \A c \in CallPaths : StateIn(calls, c) = StateIn(HeardCalls, c)
  BY <1>1 DEF TableFollows, Heard
<1>3. is_any_call_active(calls) <=> is_any_call_active(HeardCalls)
  BY <1>1, <1>2, ActiveByState, HeardIsOfonos DEF VoiceTyped
<1>4. inCall = is_any_call_active(HeardCalls)
  <2>1. inCall <=> is_any_call_active(HeardCalls)
    BY <1>1, <1>3 DEF EventsFollow
  <2> QED BY <1>1, <2>1 DEF VoiceTyped, is_any_call_active
<1>5. modems = ofonoModems
  BY <1>1 DEF VoiceTyped, ModemsFollow
<1> QED BY <1>4, <1>5

\* Once the signals are handled and the events taken, the daemon is in a call
\* if oFono is, with one that was heard of since the service listens, and the
\* service has the modems that oFono has, unless oFono vanished.
THEOREM CallsCorrect == VoiceSpec => [](CallsAreKnown /\ ModemsAreKnown)
BY InitVoiceInv, NextVoiceInv, QuietKnows, PTL DEF VoiceSpec

-----------------------------------------------------------------------------
(* The display device, the batteries and the supply.                       *)
(*                                                                         *)
(* Field by field, and battery by battery.  A change of the supply is told *)
(* when the field that says so changes between two signals; a machine that *)
(* is wrong waits for such a change (MachineWillBeTold).                   *)

Devices == [is_present : BOOLEAN, type : DeviceTypes \cup {"unknown"}, state : States \cup {"unknown"},
            percentage : Percentages]
DeviceChanges == [is_present : BOOLEAN] \cup [type : DeviceTypes] \cup [state : States]
                   \cup [percentage : Percentages]
DeviceSignals == [signal : {"device"}, changed : DeviceChanges]
BatterySignals == [signal : {"added", "removed"}, changed : Batteries]
LidSignals == [signal : {"lid"}, changed : BOOLEAN]
UPowerSignals == DeviceSignals \cup BatterySignals \cup LidSignals
SourceEvents == {"critical", "change", "lid_closed", "lid_open"}

\* Signals that set a field of the display device, and those on a battery.
Fields == {"is_present", "type", "state", "percentage"}
Sets(f) == {m \in DeviceSignals : f \in DOMAIN m.changed}
AboutBattery(b) == {m \in BatterySignals : m.changed = b}

SupplyTyped ==
  /\ onBattery \in BOOLEAN /\ upBatteries \subseteq Batteries /\ batteries \subseteq Batteries
  /\ upDevice \in Devices /\ upDevice.state \in StatesFor(onBattery) /\ display_device \in Devices
  /\ upPhase \in {"stopped", "subscribed", "started"}
  /\ upSignals \in Seq(UPowerSignals) /\ sourceEvents \in Seq(SourceEvents)
  /\ machinePhase \in {"none", "active", "paused"} /\ is_on_battery \in BOOLEAN

\* The last signal that sets a field, or that is about a battery, says what is
\* so; without one, the service knows it.  Of the fields as long as no other
\* device has signalled anything.
DeviceFollows ==
  \A f \in Fields :
    /\ \A m : LastIn(upSignals, Sets(f), m) => m.changed[f] = upDevice[f]
    /\ upPhase = "started" /\ NoneIn(upSignals, Sets(f)) => display_device[f] = upDevice[f]

BatteriesFollow ==
  /\ upPhase # "started" => batteries = {}
  /\ \A b \in Batteries :
       /\ \A m : LastIn(upSignals, AboutBattery(b), m) => (m.signal = "added" <=> b \in upBatteries)
       /\ upPhase = "started" /\ NoneIn(upSignals, AboutBattery(b)) =>
            (b \in batteries <=> b \in upBatteries)

UPowerFollows ==
  /\ upPhase = "stopped" => upSignals = <<>>
  /\ upPhase = "started" => display_device.state \in States
  /\ (~othersSignalled => DeviceFollows) /\ BatteriesFollow

UPowerInv == SupplyTyped /\ UPowerFollows

-----------------------------------------------------------------------------
\* One field of a device set.
LEMMA DeviceUpdated ==
  ASSUME NEW d \in Devices, NEW ch \in DeviceChanges
  PROVE  /\ Over(ch, d) \in Devices /\ DOMAIN ch \subseteq Fields
         /\ \A f \in Fields : Over(ch, d)[f] = IF f \in DOMAIN ch THEN ch[f] ELSE d[f]
         /\ Over(ch, d).is_present = IF "is_present" \in DOMAIN ch THEN ch.is_present ELSE d.is_present
         /\ Over(ch, d).type = IF "type" \in DOMAIN ch THEN ch.type ELSE d.type
         /\ Over(ch, d).state = IF "state" \in DOMAIN ch THEN ch.state ELSE d.state
         /\ Over(ch, d).percentage = IF "percentage" \in DOMAIN ch THEN ch.percentage ELSE d.percentage
<1>1. CASE ch \in [is_present : BOOLEAN]
  <2>1. Over(ch, d) = [is_present |-> ch.is_present, type |-> d.type, state |-> d.state,
                       percentage |-> d.percentage]
    BY <1>1 DEF Over, Devices
  <2> QED BY <1>1, <2>1 DEF Devices, Fields
<1>2. CASE ch \in [type : DeviceTypes]
  <2>1. Over(ch, d) = [is_present |-> d.is_present, type |-> ch.type, state |-> d.state,
                       percentage |-> d.percentage]
    BY <1>2 DEF Over, Devices
  <2> QED BY <1>2, <2>1 DEF Devices, Fields
<1>3. CASE ch \in [state : States]
  <2>1. Over(ch, d) = [is_present |-> d.is_present, type |-> d.type, state |-> ch.state,
                       percentage |-> d.percentage]
    BY <1>3 DEF Over, Devices
  <2> QED BY <1>3, <2>1 DEF Devices, Fields
<1>4. CASE ch \in [percentage : Percentages]
  <2>1. Over(ch, d) = [is_present |-> d.is_present, type |-> d.type, state |-> d.state,
                       percentage |-> ch.percentage]
    BY <1>4 DEF Over, Devices
  <2> QED BY <1>4, <2>1 DEF Devices, Fields
<1> QED BY <1>1, <1>2, <1>3, <1>4 DEF DeviceChanges

\* Signals of UPower, told apart by what they carry.
LEMMA KindsOfSignals ==
  ASSUME NEW m \in UPowerSignals
  PROVE  /\ m.signal = "device" <=> m \in DeviceSignals
         /\ m.signal \in {"added", "removed"} <=> m \in BatterySignals
         /\ m.signal = "lid" <=> m \in LidSignals
         /\ m \in DeviceSignals => m.changed \in DeviceChanges
         /\ m \in BatterySignals => m.changed \in Batteries
         /\ \A f : m \in Sets(f) <=> m \in DeviceSignals /\ f \in DOMAIN m.changed
         /\ \A b : m \in AboutBattery(b) <=> m \in BatterySignals /\ m.changed = b
BY DEF UPowerSignals, DeviceSignals, BatterySignals, LidSignals, Sets, AboutBattery

\* Nothing is known of UPower.
LEMMA InitUPowerInv == PowerSourceInit => UPowerInv
<1> SUFFICES ASSUME PowerSourceInit PROVE UPowerInv
  OBVIOUS
<1>1. NoDevice \in Devices
  BY PowerSourceAssumption DEF NoDevice, Devices
<1>2. SupplyTyped
  BY <1>1, EmptyQueue DEF PowerSourceInit, SupplyTyped, Devices, StatesFor, States
<1>3. UPowerFollows
  BY NoneHasNoLast DEF PowerSourceInit, UPowerFollows, DeviceFollows, BatteriesFollow
<1> QED BY <1>2, <1>3 DEF UPowerInv

-----------------------------------------------------------------------------
\* What UPower changes and signals.
LEMMA SignalledKeeps ==
  ASSUME UPowerInv, NEW m \in UPowerSignals, SentByUPower(m),
         onBattery' \in BOOLEAN, upBatteries' \subseteq Batteries, upDevice' \in Devices,
         upDevice'.state \in StatesFor(onBattery'),
         ~othersSignalled' =>
           /\ ~othersSignalled
           /\ \A f \in Fields : upDevice'[f] = IF m \in Sets(f) THEN m.changed[f] ELSE upDevice[f],
         \A b \in Batteries : IF m \in AboutBattery(b) THEN m.signal = "added" <=> b \in upBatteries'
                              ELSE b \in upBatteries' <=> b \in upBatteries
  PROVE  UPowerInv'
<1>1. /\ UNCHANGED <<upPhase, display_device, batteries, sourceEvents, machinePhase, is_on_battery>>
      /\ upSignals \in Seq(UPowerSignals)
      /\ upSignals' = IF upPhase = "stopped" THEN upSignals ELSE Append(upSignals, m)
  BY DEF SentByUPower, trackedVars, machineSupplyVars, UPowerInv, SupplyTyped
<1>2. upSignals' \in Seq(UPowerSignals)
  BY <1>1, LastAppended
<1>3. SupplyTyped'
  BY <1>1, <1>2 DEF UPowerInv, SupplyTyped
<1>4. CASE upPhase = "stopped"
  <2>1. upSignals = <<>> /\ upSignals' = <<>>
    BY <1>1, <1>4 DEF UPowerInv, UPowerFollows
  <2>2. \A K, x : ~LastIn(upSignals', K, x)
    BY <2>1, NoneHasNoLast
  <2> QED BY <1>1, <1>3, <1>4, <2>1, <2>2 DEF UPowerInv, UPowerFollows, DeviceFollows, BatteriesFollow
<1>5. CASE upPhase # "stopped"
  <2>1. \A K : /\ m \in K => /\ ~NoneIn(upSignals', K)
                             /\ \A x : LastIn(upSignals', K, x) => x = m
               /\ m \notin K => /\ NoneIn(upSignals', K) <=> NoneIn(upSignals, K)
                                /\ \A x : LastIn(upSignals', K, x) => LastIn(upSignals, K, x)
    BY <1>1, <1>5, LastAppended
  <2>2. ASSUME ~othersSignalled' PROVE DeviceFollows'
    <3>1. DeviceFollows
      BY <2>2 DEF UPowerInv, UPowerFollows
    <3>2. ASSUME NEW f \in Fields
          PROVE  /\ \A x : LastIn(upSignals', Sets(f), x) => x.changed[f] = upDevice'[f]
                 /\ upPhase = "started" /\ NoneIn(upSignals', Sets(f)) => display_device[f] = upDevice'[f]
      <4>1. CASE m \in Sets(f)
        BY <2>1, <2>2, <4>1
      <4>2. CASE m \notin Sets(f)
        BY <2>1, <2>2, <3>1, <4>2 DEF DeviceFollows
      <4> QED BY <4>1, <4>2
    <3> QED BY <1>1, <3>2 DEF DeviceFollows
  <2>3. BatteriesFollow'
    <3>1. BatteriesFollow
      BY DEF UPowerInv, UPowerFollows
    <3>2. ASSUME NEW b \in Batteries
          PROVE  /\ \A x : LastIn(upSignals', AboutBattery(b), x) =>
                             (x.signal = "added" <=> b \in upBatteries')
                 /\ upPhase = "started" /\ NoneIn(upSignals', AboutBattery(b)) =>
                      (b \in batteries <=> b \in upBatteries')
      <4>1. CASE m \in AboutBattery(b)
        BY <2>1, <4>1
      <4>2. CASE m \notin AboutBattery(b)
        BY <2>1, <3>1, <4>2 DEF BatteriesFollow
      <4> QED BY <4>1, <4>2
    <3> QED BY <1>1, <3>1, <3>2 DEF BatteriesFollow
  <2> QED BY <1>1, <1>3, <1>5, <2>2, <2>3 DEF UPowerInv, UPowerFollows
<1> QED BY <1>4, <1>5

\* A change of the display device, in one of its fields.
LEMMA DeviceChangeKeeps ==
  ASSUME UPowerInv, NEW ch \in DeviceChanges, DeviceChange(ch),
         onBattery' \in BOOLEAN, UNCHANGED <<upBatteries, othersSignalled>>,
         "state" \notin DOMAIN ch => onBattery' = onBattery,
         "state" \in DOMAIN ch => ch.state \in StatesFor(onBattery')
  PROVE  UPowerInv'
<1> DEFINE m == [signal |-> "device", changed |-> ch]
<1>1. m \in UPowerSignals /\ m \in DeviceSignals /\ m.changed = ch
  BY DEF UPowerSignals, DeviceSignals
<1>2. upDevice \in Devices /\ upDevice' = Over(ch, upDevice) /\ SentByUPower(m)
      /\ upDevice.state \in StatesFor(onBattery) /\ upBatteries \subseteq Batteries
  BY DEF DeviceChange, UPowerInv, SupplyTyped
<1> HIDE DEF m
<1>3. /\ upDevice' \in Devices
      /\ \A f \in Fields : upDevice'[f] = IF f \in DOMAIN ch THEN ch[f] ELSE upDevice[f]
      /\ upDevice'.state = IF "state" \in DOMAIN ch THEN ch.state ELSE upDevice.state
  BY <1>2, DeviceUpdated
<1>4. \A f : m \in Sets(f) <=> f \in DOMAIN ch
  BY <1>1, KindsOfSignals
<1>5. \A b : m \notin AboutBattery(b)
  BY <1>1 DEF AboutBattery, BatterySignals, DeviceSignals
<1>6. upDevice'.state \in StatesFor(onBattery')
  BY <1>2, <1>3
<1>7. \A f \in Fields : upDevice'[f] = IF m \in Sets(f) THEN m.changed[f] ELSE upDevice[f]
  BY <1>1, <1>3, <1>4
<1> QED BY <1>1, <1>2, <1>3, <1>5, <1>6, <1>7, SignalledKeeps

\* UPower changes, and says so.
LEMMA UPowerKeeps ==
  ASSUME UPowerInv, PercentageChanges \/ PlugOrUnplug \/ ChargeStateChanges \/ BatteryComesOrGoes
               \/ DeviceTypeChanges \/ LidMoves \/ DeviceAddedOrRemoved
  PROVE  UPowerInv'
<1>1. onBattery \in BOOLEAN /\ upDevice \in Devices /\ upBatteries \subseteq Batteries
      /\ upDevice.state \in StatesFor(onBattery)
  BY DEF UPowerInv, SupplyTyped
<1>2. CASE PercentageChanges
  <2>1. PICK p \in Percentages : DeviceChange([percentage |-> p])
    BY <1>2 DEF PercentageChanges
  <2>2. [percentage |-> p] \in DeviceChanges /\ DOMAIN [percentage |-> p] = {"percentage"}
    BY DEF DeviceChanges
  <2> QED BY <1>1, <1>2, <2>1, <2>2, DeviceChangeKeeps DEF PercentageChanges
<1>3. CASE PlugOrUnplug
  <2>1. PICK s \in StatesFor(onBattery') : DeviceChange([state |-> s])
    BY <1>3 DEF PlugOrUnplug
  <2>2. [state |-> s] \in DeviceChanges /\ DOMAIN [state |-> s] = {"state"} /\ [state |-> s].state = s
    BY DEF DeviceChanges, StatesFor, States
  <2>3. onBattery' \in BOOLEAN
    BY <1>3 DEF PlugOrUnplug
  <2> QED BY <1>1, <1>3, <2>1, <2>2, <2>3, DeviceChangeKeeps DEF PlugOrUnplug, dipVars
<1>4. CASE BatteryComesOrGoes
  <2>1. DeviceChange([is_present |-> ~upDevice.is_present])
    BY <1>4 DEF BatteryComesOrGoes
  <2>2. [is_present |-> ~upDevice.is_present] \in DeviceChanges
        /\ DOMAIN [is_present |-> ~upDevice.is_present] = {"is_present"}
    BY DEF DeviceChanges
  <2> QED BY <1>1, <1>4, <2>1, <2>2, DeviceChangeKeeps DEF BatteryComesOrGoes, dipVars
<1>5. CASE LidMoves
  <2> DEFINE m == [signal |-> "lid", changed |-> lidClosed']
  <2>1. m \in LidSignals /\ m \in UPowerSignals /\ SentByUPower(m)
    BY <1>5 DEF LidMoves, LidSignals, UPowerSignals
  <2> HIDE DEF m
  <2>2. (\A f : m \notin Sets(f)) /\ \A b : m \notin AboutBattery(b)
    BY <2>1 DEF LidSignals, Sets, AboutBattery, DeviceSignals, BatterySignals
  <2>3. UNCHANGED <<upDevice, onBattery, upBatteries, othersSignalled>>
    BY <1>5 DEF LidMoves, dipVars
  <2> QED BY <1>1, <2>1, <2>2, <2>3, SignalledKeeps
<1>6. CASE DeviceAddedOrRemoved
  <2>1. PICK b \in Batteries :
          /\ upBatteries' = IF b \in upBatteries THEN upBatteries \ {b} ELSE upBatteries \cup {b}
          /\ SentByUPower([signal |-> IF b \in upBatteries THEN "removed" ELSE "added", changed |-> b])
    BY <1>6 DEF DeviceAddedOrRemoved
  <2> DEFINE m == [signal |-> IF b \in upBatteries THEN "removed" ELSE "added", changed |-> b]
  <2>2. m \in BatterySignals /\ m \in UPowerSignals /\ SentByUPower(m) /\ m.changed = b
        /\ (m.signal = "added" <=> b \notin upBatteries)
    BY <2>1 DEF BatterySignals, UPowerSignals
  <2> HIDE DEF m
  <2>3. (\A f : m \notin Sets(f)) /\ \A c : m \in AboutBattery(c) <=> c = b
    BY <2>2 DEF Sets, AboutBattery, DeviceSignals, BatterySignals
  <2>4. UNCHANGED <<upDevice, onBattery, othersSignalled>>
    BY <1>6 DEF DeviceAddedOrRemoved, dipVars
  <2>5. upBatteries' \subseteq Batteries
    BY <1>1, <2>1
  <2>6. \A c \in Batteries : IF m \in AboutBattery(c) THEN m.signal = "added" <=> c \in upBatteries'
                             ELSE c \in upBatteries' <=> c \in upBatteries
    BY <2>1, <2>2, <2>3
  <2> QED BY <1>1, <2>2, <2>3, <2>4, <2>5, <2>6, SignalledKeeps
<1>7. CASE ChargeStateChanges
  <2>1. PICK s \in StatesFor(onBattery) : DeviceChange([state |-> s])
    BY <1>7 DEF ChargeStateChanges
  <2>2. [state |-> s] \in DeviceChanges /\ DOMAIN [state |-> s] = {"state"} /\ [state |-> s].state = s
    BY DEF DeviceChanges, StatesFor, States
  <2> QED BY <1>1, <1>7, <2>1, <2>2, DeviceChangeKeeps DEF ChargeStateChanges, dipVars
<1>8. CASE DeviceTypeChanges
  <2>1. PICK t \in DeviceTypes : DeviceChange([type |-> t])
    BY <1>8 DEF DeviceTypeChanges
  <2>2. [type |-> t] \in DeviceChanges /\ DOMAIN [type |-> t] = {"type"}
    BY DEF DeviceChanges
  <2> QED BY <1>1, <1>8, <2>1, <2>2, DeviceChangeKeeps DEF DeviceTypeChanges, dipVars
<1> QED BY <1>2, <1>3, <1>4, <1>5, <1>6, <1>7, <1>8

\* Another device changes, which says nothing of batteries.
LEMMA OthersKeep ==
  ASSUME UPowerInv, OtherDeviceChanges
  PROVE  UPowerInv'
<1>1. PICK ch \in DeviceChanges : SentByUPower([signal |-> "device", changed |-> ch])
  BY DEF OtherDeviceChanges, DeviceChanges
<1> DEFINE m == [signal |-> "device", changed |-> ch]
<1>2. m \in UPowerSignals /\ m \in DeviceSignals /\ SentByUPower(m)
  BY <1>1 DEF UPowerSignals, DeviceSignals
<1> HIDE DEF m
<1>3. \A b : m \notin AboutBattery(b)
  BY <1>2 DEF AboutBattery, BatterySignals, DeviceSignals
<1>4. othersSignalled' = TRUE /\ UNCHANGED <<upDevice, onBattery, upBatteries>>
  BY DEF OtherDeviceChanges, upowerVars
<1>5. onBattery \in BOOLEAN /\ upDevice \in Devices /\ upBatteries \subseteq Batteries
      /\ upDevice.state \in StatesFor(onBattery)
  BY DEF UPowerInv, SupplyTyped
<1> QED BY <1>2, <1>3, <1>4, <1>5, SignalledKeeps DEF StatesFor

\* Each of its changes is signalled.
LEMMA UPowerSends ==
  ASSUME PercentageChanges \/ ChargeStateChanges \/ BatteryComesOrGoes \/ DeviceTypeChanges \/ LidMoves
           \/ DeviceAddedOrRemoved
  PROVE  \E m \in UPowerSignals : SentByUPower(m)
<1>1. ASSUME NEW ch \in DeviceChanges, DeviceChange(ch) PROVE \E m \in UPowerSignals : SentByUPower(m)
  BY <1>1 DEF DeviceChange, UPowerSignals, DeviceSignals
<1>2. CASE PercentageChanges
  <2>1. PICK p \in Percentages : DeviceChange([percentage |-> p])
    BY <1>2 DEF PercentageChanges
  <2> QED BY <1>1, <2>1 DEF DeviceChanges
<1>3. CASE ChargeStateChanges
  <2>1. PICK s \in States : DeviceChange([state |-> s])
    BY <1>3 DEF ChargeStateChanges, StatesFor, States
  <2> QED BY <1>1, <2>1 DEF DeviceChanges
<1>4. CASE BatteryComesOrGoes
  <2>1. PICK b \in BOOLEAN : DeviceChange([is_present |-> b])
    BY <1>4 DEF BatteryComesOrGoes
  <2> QED BY <1>1, <2>1 DEF DeviceChanges
<1>5. CASE DeviceTypeChanges
  <2>1. PICK t \in DeviceTypes : DeviceChange([type |-> t])
    BY <1>5 DEF DeviceTypeChanges
  <2> QED BY <1>1, <2>1 DEF DeviceChanges
<1>6. CASE LidMoves
  <2>1. PICK closed \in BOOLEAN : SentByUPower([signal |-> "lid", changed |-> closed])
    BY <1>6 DEF LidMoves
  <2> QED BY <2>1 DEF UPowerSignals, LidSignals
<1>7. CASE DeviceAddedOrRemoved
  <2>1. PICK b \in Batteries, g \in {"added", "removed"} : SentByUPower([signal |-> g, changed |-> b])
    BY <1>7 DEF DeviceAddedOrRemoved
  <2> QED BY <2>1 DEF UPowerSignals, BatterySignals
<1> QED BY <1>2, <1>3, <1>4, <1>5, <1>6, <1>7

-----------------------------------------------------------------------------
\* What the service does of a signal, in one formula.
LEMMA SignalHandled ==
  ASSUME UPowerInv, HandleUPowerSignal, NEW m, m = Head(upSignals)
  PROVE  /\ upSignals \in Seq(UPowerSignals) /\ upSignals # <<>> /\ upSignals' = Tail(upSignals)
         /\ m \in UPowerSignals /\ upPhase = "started" /\ display_device \in Devices
         /\ UNCHANGED <<upDevice, onBattery, upBatteries, upPhase, machinePhase, is_on_battery>>
         /\ \/ /\ m \in DeviceSignals /\ change_device(m.changed) /\ UNCHANGED batteries
               /\ display_device' = Over(m.changed, display_device)
            \/ /\ m \in BatterySignals /\ add_or_remove_device(m)
               /\ UNCHANGED <<display_device, sourceEvents>>
            \/ m \in LidSignals /\ change_upower(m.changed) /\ UNCHANGED <<display_device, batteries>>
<1>1. /\ upSignals \in Seq(UPowerSignals) /\ upSignals # <<>> /\ upSignals' = Tail(upSignals)
      /\ upPhase = "started" /\ display_device \in Devices
      /\ UNCHANGED <<upDevice, onBattery, upBatteries, upPhase, machinePhase, is_on_battery>>
      /\ \/ m.signal = "device" /\ change_device(m.changed) /\ UNCHANGED batteries
         \/ /\ m.signal \in {"added", "removed"} /\ add_or_remove_device(m)
            /\ UNCHANGED <<display_device, sourceEvents>>
         \/ m.signal = "lid" /\ change_upower(m.changed) /\ UNCHANGED <<display_device, batteries>>
  BY DEF HandleUPowerSignal, UPowerInv, SupplyTyped, upowerVars, machineSupplyVars, trackedVars
<1>2. m \in UPowerSignals
  BY <1>1, LastTaken
<1>3. ASSUME change_device(m.changed) PROVE display_device' = Over(m.changed, display_device)
  BY <1>3 DEF change_device, update_device
<1> QED BY <1>1, <1>2, <1>3, KindsOfSignals

\* Each field of the display device is set by the signal, or stays.
LEMMA HandledFields ==
  ASSUME UPowerInv, HandleUPowerSignal, NEW m, m = Head(upSignals)
  PROVE  \A f \in Fields :
           display_device'[f] = IF m \in Sets(f) THEN m.changed[f] ELSE display_device[f]
<1>1. m \in UPowerSignals /\ display_device \in Devices
  BY SignalHandled
<1>2. CASE m \in DeviceSignals
  <2>1. m.changed \in DeviceChanges /\ \A f : m \in Sets(f) <=> f \in DOMAIN m.changed
    BY <1>1, <1>2, KindsOfSignals
  <2>2. display_device' = Over(m.changed, display_device)
    <3>1. m \notin BatterySignals /\ m \notin LidSignals
      BY <1>2 DEF DeviceSignals, BatterySignals, LidSignals
    <3> QED BY <3>1, SignalHandled
  <2> QED BY <1>1, <2>1, <2>2, DeviceUpdated
<1>3. CASE m \notin DeviceSignals
  <2>1. UNCHANGED display_device /\ \A f : m \notin Sets(f)
    BY <1>3, SignalHandled DEF Sets
  <2> QED BY <2>1
<1> QED BY <1>2, <1>3

\* Events are told, in any number.
LEMMA EventsTold ==
  ASSUME sourceEvents \in Seq(SourceEvents), NEW critical, NEW change, Tell(critical, change)
  PROVE  /\ sourceEvents' \in Seq(SourceEvents)
         /\ Range(sourceEvents) \subseteq Range(sourceEvents')
         /\ critical => "critical" \in Range(sourceEvents')
         /\ change => "change" \in Range(sourceEvents')
<1> DEFINE a == IF critical THEN <<"critical">> ELSE <<>>
           b == IF change THEN <<"change">> ELSE <<>>
<1>1. sourceEvents' = (sourceEvents \o a) \o b
  BY DEF Tell
<1>2. ASSUME NEW e \in SourceEvents PROVE <<e>> \in Seq(SourceEvents) /\ e \in Range(<<e>>)
  BY DEF Range
<1>3. a \in Seq(SourceEvents) /\ (critical => "critical" \in Range(a))
  <2>1. CASE critical
    <3>1. a = <<"critical">> /\ "critical" \in SourceEvents
      BY <2>1 DEF SourceEvents
    <3> HIDE DEF a
    <3> QED BY <1>2, <3>1
  <2>2. CASE ~critical
    BY <2>2
  <2> QED BY <2>1, <2>2
<1>4. b \in Seq(SourceEvents) /\ (change => "change" \in Range(b))
  <2>1. CASE change
    <3>1. b = <<"change">> /\ "change" \in SourceEvents
      BY <2>1 DEF SourceEvents
    <3> HIDE DEF b
    <3> QED BY <1>2, <3>1
  <2>2. CASE ~change
    BY <2>2
  <2> QED BY <2>1, <2>2
<1> HIDE DEF a, b
<1> DEFINE q == sourceEvents \o a
<1>5. q \in Seq(SourceEvents) /\ Range(q) = Range(sourceEvents) \cup Range(a)
  BY <1>3, Joined
<1> HIDE DEF q
<1>6. q \o b \in Seq(SourceEvents) /\ Range(q \o b) = Range(q) \cup Range(b)
  BY <1>4, <1>5, Joined
<1>7. sourceEvents' = q \o b
  BY <1>1 DEF q
<1> QED BY <1>3, <1>4, <1>5, <1>6, <1>7

\* A signal of UPower is handled.
LEMMA HandledKeeps ==
  ASSUME UPowerInv, HandleUPowerSignal
  PROVE  UPowerInv'
<1> DEFINE m == Head(upSignals)
<1>1. /\ upSignals \in Seq(UPowerSignals) /\ upSignals # <<>> /\ upSignals' = Tail(upSignals)
      /\ m \in UPowerSignals /\ upPhase = "started" /\ display_device \in Devices
      /\ UNCHANGED <<upDevice, onBattery, upBatteries, upPhase, machinePhase, is_on_battery>>
      /\ \/ /\ m \in DeviceSignals /\ change_device(m.changed) /\ UNCHANGED batteries
            /\ display_device' = Over(m.changed, display_device)
         \/ /\ m \in BatterySignals /\ add_or_remove_device(m)
            /\ UNCHANGED <<display_device, sourceEvents>>
         \/ m \in LidSignals /\ change_upower(m.changed) /\ UNCHANGED <<display_device, batteries>>
  BY SignalHandled
<1>2. /\ upSignals' \in Seq(UPowerSignals)
      /\ \A K : /\ \A x : LastIn(upSignals', K, x) => LastIn(upSignals, K, x)
                /\ NoneIn(upSignals', K) /\ m \in K => LastIn(upSignals, K, m)
                /\ NoneIn(upSignals', K) /\ m \notin K => NoneIn(upSignals, K)
  BY <1>1, LastTaken
<1> HIDE DEF m
<1>3. /\ m.signal \in {"added", "removed"} <=> m \in BatterySignals
      /\ m \in DeviceSignals => m.changed \in DeviceChanges
      /\ m \in BatterySignals => m.changed \in Batteries
      /\ \A f : m \in Sets(f) <=> m \in DeviceSignals /\ f \in DOMAIN m.changed
      /\ \A b : m \in AboutBattery(b) <=> m \in BatterySignals /\ m.changed = b
  BY <1>1, KindsOfSignals
<1>4. DeviceSignals \cap BatterySignals = {} /\ DeviceSignals \cap LidSignals = {}
      /\ BatterySignals \cap LidSignals = {}
  BY DEF DeviceSignals, BatterySignals, LidSignals
<1>5. /\ ~othersSignalled => DeviceFollows
      /\ BatteriesFollow /\ SupplyTyped /\ display_device.state \in States
      /\ othersSignalled' = othersSignalled
  BY <1>1 DEF UPowerInv, UPowerFollows, HandleUPowerSignal, dipVars
<1>6. /\ display_device' \in Devices /\ display_device'.state \in States
      /\ \A f \in Fields : display_device'[f] = IF m \in Sets(f) THEN m.changed[f] ELSE display_device[f]
  <2>1. CASE m \in DeviceSignals
    <3>1. display_device' = Over(m.changed, display_device) /\ m.changed \in DeviceChanges
      BY <1>1, <1>3, <1>4, <2>1
    <3>2. "state" \in DOMAIN m.changed => m.changed.state \in States
      BY <3>1 DEF DeviceChanges
    <3> QED BY <1>1, <1>3, <1>5, <2>1, <3>1, <3>2, DeviceUpdated
  <2>2. CASE m \notin DeviceSignals
    BY <1>1, <1>3, <1>5, <2>2
  <2> QED BY <2>1, <2>2
<1>7. sourceEvents' \in Seq(SourceEvents)
  <2>1. sourceEvents \in Seq(SourceEvents)
    BY <1>5 DEF SupplyTyped
  <2>2. CASE change_device(m.changed)
    <3>1. PICK critical, change : Tell(critical, change)
      BY <2>2 DEF change_device
    <3> QED BY <2>1, <3>1, EventsTold
  <2>3. CASE change_upower(m.changed)
    <3>1. \E e \in SourceEvents : sourceEvents' = Append(sourceEvents, e)
      BY <2>3 DEF change_upower, SourceEvents
    <3> QED BY <2>1, <3>1, LastAppended
  <2> QED BY <1>1, <2>1, <2>2, <2>3
<1>8. ASSUME ~othersSignalled PROVE DeviceFollows'
  <2>1. ASSUME NEW f \in Fields, NoneIn(upSignals', Sets(f)) PROVE display_device'[f] = upDevice[f]
    <3>1. CASE m \in Sets(f)
      BY <1>2, <1>5, <1>6, <1>8, <2>1, <3>1 DEF DeviceFollows
    <3>2. CASE m \notin Sets(f)
      BY <1>1, <1>2, <1>5, <1>6, <1>8, <2>1, <3>2 DEF DeviceFollows
    <3> QED BY <3>1, <3>2
  <2> QED BY <1>1, <1>2, <1>5, <1>8, <2>1 DEF DeviceFollows
<1>9. BatteriesFollow' /\ batteries' \subseteq Batteries
  <2>1. CASE m \in BatterySignals
    <3>1. batteries' = IF m.signal = "removed" THEN batteries \ {m.changed}
                       ELSE batteries \cup ({m.changed} \cap upBatteries)
      BY <1>1, <1>4, <2>1 DEF add_or_remove_device
    <3>2. ASSUME NEW b \in Batteries, NoneIn(upSignals', AboutBattery(b))
          PROVE  b \in batteries' <=> b \in upBatteries
      <4>1. CASE m.changed = b
        <5>1. m.signal = "added" <=> b \in upBatteries
          BY <1>2, <1>3, <1>5, <2>1, <3>2, <4>1 DEF BatteriesFollow
        <5>2. m.signal \in {"added", "removed"}
          BY <1>3, <2>1
        <5> QED BY <3>1, <4>1, <5>1, <5>2
      <4>2. CASE m.changed # b
        BY <1>1, <1>2, <1>3, <1>5, <3>1, <3>2, <4>2 DEF BatteriesFollow
      <4> QED BY <4>1, <4>2
    <3>3. batteries' \subseteq Batteries
      BY <1>3, <1>5, <2>1, <3>1 DEF SupplyTyped
    <3> QED BY <1>1, <1>2, <1>5, <3>2, <3>3 DEF BatteriesFollow
  <2>2. CASE m \notin BatterySignals
    <3>1. batteries' = batteries /\ \A b : m \notin AboutBattery(b)
      BY <1>1, <1>3, <2>2
    <3> QED BY <1>1, <1>2, <1>5, <3>1 DEF BatteriesFollow, SupplyTyped
  <2> QED BY <2>1, <2>2
<1> QED BY <1>1, <1>2, <1>5, <1>6, <1>7, <1>8, <1>9 DEF UPowerInv, UPowerFollows, SupplyTyped

\* Each step, of UPower, of the service and of the machine.
LEMMA NextUPowerInv ==
  ASSUME UPowerAnswers, UPowerInv, [PowerSourceNext]_sourceVars
  PROVE  UPowerInv'
<1>1. CASE SubscribeToUPower
  BY <1>1 DEF SubscribeToUPower, UPowerInv, SupplyTyped, UPowerFollows, DeviceFollows, BatteriesFollow,
     upowerVars, trackedVars, machineSupplyVars, dipVars
<1>2. CASE add_display_device_and_batteries
  <2>1. /\ upPhase = "subscribed" /\ upPhase' = "started"
        /\ display_device' = upDevice /\ batteries' = batteries \cup upBatteries
        /\ UNCHANGED <<upDevice, onBattery, upBatteries, upSignals, sourceEvents, machinePhase, is_on_battery,
                       othersSignalled>>
    BY <1>2 DEF add_display_device_and_batteries, create_device, upowerVars, machineSupplyVars
  <2>2. SupplyTyped' /\ upDevice.state \in States
    BY <2>1 DEF UPowerInv, SupplyTyped, StatesFor, States
  <2> QED BY <2>1, <2>2 DEF UPowerInv, UPowerFollows, DeviceFollows, BatteriesFollow
<1>3. CASE MachineStarts \/ MachinePausesOrResumes
  <2>1. is_on_battery' \in BOOLEAN /\ machinePhase' \in {"none", "active", "paused"}
    BY <1>3 DEF MachineStarts, MachinePausesOrResumes, is_using_battery_power, UPowerInv, SupplyTyped
  <2> QED BY <1>3, <2>1 DEF MachineStarts, MachinePausesOrResumes, UPowerInv, SupplyTyped, UPowerFollows,
     DeviceFollows, BatteriesFollow, upowerVars, trackedVars, dipVars
<1>4. CASE DaemonTakesSourceEvent
  <2>1. sourceEvents \in Seq(SourceEvents) /\ sourceEvents # <<>> /\ sourceEvents' = Tail(sourceEvents)
    BY <1>4 DEF DaemonTakesSourceEvent, UPowerInv, SupplyTyped
  <2>2. sourceEvents' \in Seq(SourceEvents)
    BY <2>1, LastTaken
  <2>3. is_on_battery' \in BOOLEAN /\ machinePhase' \in {"none", "active", "paused"}
    BY <1>4 DEF DaemonTakesSourceEvent, is_using_battery_power, UPowerInv, SupplyTyped, machineSupplyVars
  <2> QED BY <1>4, <2>2, <2>3 DEF DaemonTakesSourceEvent, UPowerInv, SupplyTyped, UPowerFollows,
     DeviceFollows, BatteriesFollow, upowerVars, trackedVars, dipVars
<1>5. CASE UNCHANGED sourceVars
  BY <1>5 DEF sourceVars, UPowerInv, SupplyTyped, UPowerFollows, DeviceFollows, BatteriesFollow,
     upowerVars, trackedVars, machineSupplyVars, dipVars
<1> QED
  BY <1>1, <1>2, <1>3, <1>4, <1>5, UPowerKeeps, OthersKeep, HandledKeeps DEF PowerSourceNext

\* Without a signal on its way, the batteries are known.
LEMMA UPowerKnows == UPowerInv => BatteriesAreKnown
<1> SUFFICES ASSUME UPowerInv, UPowerQuiet PROVE batteries = upBatteries
  BY DEF BatteriesAreKnown
<1>1. \A b \in Batteries : b \in batteries <=> b \in upBatteries
  BY NoneHasNoLast DEF UPowerInv, UPowerFollows, BatteriesFollow, UPowerQuiet
<1> QED BY <1>1 DEF UPowerInv, SupplyTyped

\* If UPower answers: batteries that come and go while the service starts are
\* known in the end.
THEOREM BatteriesCorrect ==
  ASSUME UPowerAnswers
  PROVE  PowerSourceSpec => []BatteriesAreKnown
<1>1. UPowerInv /\ [PowerSourceNext]_sourceVars => UPowerInv'
  BY NextUPowerInv
<1> QED BY <1>1, UPowerKnows, InitUPowerInv, PTL DEF PowerSourceSpec

-----------------------------------------------------------------------------
(* The empty battery.                                                      *)
(*                                                                         *)
(* An empty battery is told if a percentage that is not critical was seen  *)
(* before it.  What the service will make of the signals that wait depends *)
(* on what it has seen when it reaches them: so the invariant runs ahead of*)
(* the service, place by place of the queue (ValueAt, Armed), and counts   *)
(* the dips that it will find there (Dips).                                *)

\* What comes before a place of a queue.
NoneBetween(q, K, j, k) == \A i \in DOMAIN q : j < i /\ i < k => q[i] \notin K

\* What is between two places when something is appended.
LEMMA BetweenAppended ==
  ASSUME NEW S, NEW s \in Seq(S), NEW e \in S, NEW K, NEW j \in Nat, NEW k \in Nat
  PROVE  /\ k <= Len(s) + 1 => (NoneBetween(Append(s, e), K, j, k) <=> NoneBetween(s, K, j, k))
         /\ NoneBetween(Append(s, e), K, j, Len(s) + 2) <=>
              NoneBetween(s, K, j, Len(s) + 1) /\ (j < Len(s) + 1 => e \notin K)
<1> DEFINE t == Append(s, e)
<1>1. /\ t \in Seq(S) /\ Len(s) + 1 \in Nat /\ DOMAIN t = DOMAIN s \cup {Len(s) + 1}
      /\ t[Len(s) + 1] = e
      /\ \A i \in DOMAIN s : i \in Nat /\ 0 < i /\ i < Len(s) + 1 /\ t[i] = s[i]
  BY AppendedByPlace
<1> HIDE DEF t
<1>2. Len(s) + 1 < Len(s) + 2 /\ \A i \in Nat : i < Len(s) + 1 => i < Len(s) + 2
  BY <1>1
<1>3. k <= Len(s) + 1 => (NoneBetween(t, K, j, k) <=> NoneBetween(s, K, j, k))
  BY <1>1 DEF NoneBetween
<1>4. NoneBetween(t, K, j, Len(s) + 2) <=>
        NoneBetween(s, K, j, Len(s) + 1) /\ (j < Len(s) + 1 => e \notin K)
  BY <1>1, <1>2 DEF NoneBetween
<1> QED BY <1>3, <1>4 DEF t

\* The same when the first is taken.
LEMMA BetweenTaken ==
  ASSUME NEW S, NEW s \in Seq(S), s # <<>>, NEW K, NEW k \in Nat \ {0}
  PROVE  /\ \A j \in Nat : NoneBetween(Tail(s), K, j, k) <=> NoneBetween(s, K, j + 1, k + 1)
         /\ NoneBetween(s, K, 0, k + 1) <=> Head(s) \notin K /\ NoneBetween(Tail(s), K, 0, k)
         /\ NoneBetween(s, K, 0, 1)
<1> DEFINE t == Tail(s)
<1>1. /\ t \in Seq(S) /\ 1 \in DOMAIN s /\ Head(s) = s[1] /\ s[1] \in S
      /\ \A i \in DOMAIN t : i \in Nat /\ 0 < i /\ i + 1 \in DOMAIN s /\ t[i] = s[i + 1]
      /\ \A i \in DOMAIN s : i \in Nat /\ 0 < i /\ (i # 1 => i - 1 \in DOMAIN t /\ t[i - 1] = s[i])
  BY TakenByPlace
<1> HIDE DEF t
<1>2. ASSUME NEW j \in Nat PROVE NoneBetween(t, K, j, k) <=> NoneBetween(s, K, j + 1, k + 1)
  <2>1. ASSUME NoneBetween(t, K, j, k), NEW i \in DOMAIN s, j + 1 < i, i < k + 1 PROVE s[i] \notin K
    <3>1. i - 1 \in DOMAIN t /\ t[i - 1] = s[i] /\ j < i - 1 /\ i - 1 < k
      BY <1>1, <2>1
    <3> QED BY <2>1, <3>1 DEF NoneBetween
  <2>2. ASSUME NoneBetween(s, K, j + 1, k + 1), NEW i \in DOMAIN t, j < i, i < k PROVE t[i] \notin K
    <3>1. i + 1 \in DOMAIN s /\ t[i] = s[i + 1] /\ j + 1 < i + 1 /\ i + 1 < k + 1
      BY <1>1, <2>2
    <3> QED BY <2>2, <3>1 DEF NoneBetween
  <2> QED BY <2>1, <2>2 DEF NoneBetween
<1>3. NoneBetween(s, K, 0, k + 1) <=> s[1] \notin K /\ NoneBetween(s, K, 1, k + 1)
  BY <1>1 DEF NoneBetween
<1>4. NoneBetween(t, K, 0, k) <=> NoneBetween(s, K, 0 + 1, k + 1)
  BY <1>2
<1>5. NoneBetween(s, K, 0, 1)
  BY <1>1 DEF NoneBetween
<1> QED BY <1>1, <1>2, <1>3, <1>4, <1>5 DEF t

-----------------------------------------------------------------------------
\* What a field will be when place k of queue q is reached, if it is d's now.
ValueAt(q, d, f, k, v) ==
  \/ \E j \in DOMAIN q : /\ j < k /\ q[j] \in Sets(f) /\ q[j].changed[f] = v
                         /\ NoneBetween(q, Sets(f), j, k)
  \/ NoneBetween(q, Sets(f), 0, k) /\ d[f] = v

\* Signals of a percentage that empties, or fills.
EmptySignals == {m \in Sets("percentage") : m.changed["percentage"] = 0}
FullSignals == {m \in Sets("percentage") : m.changed["percentage"] >= NonCriticalPercentage}

\* A percentage that is not critical will have been seen at place k, since the
\* last that was empty.
Armed(q, d, h, k) ==
  \/ \E j \in DOMAIN q : /\ j < k /\ q[j] \in FullSignals /\ ValueAt(q, d, "is_present", j, TRUE)
                         /\ NoneBetween(q, EmptySignals, j, k)
  \/ NoneBetween(q, EmptySignals, 0, k) /\ h >= NonCriticalPercentage

Dips(q, d, h) == {k \in DOMAIN q : q[k] \in EmptySignals /\ Armed(q, d, h, k)}

\* A percentage that is not critical is not zero.
LEMMA FullIsNotEmpty == FullSignals \cap EmptySignals = {}
BY PowerSourceAssumption DEF FullSignals, EmptySignals

\* A signal that comes later changes no value that is met before.
LEMMA ValueAppended ==
  ASSUME NEW q \in Seq(UPowerSignals), NEW m \in UPowerSignals, NEW d, NEW f, NEW v,
         NEW k \in Nat, k <= Len(q) + 1
  PROVE  ValueAt(Append(q, m), d, f, k, v) <=> ValueAt(q, d, f, k, v)
<1> DEFINE t == Append(q, m)
<1>1. /\ Len(q) + 1 \in Nat /\ DOMAIN t = DOMAIN q \cup {Len(q) + 1}
      /\ \A i \in DOMAIN q : i \in Nat /\ i < Len(q) + 1 /\ t[i] = q[i]
  BY AppendedByPlace
<1>2. \A j \in Nat : NoneBetween(t, Sets(f), j, k) <=> NoneBetween(q, Sets(f), j, k)
  BY BetweenAppended
<1> HIDE DEF t
<1>3. \A j \in DOMAIN t : j < k => j \in DOMAIN q
  BY <1>1
<1>4. 0 \in Nat
  OBVIOUS
<1>5. ASSUME NEW j \in DOMAIN q
      PROVE  j \in DOMAIN t /\ t[j] = q[j] /\ (NoneBetween(t, Sets(f), j, k) <=> NoneBetween(q, Sets(f), j, k))
  BY <1>1, <1>2
<1> QED BY <1>2, <1>3, <1>4, <1>5 DEF ValueAt, t

\* The first signal taken, and its field set: each place meets what it met.
LEMMA ValueTaken ==
  ASSUME NEW q \in Seq(UPowerSignals), q # <<>>, NEW d, NEW e, NEW f, NEW v, NEW k \in Nat \ {0},
         e[f] = IF Head(q) \in Sets(f) THEN Head(q).changed[f] ELSE d[f]
  PROVE  ValueAt(Tail(q), e, f, k, v) <=> ValueAt(q, d, f, k + 1, v)
<1> DEFINE t == Tail(q)
           K == Sets(f)
<1>1. /\ 1 \in DOMAIN q /\ Head(q) = q[1]
      /\ \A i \in DOMAIN t : i \in Nat /\ 0 < i /\ i + 1 \in DOMAIN q /\ t[i] = q[i + 1]
      /\ \A i \in DOMAIN q : i \in Nat /\ 0 < i /\ (i # 1 => i - 1 \in DOMAIN t /\ t[i - 1] = q[i])
  BY TakenByPlace
<1>2. /\ \A j \in Nat : NoneBetween(t, K, j, k) <=> NoneBetween(q, K, j + 1, k + 1)
      /\ NoneBetween(q, K, 0, k + 1) <=> Head(q) \notin K /\ NoneBetween(t, K, 0, k)
      /\ NoneBetween(t, K, 0, k) <=> NoneBetween(q, K, 1, k + 1)
  <2>1. /\ \A j \in Nat : NoneBetween(t, K, j, k) <=> NoneBetween(q, K, j + 1, k + 1)
        /\ NoneBetween(q, K, 0, k + 1) <=> Head(q) \notin K /\ NoneBetween(t, K, 0, k)
    BY BetweenTaken
  <2>2. NoneBetween(t, K, 0, k) <=> NoneBetween(q, K, 0 + 1, k + 1)
    BY <2>1
  <2> QED BY <2>1, <2>2
<1> HIDE DEF t, K
<1>3. ASSUME ValueAt(t, e, f, k, v) PROVE ValueAt(q, d, f, k + 1, v)
  <2>1. CASE \E j \in DOMAIN t : j < k /\ t[j] \in K /\ t[j].changed[f] = v /\ NoneBetween(t, K, j, k)
    <3>1. PICK j \in DOMAIN t : j < k /\ t[j] \in K /\ t[j].changed[f] = v /\ NoneBetween(t, K, j, k)
      BY <2>1
    <3>2. j \in Nat /\ j + 1 \in DOMAIN q /\ j + 1 < k + 1 /\ t[j] = q[j + 1]
      BY <1>1, <3>1
    <3>3. NoneBetween(q, K, j + 1, k + 1)
      BY <1>2, <3>1, <3>2
    <3> QED BY <3>1, <3>2, <3>3 DEF ValueAt, K
  <2>2. CASE NoneBetween(t, K, 0, k) /\ e[f] = v
    <3>1. CASE Head(q) \in K
      <4>1. q[1] \in K /\ e[f] = q[1].changed[f] /\ e[f] = v
        BY <1>1, <2>2, <3>1 DEF K
      <4>2. 1 \in DOMAIN q /\ 1 < k + 1 /\ NoneBetween(q, K, 1, k + 1)
        BY <1>1, <1>2, <2>2
      <4> QED BY <4>1, <4>2 DEF ValueAt, K
    <3>2. CASE Head(q) \notin K
      BY <1>2, <2>2, <3>2 DEF ValueAt, K
    <3> QED BY <3>1, <3>2
  <2> QED BY <1>3, <2>1, <2>2 DEF ValueAt, K
<1>4. ASSUME ValueAt(q, d, f, k + 1, v) PROVE ValueAt(t, e, f, k, v)
  <2>1. CASE \E j \in DOMAIN q : j < k + 1 /\ q[j] \in K /\ q[j].changed[f] = v /\ NoneBetween(q, K, j, k + 1)
    <3>1. PICK j \in DOMAIN q : j < k + 1 /\ q[j] \in K /\ q[j].changed[f] = v /\ NoneBetween(q, K, j, k + 1)
      BY <2>1
    <3>2. CASE j = 1
      BY <1>1, <1>2, <3>1, <3>2 DEF ValueAt, K
    <3>3. CASE j # 1
      <4>1. j - 1 \in Nat /\ j - 1 \in DOMAIN t /\ j - 1 < k /\ t[j - 1] = q[j] /\ (j - 1) + 1 = j
        BY <1>1, <3>1, <3>3
      <4>2. NoneBetween(t, K, j - 1, k)
        BY <1>2, <3>1, <4>1
      <4> QED BY <3>1, <4>1, <4>2 DEF ValueAt, K
    <3> QED BY <3>2, <3>3
  <2>2. CASE NoneBetween(q, K, 0, k + 1) /\ d[f] = v
    BY <1>2, <2>2 DEF ValueAt, K
  <2> QED BY <1>4, <2>1, <2>2 DEF ValueAt, K
<1> QED BY <1>3, <1>4 DEF t

\* The first signal meets what is now.
LEMMA ValueNow ==
  ASSUME NEW q \in Seq(UPowerSignals), NEW d, NEW f, NEW v
  PROVE  ValueAt(q, d, f, 1, v) <=> d[f] = v
<1>1. \A i \in DOMAIN q : i \in Nat /\ ~(i < 1)
  OBVIOUS
<1> QED BY <1>1 DEF ValueAt, NoneBetween

-----------------------------------------------------------------------------
\* A signal that comes later, and what will have been seen when it is reached.
LEMMA ArmedAppended ==
  ASSUME NEW q \in Seq(UPowerSignals), NEW m \in UPowerSignals, NEW d, NEW h
  PROVE  /\ \A k \in Nat : k <= Len(q) + 1 => (Armed(Append(q, m), d, h, k) <=> Armed(q, d, h, k))
         /\ m \in EmptySignals => ~Armed(Append(q, m), d, h, Len(q) + 2)
         /\ m \notin EmptySignals =>
              (Armed(Append(q, m), d, h, Len(q) + 2) <=>
                 \/ Armed(q, d, h, Len(q) + 1)
                 \/ m \in FullSignals /\ ValueAt(q, d, "is_present", Len(q) + 1, TRUE))
<1> DEFINE t == Append(q, m)
           n == Len(q) + 1
           P(j) == ValueAt(q, d, "is_present", j, TRUE)
<1>1. /\ n \in Nat /\ DOMAIN t = DOMAIN q \cup {n} /\ n \notin DOMAIN q /\ t[n] = m
      /\ \A i \in DOMAIN q : i \in Nat /\ 0 < i /\ i < n /\ t[i] = q[i]
  BY AppendedByPlace
<1>2. /\ \A j, k \in Nat : k <= n => (NoneBetween(t, EmptySignals, j, k) <=> NoneBetween(q, EmptySignals, j, k))
      /\ \A j \in Nat : NoneBetween(t, EmptySignals, j, Len(q) + 2) <=>
           NoneBetween(q, EmptySignals, j, n) /\ (j < n => m \notin EmptySignals)
  BY BetweenAppended
<1>3. \A k \in Nat : k <= n => (ValueAt(t, d, "is_present", k, TRUE) <=> P(k))
  BY ValueAppended
<1>4. Len(q) + 2 = n + 1
  BY <1>1
<1> HIDE DEF t, n, P
<1>5. ASSUME NEW k \in Nat, k <= n PROVE Armed(t, d, h, k) <=> Armed(q, d, h, k)
  <2>1. \A j \in DOMAIN t : j < k => j \in DOMAIN q
    BY <1>1, <1>5
  <2>2. \A j \in DOMAIN q : j \in DOMAIN t /\ t[j] = q[j] /\ j \in Nat /\ j <= n
    BY <1>1
  <2>3. \A j \in DOMAIN q : /\ NoneBetween(t, EmptySignals, j, k) <=> NoneBetween(q, EmptySignals, j, k)
                            /\ ValueAt(t, d, "is_present", j, TRUE) <=> P(j)
    BY <1>2, <1>3, <1>5, <2>2
  <2>4. NoneBetween(t, EmptySignals, 0, k) <=> NoneBetween(q, EmptySignals, 0, k)
    BY <1>2, <1>5
  <2> QED BY <2>1, <2>2, <2>3, <2>4 DEF Armed, P
<1>6. ASSUME m \in EmptySignals PROVE ~Armed(t, d, h, n + 1)
  <2>1. \A j \in DOMAIN t : t[j] \in FullSignals => j \in Nat /\ j < n
    BY <1>1, <1>6, FullIsNotEmpty
  <2>2. \A j \in Nat : j < n => ~NoneBetween(t, EmptySignals, j, n + 1)
    BY <1>2, <1>4, <1>6
  <2>3. 0 \in Nat /\ 0 < n
    BY <1>1 DEF n
  <2> QED BY <2>1, <2>2, <2>3 DEF Armed
<1>7. ASSUME m \notin EmptySignals
      PROVE  Armed(t, d, h, n + 1) <=> Armed(q, d, h, n) \/ (m \in FullSignals /\ P(n))
  <2>1. \A j \in Nat : NoneBetween(t, EmptySignals, j, n + 1) <=> NoneBetween(q, EmptySignals, j, n)
    BY <1>2, <1>4, <1>7
  <2>2. NoneBetween(q, EmptySignals, n, n)
    BY <1>1 DEF NoneBetween
  <2>3. 0 \in Nat /\ (\A j \in DOMAIN q : j \in Nat /\ j <= n /\ j < n /\ j < n + 1 /\ j \in DOMAIN t /\ t[j] = q[j])
        /\ n \in DOMAIN t /\ n < n + 1 /\ n <= n
    BY <1>1
  <2>4. ASSUME Armed(q, d, h, n) PROVE Armed(t, d, h, n + 1)
    <3>1. CASE NoneBetween(q, EmptySignals, 0, n) /\ h >= NonCriticalPercentage
      BY <2>1, <2>3, <3>1 DEF Armed
    <3>2. CASE \E j \in DOMAIN q : j < n /\ q[j] \in FullSignals /\ P(j) /\ NoneBetween(q, EmptySignals, j, n)
      <4>1. PICK j \in DOMAIN q : j < n /\ q[j] \in FullSignals /\ P(j) /\ NoneBetween(q, EmptySignals, j, n)
        BY <3>2
      <4>2. j \in DOMAIN t /\ j < n + 1 /\ t[j] \in FullSignals /\ ValueAt(t, d, "is_present", j, TRUE)
            /\ NoneBetween(t, EmptySignals, j, n + 1)
        BY <1>3, <2>1, <2>3, <4>1
      <4> QED BY <4>2 DEF Armed
    <3> QED BY <2>4, <3>1, <3>2 DEF Armed, P
  <2>5. ASSUME m \in FullSignals, P(n) PROVE Armed(t, d, h, n + 1)
    <3>1. n \in DOMAIN t /\ n < n + 1 /\ t[n] \in FullSignals /\ ValueAt(t, d, "is_present", n, TRUE)
          /\ NoneBetween(t, EmptySignals, n, n + 1)
      BY <1>1, <1>3, <2>1, <2>2, <2>3, <2>5
    <3> QED BY <3>1 DEF Armed
  <2>6. ASSUME Armed(t, d, h, n + 1) PROVE Armed(q, d, h, n) \/ (m \in FullSignals /\ P(n))
    <3>1. CASE NoneBetween(t, EmptySignals, 0, n + 1) /\ h >= NonCriticalPercentage
      BY <2>1, <2>3, <3>1 DEF Armed
    <3>2. CASE \E j \in DOMAIN t : j < n + 1 /\ t[j] \in FullSignals /\ ValueAt(t, d, "is_present", j, TRUE)
                                   /\ NoneBetween(t, EmptySignals, j, n + 1)
      <4>1. PICK j \in DOMAIN t : j < n + 1 /\ t[j] \in FullSignals /\ ValueAt(t, d, "is_present", j, TRUE)
                                  /\ NoneBetween(t, EmptySignals, j, n + 1)
        BY <3>2
      <4>2. CASE j = n
        BY <1>1, <1>3, <2>3, <4>1, <4>2
      <4>3. CASE j # n
        <5>1. j \in DOMAIN q /\ j < n /\ q[j] \in FullSignals /\ P(j) /\ NoneBetween(q, EmptySignals, j, n)
          BY <1>1, <1>3, <2>1, <2>3, <4>1, <4>3
        <5> QED BY <5>1 DEF Armed, P
      <4> QED BY <4>2, <4>3
    <3> QED BY <2>6, <3>1, <3>2 DEF Armed
  <2> QED BY <2>4, <2>5, <2>6
<1> QED BY <1>4, <1>5, <1>6, <1>7 DEF t, n, P

\* The first signal taken: each place is armed as it was.
LEMMA ArmedTaken ==
  ASSUME NEW q \in Seq(UPowerSignals), q # <<>>, NEW d, NEW e, NEW h, NEW g, NEW k \in Nat \ {0},
         e["is_present"] = IF Head(q) \in Sets("is_present") THEN Head(q).changed["is_present"]
                           ELSE d["is_present"]
  PROVE  /\ Head(q) \notin EmptySignals
            /\ (g >= NonCriticalPercentage <=>
                  h >= NonCriticalPercentage \/ (Head(q) \in FullSignals /\ d["is_present"] = TRUE)) =>
              (Armed(Tail(q), e, g, k) <=> Armed(q, d, h, k + 1))
         /\ Head(q) \in EmptySignals =>
              (Armed(Tail(q), e, g, k) <=>
                 \/ Armed(q, d, h, k + 1)
                 \/ NoneBetween(Tail(q), EmptySignals, 0, k) /\ g >= NonCriticalPercentage)
<1> DEFINE t == Tail(q)
           P(j) == ValueAt(q, d, "is_present", j, TRUE)
           Q(j) == ValueAt(t, e, "is_present", j, TRUE)
           full == g >= NonCriticalPercentage
           was == h >= NonCriticalPercentage
<1>1. /\ 1 \in DOMAIN q /\ Head(q) = q[1]
      /\ \A i \in DOMAIN t : i \in Nat /\ 0 < i /\ i + 1 \in DOMAIN q /\ t[i] = q[i + 1]
      /\ \A i \in DOMAIN q : i \in Nat /\ 0 < i /\ (i # 1 => i - 1 \in DOMAIN t /\ t[i - 1] = q[i])
  BY TakenByPlace
<1>2. /\ \A j \in Nat : NoneBetween(t, EmptySignals, j, k) <=> NoneBetween(q, EmptySignals, j + 1, k + 1)
      /\ NoneBetween(q, EmptySignals, 0, k + 1) <=>
           Head(q) \notin EmptySignals /\ NoneBetween(t, EmptySignals, 0, k)
      /\ NoneBetween(t, EmptySignals, 0, k) <=> NoneBetween(q, EmptySignals, 1, k + 1)
  <2>1. /\ \A j \in Nat : NoneBetween(t, EmptySignals, j, k) <=> NoneBetween(q, EmptySignals, j + 1, k + 1)
        /\ NoneBetween(q, EmptySignals, 0, k + 1) <=>
             Head(q) \notin EmptySignals /\ NoneBetween(t, EmptySignals, 0, k)
    BY BetweenTaken
  <2>2. NoneBetween(t, EmptySignals, 0, k) <=> NoneBetween(q, EmptySignals, 0 + 1, k + 1)
    BY <2>1
  <2> QED BY <2>1, <2>2
<1>3. \A j \in Nat \ {0} : Q(j) <=> P(j + 1)
  BY ValueTaken
<1>4. P(1) <=> d["is_present"] = TRUE
  BY ValueNow
<1>5. Armed(t, e, g, k) <=>
        \/ \E j \in DOMAIN t : j < k /\ t[j] \in FullSignals /\ Q(j) /\ NoneBetween(t, EmptySignals, j, k)
        \/ NoneBetween(t, EmptySignals, 0, k) /\ full
  BY DEF Armed
<1>6. Armed(q, d, h, k + 1) <=>
        \/ \E j \in DOMAIN q : j < k + 1 /\ q[j] \in FullSignals /\ P(j) /\ NoneBetween(q, EmptySignals, j, k + 1)
        \/ NoneBetween(q, EmptySignals, 0, k + 1) /\ was
  BY DEF Armed
<1> HIDE DEF t, P, Q, full, was
\* By a later place, or by the first.
<1>7. (\E j \in DOMAIN q : j < k + 1 /\ q[j] \in FullSignals /\ P(j) /\ NoneBetween(q, EmptySignals, j, k + 1)) <=>
        \/ \E j \in DOMAIN t : j < k /\ t[j] \in FullSignals /\ Q(j) /\ NoneBetween(t, EmptySignals, j, k)
        \/ q[1] \in FullSignals /\ P(1) /\ NoneBetween(t, EmptySignals, 0, k)
  <2>1. ASSUME NEW j \in DOMAIN q, j < k + 1, q[j] \in FullSignals, P(j), NoneBetween(q, EmptySignals, j, k + 1)
        PROVE  \/ \E i \in DOMAIN t : i < k /\ t[i] \in FullSignals /\ Q(i) /\ NoneBetween(t, EmptySignals, i, k)
               \/ q[1] \in FullSignals /\ P(1) /\ NoneBetween(t, EmptySignals, 0, k)
    <3>1. CASE j = 1
      BY <1>2, <2>1, <3>1
    <3>2. CASE j # 1
      <4>1. j - 1 \in Nat \ {0} /\ j - 1 \in DOMAIN t /\ t[j - 1] = q[j] /\ j - 1 < k /\ (j - 1) + 1 = j
        BY <1>1, <2>1, <3>2
      <4>2. Q(j - 1) /\ NoneBetween(t, EmptySignals, j - 1, k)
        BY <1>2, <1>3, <2>1, <4>1
      <4> QED BY <2>1, <4>1, <4>2
    <3> QED BY <3>1, <3>2
  <2>2. ASSUME NEW j \in DOMAIN t, j < k, t[j] \in FullSignals, Q(j), NoneBetween(t, EmptySignals, j, k)
        PROVE  \E i \in DOMAIN q : i < k + 1 /\ q[i] \in FullSignals /\ P(i) /\ NoneBetween(q, EmptySignals, i, k + 1)
    <3>1. j \in Nat \ {0} /\ j + 1 \in DOMAIN q /\ q[j + 1] = t[j] /\ j + 1 < k + 1
      BY <1>1, <2>2
    <3>2. P(j + 1) /\ NoneBetween(q, EmptySignals, j + 1, k + 1)
      BY <1>2, <1>3, <2>2, <3>1
    <3> QED BY <2>2, <3>1, <3>2
  <2>3. 1 < k + 1
    OBVIOUS
  <2> QED BY <1>1, <1>2, <2>1, <2>2, <2>3
<1>8. ASSUME Head(q) \notin EmptySignals, full <=> was \/ (Head(q) \in FullSignals /\ d["is_present"] = TRUE)
      PROVE  Armed(t, e, g, k) <=> Armed(q, d, h, k + 1)
  BY <1>1, <1>2, <1>4, <1>5, <1>6, <1>7, <1>8
<1>9. ASSUME Head(q) \in EmptySignals
      PROVE  Armed(t, e, g, k) <=> Armed(q, d, h, k + 1) \/ (NoneBetween(t, EmptySignals, 0, k) /\ full)
  BY <1>1, <1>2, <1>5, <1>6, <1>7, <1>9, FullIsNotEmpty
<1> QED BY <1>8, <1>9 DEF t, full, was

-----------------------------------------------------------------------------
(* How many dips wait.                                                     *)

\* Dips are places of the queue, so finitely many.
LEMMA DipsAreFinite ==
  ASSUME NEW q \in Seq(UPowerSignals), NEW d, NEW h
  PROVE  IsFiniteSet(Dips(q, d, h)) /\ Cardinality(Dips(q, d, h)) \in Nat
<1>1. DOMAIN q = 1 .. Len(q) /\ Len(q) \in Int /\ 1 \in Int
  OBVIOUS
<1>2. IsFiniteSet(DOMAIN q)
  BY <1>1, FS_Interval
<1>3. Dips(q, d, h) \in SUBSET DOMAIN q
  BY DEF Dips
<1> QED BY <1>2, <1>3, FS_Subset, FS_CardinalityType

\* Numbers that are one less than others, but for one of them, are no more.
LEMMA ShiftedAreNotMore ==
  ASSUME NEW A, A \subseteq Nat \ {0}, NEW B, IsFiniteSet(B),
         (\A k \in A : k + 1 \in B)
         \/ (1 \in B /\ \A k, n \in A : k + 1 \notin B /\ n + 1 \notin B => k = n)
  PROVE  IsFiniteSet(A) /\ Cardinality(A) <= Cardinality(B)
<1> DEFINE f == [k \in A |-> IF k + 1 \in B THEN k + 1 ELSE 1]
<1>1. \A k \in A : f[k] = (IF k + 1 \in B THEN k + 1 ELSE 1) /\ f[k] \in B
  OBVIOUS
<1>2. f \in [A -> B]
  BY <1>1
<1>3. \A k, n \in A : f[k] = f[n] => k = n
  <2>1. \A k \in A : k \in Nat /\ k # 0 /\ k + 1 # 1
    OBVIOUS
  <2> HIDE DEF f
  <2> QED BY <1>1, <2>1
<1> HIDE DEF f
<1>4. f \in Injection(A, B)
  BY <1>2, <1>3 DEF Injection, IsInjective
<1> QED BY <1>4, FS_Injection

-----------------------------------------------------------------------------
\* Of this service.
Waiting == Dips(upSignals, display_device, highest_seen_percentage)
ArmedAt(k) == Armed(upSignals, display_device, highest_seen_percentage, k)
PresentAt(k) == ValueAt(upSignals, display_device, "is_present", k, TRUE)
AfterLast == Len(upSignals) + 1

EmptyTyped ==
  /\ highest_seen_percentage \in Percentages /\ seenNonCritical \in BOOLEAN
  /\ criticalEvents \in Nat /\ dips \in Nat

\* Percentages are asked for before any is signalled.
NothingBeforeStart ==
  upPhase # "started" =>
    /\ criticalEvents = 0 /\ highest_seen_percentage = 0 /\ emptied = "no"
    /\ NoneIn(upSignals, Sets("percentage"))

\* Each percentage is another than the one before it.
PercentagesDiffer ==
  \A k \in DOMAIN upSignals :
    upSignals[k] \in Sets("percentage") =>
      ~ValueAt(upSignals, display_device, "percentage", k, upSignals[k].changed["percentage"])

\* What has been told and what waits to be are not more than the dips; what
\* the service has seen beyond UPower is a dip that it did not tell.
DipsCover ==
  /\ criticalEvents + Cardinality(Waiting) <= dips
  /\ ArmedAt(AfterLast) /\ ~seenNonCritical => criticalEvents + Cardinality(Waiting) + 1 <= dips

SeenIsArmed == upPhase = "started" /\ seenNonCritical => ArmedAt(AfterLast)

\* The dip that is not told yet waits, and the system is still on battery, or
\* its event is queued.
UntoldWaits ==
  emptied = "untold" =>
    /\ upPhase = "started"
    /\ \/ "critical" \in Range(sourceEvents)
       \/ /\ onBattery
          /\ \E k \in Waiting : PresentAt(k)

EmptyInv ==
  /\ ~othersSignalled
  /\ UPowerInv /\ EmptyTyped /\ NothingBeforeStart /\ PercentagesDiffer /\ DipsCover /\ SeenIsArmed
  /\ UntoldWaits

\* After the last signal, a field is what UPower says of it.
LEMMA LastIsUPowers ==
  ASSUME UPowerInv, ~othersSignalled, upPhase = "started", NEW f \in Fields, NEW v
  PROVE  ValueAt(upSignals, display_device, f, AfterLast, v) <=> upDevice[f] = v
<1> DEFINE q == upSignals
           K == Sets(f)
<1>1. /\ \A k \in DOMAIN q : k \in Nat /\ 0 < k /\ k < AfterLast
      /\ DeviceFollows /\ q \in Seq(UPowerSignals)
  BY DEF AfterLast, UPowerInv, SupplyTyped, UPowerFollows
<1>2. \A j \in DOMAIN q : q[j] \in K /\ NoneBetween(q, K, j, AfterLast) => LastIn(q, K, q[j])
  BY <1>1 DEF LastIn, NoneBetween
<1>3. NoneBetween(q, K, 0, AfterLast) <=> NoneIn(q, K)
  BY <1>1 DEF NoneIn, NoneBetween
<1>4. \A j \in DOMAIN q : q[j] \in K /\ NoneBetween(q, K, j, AfterLast) => q[j].changed[f] = upDevice[f]
  BY <1>1, <1>2 DEF DeviceFollows
<1>5. NoneIn(q, K) => display_device[f] = upDevice[f]
  BY <1>1 DEF DeviceFollows
<1>6. ~NoneIn(q, K) => \E j \in DOMAIN q : q[j] \in K /\ NoneBetween(q, K, j, AfterLast)
  <2>1. SUFFICES ASSUME ~NoneIn(q, K) PROVE \E j \in DOMAIN q : q[j] \in K /\ NoneBetween(q, K, j, AfterLast)
    OBVIOUS
  <2>2. PICK m : LastIn(q, K, m)
    BY <1>1, <2>1, LastExists
  <2> QED BY <2>2 DEF LastIn, NoneBetween
<1>7. NoneIn(q, K) => \A j \in DOMAIN q : q[j] \notin K
  BY DEF NoneIn
<1> QED BY <1>1, <1>3, <1>4, <1>5, <1>6, <1>7 DEF ValueAt

\* Nothing has been seen, told or missed.
LEMMA InitEmptyInv == PowerSourceInit => EmptyInv
<1> SUFFICES ASSUME PowerSourceInit PROVE EmptyInv
  OBVIOUS
<1>1. UPowerInv /\ upSignals = <<>> /\ <<>> \in Seq(UPowerSignals)
  BY InitUPowerInv, EmptyQueue DEF PowerSourceInit
<1>2. EmptyTyped /\ upPhase # "started" /\ emptied = "no" /\ highest_seen_percentage = 0
      /\ criticalEvents = 0 /\ dips = 0
  BY PowerSourceAssumption DEF PowerSourceInit, EmptyTyped
<1>3. DOMAIN upSignals = {}
  BY <1>1
<1>4. Waiting = {} /\ ~ArmedAt(AfterLast)
  BY <1>2, <1>3, PowerSourceAssumption DEF Waiting, Dips, ArmedAt, Armed
<1>5. Cardinality(Waiting) = 0
  BY <1>4, FS_EmptySet
<1>6. NothingBeforeStart /\ PercentagesDiffer /\ SeenIsArmed /\ UntoldWaits
  BY <1>1, <1>2, <1>3 DEF NothingBeforeStart, PercentagesDiffer, SeenIsArmed, UntoldWaits, PowerSourceInit, NoneIn
<1>7. DipsCover
  BY <1>2, <1>4, <1>5 DEF DipsCover
<1> QED BY <1>1, <1>2, <1>6, <1>7 DEF EmptyInv, PowerSourceInit

-----------------------------------------------------------------------------
\* A signal that waits is met by what UPower was when it was sent.
LEMMA QueuedByPlace ==
  ASSUME EmptyInv, NEW m \in UPowerSignals, upSignals' = Append(upSignals, m),
         UNCHANGED <<display_device, highest_seen_percentage>>
  PROVE  /\ DOMAIN upSignals' = DOMAIN upSignals \cup {AfterLast} /\ AfterLast \notin DOMAIN upSignals
         /\ upSignals'[AfterLast] = m /\ AfterLast \in Nat /\ AfterLast' = Len(upSignals) + 2
         /\ \A k \in DOMAIN upSignals : upSignals'[k] = upSignals[k] /\ k \in Nat /\ k < AfterLast
         /\ \A k \in DOMAIN upSignals' : /\ ArmedAt(k)' <=> ArmedAt(k)
                                         /\ PresentAt(k)' <=> PresentAt(k)
         /\ Waiting' = IF m \in EmptySignals /\ ArmedAt(AfterLast) THEN Waiting \cup {AfterLast}
                       ELSE Waiting
         /\ AfterLast \notin Waiting
         /\ m \in EmptySignals => ~ArmedAt(AfterLast)'
         /\ m \notin EmptySignals =>
              (ArmedAt(AfterLast)' <=>
                 ArmedAt(AfterLast) \/ (m \in FullSignals /\ PresentAt(AfterLast)))
<1> DEFINE q == upSignals
           d == display_device
           h == highest_seen_percentage
           n == Len(upSignals) + 1
           t == Append(q, m)
<1>1. q \in Seq(UPowerSignals) /\ t = upSignals' /\ d' = d /\ h' = h
  BY DEF EmptyInv, UPowerInv, SupplyTyped
<1>2. /\ n \in Nat /\ DOMAIN t = DOMAIN q \cup {n} /\ t[n] = m /\ n \notin DOMAIN q
      /\ \A i \in DOMAIN q : i \in Nat /\ 0 < i /\ i < n /\ t[i] = q[i]
  BY <1>1, AppendedByPlace
<1>3. Len(upSignals') = n
  BY <1>1
<1>4. /\ \A k \in Nat : k <= n => (Armed(t, d, h, k) <=> Armed(q, d, h, k))
      /\ m \in EmptySignals => ~Armed(t, d, h, Len(q) + 2)
      /\ m \notin EmptySignals =>
           (Armed(t, d, h, Len(q) + 2) <=>
              Armed(q, d, h, n) \/ (m \in FullSignals /\ ValueAt(q, d, "is_present", n, TRUE)))
  BY <1>1, ArmedAppended
<1>5. \A k \in Nat : k <= n => (ValueAt(t, d, "is_present", k, TRUE) <=> ValueAt(q, d, "is_present", k, TRUE))
  BY <1>1, ValueAppended
<1>6. /\ \A k : ArmedAt(k)' <=> Armed(t, d, h, k)
      /\ \A k : ArmedAt(k) <=> Armed(q, d, h, k)
      /\ \A k : PresentAt(k)' <=> ValueAt(t, d, "is_present", k, TRUE)
      /\ \A k : PresentAt(k) <=> ValueAt(q, d, "is_present", k, TRUE)
      /\ AfterLast = n /\ AfterLast' = n + 1
      /\ Waiting = Dips(q, d, h) /\ Waiting' = Dips(t, d, h)
  BY <1>1, <1>3 DEF ArmedAt, PresentAt, AfterLast, Waiting
<1>7. n + 1 = Len(q) + 2
  BY <1>2
<1> HIDE DEF t
<1>8. \A k \in DOMAIN t : k \in Nat /\ k <= n
  BY <1>2
<1>9. Dips(t, d, h) = IF m \in EmptySignals /\ Armed(q, d, h, n) THEN Dips(q, d, h) \cup {n} ELSE Dips(q, d, h)
  <2>1. \A k : k \in Dips(t, d, h) <=> k \in DOMAIN t /\ t[k] \in EmptySignals /\ Armed(q, d, h, k)
    BY <1>4, <1>8 DEF Dips
  <2>2. \A k : k \in Dips(q, d, h) <=> k \in DOMAIN q /\ q[k] \in EmptySignals /\ Armed(q, d, h, k)
    BY DEF Dips
  <2> DEFINE D == Dips(q, d, h)
             E == Dips(t, d, h)
             A(k) == Armed(q, d, h, k)
  <2> HIDE DEF q, d, h, n, A, D, E
  <2>3. \A k : k \in E <=> (k \in DOMAIN q \cup {n} /\ t[k] \in EmptySignals /\ A(k))
    BY <1>2, <2>1 DEF A, E
  <2>4. \A k : k \in D <=> (k \in DOMAIN q /\ q[k] \in EmptySignals /\ A(k))
    BY <2>2 DEF A, D
  <2>5. \A k : k \in E <=> (k \in D \/ (k = n /\ m \in EmptySignals /\ A(n)))
    BY <1>2, <2>3, <2>4
  <2>6. E = IF m \in EmptySignals /\ A(n) THEN D \cup {n} ELSE D
    BY <2>5
  <2> QED BY <2>6 DEF A, D, E
<1>10. n \notin Dips(q, d, h)
  BY <1>2 DEF Dips
<1> QED BY <1>1, <1>2, <1>4, <1>5, <1>6, <1>7, <1>8, <1>9, <1>10

-----------------------------------------------------------------------------
\* What UPower signals, of the percentage or of something else.
LEMMA SignalledKeepsEmpty ==
  ASSUME EmptyInv, UPowerInv', ~othersSignalled', NEW m \in UPowerSignals, SentByUPower(m),
         m \notin Sets("percentage") => UNCHANGED dipVars,
         m \in Sets("percentage") =>
           LET p == m.changed["percentage"]
           IN /\ upPhase # "subscribed" /\ p \in Nat /\ p # upDevice["percentage"]
              /\ dips' = IF p = 0 /\ seenNonCritical THEN dips + 1 ELSE dips
              /\ seenNonCritical' \in BOOLEAN
              /\ seenNonCritical' <=> (p >= NonCriticalPercentage /\ upDevice["is_present"] = TRUE)
                                      \/ (seenNonCritical /\ p # 0),
         emptied' = "untold" \/ emptied' = "no" \/ emptied' = emptied,
         emptied' = "untold" =>
           \/ emptied = "untold" /\ UNCHANGED onBattery /\ m \notin Sets("percentage")
           \/ /\ m \in EmptySignals /\ seenNonCritical /\ onBattery' /\ upDevice["is_present"] = TRUE
              /\ upPhase = "started"
  PROVE  EmptyInv'
<1>1. /\ UNCHANGED <<upPhase, display_device, highest_seen_percentage, sourceEvents, criticalEvents>>
      /\ upSignals' = IF upPhase = "stopped" THEN upSignals ELSE Append(upSignals, m)
      /\ UPowerInv /\ upSignals \in Seq(UPowerSignals)
  BY DEF SentByUPower, trackedVars, EmptyInv, UPowerInv, SupplyTyped
<1>2. EmptyTyped'
  <2>1. dips' \in Nat /\ seenNonCritical' \in BOOLEAN
    BY DEF EmptyInv, EmptyTyped, dipVars
  <2> QED BY <1>1, <2>1 DEF EmptyInv, EmptyTyped
<1>3. CASE upPhase = "stopped"
  <2>1. upSignals = <<>> /\ upSignals' = <<>> /\ upPhase' = "stopped"
    BY <1>1, <1>3 DEF UPowerInv, UPowerFollows
  <2>2. criticalEvents' = 0 /\ highest_seen_percentage' = 0 /\ emptied' = "no"
    <3>1. criticalEvents = 0 /\ highest_seen_percentage = 0 /\ emptied = "no"
      BY <1>3 DEF EmptyInv, NothingBeforeStart
    <3> QED BY <1>1, <1>3, <3>1
  <2>3. DOMAIN upSignals' = {}
    BY <2>1
  <2>4. Waiting' = {} /\ ~ArmedAt(AfterLast)'
    BY <2>2, <2>3, PowerSourceAssumption DEF Waiting, Dips, ArmedAt, Armed
  <2>5. Cardinality({}) = 0 /\ Cardinality(Waiting') = 0
    BY <2>4, FS_EmptySet
  <2>6. dips' \in Nat
    BY <1>2 DEF EmptyTyped
  <2>7. DipsCover'
    BY <2>2, <2>4, <2>5, <2>6 DEF DipsCover
  <2> QED BY <1>2, <2>1, <2>2, <2>3, <2>7
      DEF EmptyInv, NothingBeforeStart, PercentagesDiffer, SeenIsArmed, UntoldWaits, NoneIn
<1>4. CASE upPhase # "stopped"
  <2>1. upSignals' = Append(upSignals, m)
    BY <1>1, <1>4
  <2>0. PICK n : n = AfterLast
    OBVIOUS
  <2>2. /\ DOMAIN upSignals' = DOMAIN upSignals \cup {n} /\ n \notin DOMAIN upSignals
        /\ upSignals'[n] = m /\ n \in Nat
        /\ \A k \in DOMAIN upSignals : upSignals'[k] = upSignals[k] /\ k \in Nat /\ k < n
    BY <1>1, <2>0, <2>1, QueuedByPlace
  <2>3. /\ \A k \in DOMAIN upSignals' : PresentAt(k)' <=> PresentAt(k)
        /\ Waiting' = IF m \in EmptySignals /\ ArmedAt(n) THEN Waiting \cup {n} ELSE Waiting
        /\ n \notin Waiting
        /\ m \in EmptySignals => ~ArmedAt(AfterLast)'
        /\ m \notin EmptySignals =>
             (ArmedAt(AfterLast)' <=> ArmedAt(n) \/ (m \in FullSignals /\ PresentAt(n)))
    BY <1>1, <2>0, <2>1, QueuedByPlace
  <2>4. upPhase = "started" => /\ PresentAt(n) <=> upDevice["is_present"] = TRUE
                               /\ \A v : ValueAt(upSignals, display_device, "percentage", n, v)
                                           <=> upDevice["percentage"] = v
    BY <1>1, <2>0, LastIsUPowers DEF EmptyInv, PresentAt, Fields
  <2>5. NothingBeforeStart'
    <3>1. SUFFICES ASSUME upPhase # "started"
                   PROVE  emptied' = "no" /\ NoneIn(upSignals', Sets("percentage"))
      BY <1>1 DEF NothingBeforeStart, EmptyInv
    <3>2. m \notin Sets("percentage")
      BY <1>4, <1>1, <3>1 DEF UPowerInv, SupplyTyped
    <3>3. NoneIn(upSignals, Sets("percentage")) /\ emptied = "no"
      BY <3>1 DEF EmptyInv, NothingBeforeStart
    <3>4. NoneIn(upSignals', Sets("percentage"))
      BY <1>1, <2>1, <3>2, <3>3, LastAppended
    <3> QED BY <3>1, <3>3, <3>4
  <2>6. PercentagesDiffer'
    <3>1. SUFFICES ASSUME NEW k \in DOMAIN upSignals', upSignals'[k] \in Sets("percentage")
                   PROVE  ~ValueAt(upSignals', display_device, "percentage", k, upSignals'[k].changed["percentage"])
      BY <1>1 DEF PercentagesDiffer
    <3>2. k \in Nat /\ k <= Len(upSignals) + 1
      BY <2>0, <2>2 DEF AfterLast
    <3>3. \A v : ValueAt(upSignals', display_device, "percentage", k, v)
                   <=> ValueAt(upSignals, display_device, "percentage", k, v)
      BY <1>1, <2>1, <3>2, ValueAppended
    <3>4. CASE k = n
      BY <1>4, <1>1, <2>2, <2>4, <3>1, <3>3, <3>4 DEF UPowerInv, SupplyTyped
    <3>5. CASE k # n
      BY <2>2, <3>1, <3>3, <3>5 DEF EmptyInv, PercentagesDiffer
    <3> QED BY <3>4, <3>5
  <2>7. m \in Sets("percentage") =>
          /\ upPhase = "started"
          /\ m \in EmptySignals <=> m.changed["percentage"] = 0
          /\ m \in FullSignals <=> m.changed["percentage"] >= NonCriticalPercentage
    BY <1>1, <1>4 DEF EmptySignals, FullSignals, UPowerInv, SupplyTyped
  <2>8. m \notin Sets("percentage") => m \notin EmptySignals /\ m \notin FullSignals
    BY DEF EmptySignals, FullSignals
  <2>9. SeenIsArmed'
    <3>1. SUFFICES ASSUME upPhase = "started", seenNonCritical' PROVE ArmedAt(AfterLast)'
      BY <1>1 DEF SeenIsArmed
    <3>2. seenNonCritical => ArmedAt(n)
      BY <2>0, <3>1 DEF EmptyInv, SeenIsArmed
    <3>3. CASE m \notin Sets("percentage")
      BY <2>3, <2>8, <3>1, <3>2, <3>3 DEF dipVars
    <3>4. CASE m \in Sets("percentage")
      <4>1. m \notin EmptySignals
        BY <2>7, <3>1, <3>4, PowerSourceAssumption
      <4> QED BY <2>3, <2>4, <2>7, <3>1, <3>2, <3>4, <4>1
    <3> QED BY <3>3, <3>4
  <2>10. DipsCover'
    <3> DEFINE w == Cardinality(Waiting)
               a == ArmedAt(n)
    <3>1. /\ IsFiniteSet(Waiting) /\ w \in Nat /\ criticalEvents \in Nat /\ dips \in Nat
          /\ criticalEvents + w <= dips /\ (a /\ ~seenNonCritical => criticalEvents + w + 1 <= dips)
      BY <1>1, <2>0, DipsAreFinite DEF EmptyInv, EmptyTyped, DipsCover, Waiting
    <3>2. Cardinality(Waiting') = IF m \in EmptySignals /\ a THEN w + 1 ELSE w
      <4>1. CASE m \in EmptySignals /\ a
        <5>1. Waiting' = Waiting \cup {n}
          BY <2>3, <4>1
        <5> QED BY <2>3, <3>1, <4>1, <5>1, FS_AddElement
      <4>2. CASE ~(m \in EmptySignals /\ a)
        BY <2>3, <4>2
      <4> QED BY <4>1, <4>2
    <3> DEFINE b == ArmedAt(AfterLast)'
               x == Cardinality(Waiting')
    <3>3. /\ m \in EmptySignals => ~b
          /\ m \notin EmptySignals => (b <=> a \/ (m \in FullSignals /\ PresentAt(n)))
      BY <2>3
    <3> SUFFICES /\ criticalEvents' + x <= dips'
                 /\ b /\ ~seenNonCritical' => criticalEvents' + x + 1 <= dips'
      BY DEF DipsCover
    <3> HIDE DEF w, a, b, x
    <3>4. x = IF m \in EmptySignals /\ a THEN w + 1 ELSE w
      BY <3>2 DEF x
    <3>5. CASE m \notin Sets("percentage")
      BY <1>1, <2>8, <3>1, <3>3, <3>4, <3>5 DEF dipVars
    <3>6. CASE m \in EmptySignals
      <4>1. dips' = IF seenNonCritical THEN dips + 1 ELSE dips
        BY <2>7, <3>6 DEF EmptySignals
      <4> QED BY <1>1, <3>1, <3>3, <3>4, <3>6, <4>1
    <3>7. CASE m \in Sets("percentage") /\ m \notin EmptySignals
      <4>1. dips' = dips /\ (PresentAt(n) <=> upDevice["is_present"] = TRUE)
        BY <2>4, <2>7, <3>7
      <4>2. seenNonCritical' <=> (m \in FullSignals /\ PresentAt(n)) \/ seenNonCritical
        BY <2>7, <3>7, <4>1
      <4> QED BY <1>1, <3>1, <3>3, <3>4, <3>7, <4>1, <4>2
    <3> QED BY <3>5, <3>6, <3>7
  <2>11. UntoldWaits'
    <3>1. SUFFICES ASSUME emptied' = "untold"
                   PROVE  /\ upPhase = "started"
                          /\ \/ "critical" \in Range(sourceEvents)
                             \/ onBattery' /\ \E k \in Waiting' : PresentAt(k)'
      BY <1>1 DEF UntoldWaits
    <3>2. CASE emptied = "untold" /\ UNCHANGED onBattery /\ m \notin Sets("percentage")
      <4>1. upPhase = "started"
        BY <3>2 DEF EmptyInv, UntoldWaits
      <4>2. CASE "critical" \in Range(sourceEvents)
        BY <4>1, <4>2
      <4>3. CASE "critical" \notin Range(sourceEvents)
        <5>1. PICK k \in Waiting : onBattery /\ PresentAt(k)
          BY <3>2, <4>3 DEF EmptyInv, UntoldWaits
        <5>2. k \in Waiting' /\ k \in DOMAIN upSignals'
          BY <2>2, <2>3 DEF Waiting, Dips
        <5> QED BY <2>3, <3>2, <4>1, <5>1, <5>2
      <4> QED BY <4>2, <4>3
    <3>3. CASE /\ m \in EmptySignals /\ seenNonCritical /\ onBattery' /\ upDevice["is_present"] = TRUE
               /\ upPhase = "started"
      <4>1. ArmedAt(n) /\ PresentAt(n)
        BY <2>0, <2>4, <3>3 DEF EmptyInv, SeenIsArmed
      <4>2. n \in Waiting' /\ PresentAt(n)'
        BY <2>2, <2>3, <3>3, <4>1
      <4> QED BY <3>3, <4>2
    <3> QED BY <3>1, <3>2, <3>3
  <2> QED BY <1>2, <2>5, <2>6, <2>9, <2>10, <2>11 DEF EmptyInv
<1> QED BY <1>3, <1>4

\* UPower changes: a new dip is one that waits.
LEMMA UPowerKeepsEmpty ==
  ASSUME EmptyInv, ~othersSignalled', PercentageChanges \/ PlugOrUnplug \/ ChargeStateChanges \/ BatteryComesOrGoes
               \/ DeviceTypeChanges \/ LidMoves \/ DeviceAddedOrRemoved
  PROVE  EmptyInv'
<1>1. UPowerInv /\ UPowerInv' /\ seenNonCritical \in BOOLEAN /\ upDevice \in Devices /\ onBattery \in BOOLEAN
  BY UPowerKeeps DEF EmptyInv, EmptyTyped, UPowerInv, SupplyTyped
<1>2. CASE PercentageChanges
  <2>1. PICK p \in Percentages \ {upDevice.percentage} :
          /\ DeviceChange([percentage |-> p])
          /\ dips' = IF p = 0 /\ seenNonCritical THEN dips + 1 ELSE dips
          /\ seenNonCritical' = ((p >= NonCriticalPercentage /\ upDevice.is_present) \/ (seenNonCritical /\ p # 0))
          /\ emptied' = IF p = 0 /\ seenNonCritical /\ onBattery /\ upDevice.is_present /\ upPhase = "started"
                        THEN "untold" ELSE "no"
    BY <1>2 DEF PercentageChanges
  <2> DEFINE m == [signal |-> "device", changed |-> [percentage |-> p]]
  <2>2. /\ m \in DeviceSignals /\ m \in UPowerSignals /\ m \in Sets("percentage")
        /\ m.changed["percentage"] = p /\ SentByUPower(m)
    BY <2>1 DEF DeviceSignals, DeviceChanges, UPowerSignals, Sets, DeviceChange
  <2> HIDE DEF m
  <2>3. upDevice.is_present \in BOOLEAN /\ p \in Nat
    BY <1>1, <2>1, PowerSourceAssumption DEF Devices
  <2>4. seenNonCritical' <=> (p >= NonCriticalPercentage /\ upDevice.is_present = TRUE) \/ (seenNonCritical /\ p # 0)
    BY <2>1, <2>3
  <2>5. seenNonCritical' \in BOOLEAN
    BY <2>1
  <2>6. upPhase # "subscribed" /\ UNCHANGED onBattery
    BY <1>2 DEF PercentageChanges
  <2>7. emptied' = "untold" => /\ m \in EmptySignals /\ seenNonCritical /\ onBattery'
                               /\ upDevice.is_present = TRUE /\ upPhase = "started"
    BY <2>1, <2>2, <2>3, <2>6 DEF EmptySignals
  <2>8. emptied' = "untold" \/ emptied' = "no"
    BY <2>1
  <2> QED BY <1>1, <2>1, <2>2, <2>3, <2>4, <2>5, <2>6, <2>7, <2>8, SignalledKeepsEmpty
<1>3. CASE PlugOrUnplug
  <2>1. PICK s \in StatesFor(onBattery') : DeviceChange([state |-> s])
    BY <1>3 DEF PlugOrUnplug
  <2> DEFINE m == [signal |-> "device", changed |-> [state |-> s]]
  <2>2. m \in UPowerSignals /\ m \notin Sets("percentage") /\ SentByUPower(m)
    BY <2>1 DEF DeviceSignals, DeviceChanges, UPowerSignals, Sets, DeviceChange, StatesFor, States
  <2> HIDE DEF m
  <2>3. emptied' = "no" /\ UNCHANGED dipVars
    BY <1>3 DEF PlugOrUnplug
  <2> QED BY <1>1, <2>2, <2>3, SignalledKeepsEmpty
<1>4. CASE BatteryComesOrGoes
  <2>1. DeviceChange([is_present |-> ~upDevice.is_present])
    BY <1>4 DEF BatteryComesOrGoes
  <2> DEFINE m == [signal |-> "device", changed |-> [is_present |-> ~upDevice.is_present]]
  <2>2. m \in UPowerSignals /\ m \notin Sets("percentage") /\ SentByUPower(m)
    BY <2>1 DEF DeviceSignals, DeviceChanges, UPowerSignals, Sets, DeviceChange
  <2> HIDE DEF m
  <2>3. emptied' = "no" /\ UNCHANGED dipVars
    BY <1>4 DEF BatteryComesOrGoes
  <2> QED BY <1>1, <2>2, <2>3, SignalledKeepsEmpty
<1>5. CASE LidMoves
  <2> DEFINE m == [signal |-> "lid", changed |-> lidClosed']
  <2>1. m \in LidSignals /\ m \in UPowerSignals /\ SentByUPower(m)
    BY <1>5 DEF LidMoves, LidSignals, UPowerSignals
  <2> HIDE DEF m
  <2>2. m \notin Sets("percentage") /\ m \notin DeviceSignals
    BY <2>1 DEF LidSignals, Sets, DeviceSignals
  <2>3. UNCHANGED <<onBattery, emptied>> /\ UNCHANGED dipVars
    BY <1>5 DEF LidMoves
  <2> QED BY <1>1, <2>1, <2>2, <2>3, SignalledKeepsEmpty
<1>6. CASE DeviceAddedOrRemoved
  <2>1. PICK b \in Batteries :
          SentByUPower([signal |-> IF b \in upBatteries THEN "removed" ELSE "added", changed |-> b])
    BY <1>6 DEF DeviceAddedOrRemoved
  <2> DEFINE m == [signal |-> IF b \in upBatteries THEN "removed" ELSE "added", changed |-> b]
  <2>2. m \in BatterySignals /\ m \in UPowerSignals /\ SentByUPower(m)
    BY <2>1 DEF BatterySignals, UPowerSignals
  <2> HIDE DEF m
  <2>3. m \notin Sets("percentage") /\ m \notin DeviceSignals
    BY <2>2 DEF BatterySignals, Sets, DeviceSignals
  <2>4. UNCHANGED <<onBattery, emptied>> /\ UNCHANGED dipVars
    BY <1>6 DEF DeviceAddedOrRemoved
  <2> QED BY <1>1, <2>2, <2>3, <2>4, SignalledKeepsEmpty
<1>7. CASE ChargeStateChanges \/ DeviceTypeChanges
  <2>1. PICK ch \in [state : States] \cup [type : DeviceTypes] : DeviceChange(ch)
    <3>1. CASE ChargeStateChanges
      BY <3>1 DEF ChargeStateChanges, StatesFor, States
    <3>2. CASE DeviceTypeChanges
      BY <3>2 DEF DeviceTypeChanges
    <3> QED BY <1>7, <3>1, <3>2
  <2> DEFINE m == [signal |-> "device", changed |-> ch]
  <2>2. m \in UPowerSignals /\ m \notin Sets("percentage") /\ SentByUPower(m)
    BY <2>1 DEF DeviceSignals, DeviceChanges, UPowerSignals, Sets, DeviceChange
  <2> HIDE DEF m
  <2>3. UNCHANGED <<onBattery, emptied>> /\ UNCHANGED dipVars
    BY <1>7 DEF ChargeStateChanges, DeviceTypeChanges
  <2> QED BY <1>1, <2>2, <2>3, SignalledKeepsEmpty
<1> QED BY <1>2, <1>3, <1>4, <1>5, <1>6, <1>7

\* UPower is asked for the device: it is as if no percentage came before.
LEMMA AskedKeepsEmpty ==
  ASSUME UPowerAnswers, ~othersSignalled', EmptyInv, add_display_device_and_batteries
  PROVE  EmptyInv'
<1>1. /\ UPowerInv /\ EmptyTyped /\ upPhase = "subscribed" /\ upPhase' = "started"
      /\ NoneIn(upSignals, Sets("percentage")) /\ criticalEvents = 0 /\ emptied = "no"
      /\ upSignals \in Seq(UPowerSignals) /\ upDevice.percentage \in Percentages
  BY DEF EmptyInv, NothingBeforeStart, UPowerInv, SupplyTyped, Devices, add_display_device_and_batteries
<1>2. /\ highest_seen_percentage' = upDevice.percentage
      /\ seenNonCritical' = (upDevice.percentage >= NonCriticalPercentage)
      /\ UNCHANGED <<upSignals, criticalEvents, dips, emptied>>
  BY DEF add_display_device_and_batteries, create_device
<1>3. UPowerInv'
  BY <1>1, NextUPowerInv DEF PowerSourceNext
<1>4. EmptyTyped'
  BY <1>1, <1>2 DEF EmptyTyped
<1>5. \A k \in DOMAIN upSignals : /\ upSignals[k] \notin Sets("percentage")
                                  /\ upSignals[k] \notin EmptySignals /\ upSignals[k] \notin FullSignals
  BY <1>1 DEF NoneIn, EmptySignals, FullSignals
<1>6. Waiting' = {}
  BY <1>2, <1>5 DEF Waiting, Dips
<1>7. ArmedAt(AfterLast)' <=> seenNonCritical'
  BY <1>2, <1>5 DEF ArmedAt, Armed, NoneBetween
<1>8. Cardinality(Waiting') = 0
  BY <1>6, FS_EmptySet
<1>9. DipsCover' /\ SeenIsArmed'
  BY <1>1, <1>2, <1>7, <1>8 DEF DipsCover, SeenIsArmed, EmptyTyped
<1>10. NothingBeforeStart' /\ PercentagesDiffer' /\ UntoldWaits'
  BY <1>1, <1>2, <1>5 DEF NothingBeforeStart, PercentagesDiffer, UntoldWaits
<1> QED BY <1>3, <1>4, <1>9, <1>10 DEF EmptyInv

-----------------------------------------------------------------------------
\* What is made of the first signal.
LEMMA HandledHighest ==
  ASSUME UPowerAnswers, ~othersSignalled', EmptyInv, HandleUPowerSignal, NEW m, m = Head(upSignals)
  PROVE  /\ Range(sourceEvents) \subseteq Range(sourceEvents')
         /\ highest_seen_percentage' \in Percentages
         /\ criticalEvents' = criticalEvents \/ criticalEvents' = criticalEvents + 1
         /\ m \notin EmptySignals =>
              /\ criticalEvents' = criticalEvents
              /\ highest_seen_percentage' >= NonCriticalPercentage <=>
                   \/ highest_seen_percentage >= NonCriticalPercentage
                   \/ m \in FullSignals /\ display_device["is_present"] = TRUE
         /\ m \in EmptySignals =>
              \/ /\ criticalEvents' = criticalEvents + 1 /\ highest_seen_percentage' = 0
                 /\ highest_seen_percentage >= NonCriticalPercentage
                 /\ "critical" \in Range(sourceEvents')
              \/ /\ criticalEvents' = criticalEvents
                 /\ highest_seen_percentage' = highest_seen_percentage
                 /\ ~(/\ onBattery /\ display_device["is_present"] = TRUE
                      /\ highest_seen_percentage >= NonCriticalPercentage)
<1>1. UPowerInv /\ highest_seen_percentage \in Percentages /\ sourceEvents \in Seq(SourceEvents)
      /\ PercentagesDiffer /\ onBattery \in BOOLEAN
  BY DEF EmptyInv, EmptyTyped, UPowerInv, SupplyTyped
<1>2. /\ upSignals \in Seq(UPowerSignals) /\ upSignals # <<>>
      /\ m \in UPowerSignals /\ display_device \in Devices
  BY <1>1, SignalHandled
<1>3. CASE m \notin DeviceSignals
  <2>1. m \notin EmptySignals /\ m \notin FullSignals
    BY <1>3 DEF EmptySignals, FullSignals, Sets
  <2>2. m.signal # "device"
    BY <1>2, <1>3, KindsOfSignals
  <2>3. /\ highest_seen_percentage' = highest_seen_percentage /\ criticalEvents' = criticalEvents
        /\ \/ sourceEvents' = sourceEvents
           \/ \E e \in SourceEvents : sourceEvents' = Append(sourceEvents, e)
    <3>1. CASE m.signal \in {"added", "removed"}
      BY <2>2, <3>1 DEF HandleUPowerSignal, trackedVars
    <3>2. CASE m.signal = "lid"
      BY <2>2, <3>2 DEF HandleUPowerSignal, trackedVars, change_upower, SourceEvents
    <3> QED BY <2>2, <3>1, <3>2 DEF HandleUPowerSignal
  <2>4. Range(sourceEvents) \subseteq Range(sourceEvents')
    <3>1. CASE sourceEvents' = sourceEvents
      BY <3>1
    <3>2. CASE \E e \in SourceEvents : sourceEvents' = Append(sourceEvents, e)
      <4>1. PICK e \in SourceEvents : sourceEvents' = Append(sourceEvents, e)
        BY <3>2
      <4>2. Range(Append(sourceEvents, e)) = Range(sourceEvents) \cup {e}
        BY <1>1, Appended
      <4> QED BY <4>1, <4>2
    <3> QED BY <2>3, <3>1, <3>2
  <2> QED BY <1>1, <2>1, <2>3, <2>4
<1>4. CASE m \in DeviceSignals
  <2> DEFINE d == display_device
             ch == m.changed
             new == Over(ch, d)
  <2>1. ch \in DeviceChanges /\ change_device(ch)
    <3>1. m.changed \in DeviceChanges /\ m.signal = "device"
      BY <1>2, <1>4, KindsOfSignals
    <3> QED BY <3>1 DEF HandleUPowerSignal
  <2>2. /\ new.is_present = IF "is_present" \in DOMAIN ch THEN ch.is_present ELSE d.is_present
        /\ new.percentage = IF "percentage" \in DOMAIN ch THEN ch.percentage ELSE d.percentage
        /\ new \in Devices
    BY <1>2, <2>1, DeviceUpdated
  <2>3. PICK critical \in IsCritical(new, HighestWith(new)) :
          /\ highest_seen_percentage' = IF critical THEN 0 ELSE HighestWith(new)
          /\ Tell(critical, IsSupplyChange(d, new))
    BY <2>1 DEF change_device, update_device
  <2>4. /\ Range(sourceEvents) \subseteq Range(sourceEvents')
        /\ critical => "critical" \in Range(sourceEvents')
    BY <1>1, <2>3, EventsTold
  <2>5. criticalEvents' = IF critical THEN criticalEvents + 1 ELSE criticalEvents
    BY <2>3 DEF Tell
  <2>6. critical <=> /\ PercentageSeen(new) /\ new.percentage = 0 /\ onBattery
                     /\ HighestWith(new) >= NonCriticalPercentage
    BY <2>3, <1>1 DEF IsCritical, is_using_battery_power
  <2>7. PercentageSeen(new) <=> new.is_present /\ d.percentage # new.percentage
    BY DEF PercentageSeen
  <2>8. HighestWith(new) = IF PercentageSeen(new) THEN higher(highest_seen_percentage, new.percentage)
                           ELSE highest_seen_percentage
    BY DEF HighestWith
  <2>9. m \in Sets("percentage") <=> "percentage" \in DOMAIN ch
    BY <1>4 DEF Sets
  <2>10. "percentage" \in DOMAIN ch => d.percentage # ch.percentage /\ new.is_present = d.is_present
    <3>1. SUFFICES ASSUME "percentage" \in DOMAIN ch
                   PROVE  d.percentage # ch.percentage /\ new.is_present = d.is_present
      OBVIOUS
    <3>2. "is_present" \notin DOMAIN ch
      BY <2>1, <3>1 DEF DeviceChanges
    <3>3. 1 \in DOMAIN upSignals /\ upSignals[1] = m
      BY <1>2, TakenByPlace
    <3>4. ~ValueAt(upSignals, d, "percentage", 1, ch["percentage"])
      BY <1>1, <2>9, <3>1, <3>3 DEF PercentagesDiffer
    <3>5. d["percentage"] # ch["percentage"]
      BY <1>2, <3>4, ValueNow
    <3> QED BY <2>2, <3>2, <3>5
  <2>11. /\ m \in EmptySignals <=> "percentage" \in DOMAIN ch /\ ch.percentage = 0
         /\ m \in FullSignals <=> "percentage" \in DOMAIN ch /\ ch.percentage >= NonCriticalPercentage
    BY <2>9 DEF EmptySignals, FullSignals
  <2>12. new.percentage \in Percentages /\ d.is_present \in BOOLEAN /\ new.is_present \in BOOLEAN
    BY <1>2, <2>2 DEF Devices
  <2>13. /\ \A x \in Percentages : x \in Nat
         /\ 0 \in Percentages /\ NonCriticalPercentage \in Nat /\ NonCriticalPercentage > 0
    BY PowerSourceAssumption
  <2> DEFINE h == highest_seen_percentage
             g == HighestWith(new)
             p == new.percentage
             has == "percentage" \in DOMAIN ch
             there == d.is_present = TRUE
             seen == PercentageSeen(new)
  <2>14. /\ has => p = ch.percentage /\ (seen <=> there)
         /\ ~has => ~seen
    BY <2>2, <2>7, <2>10, <2>12
  <2>15. g = IF seen THEN (IF h >= p THEN h ELSE p) ELSE h
    BY <2>8 DEF higher
  <2>16. h \in Nat /\ p \in Nat /\ h \in Percentages /\ p \in Percentages
    BY <1>1, <2>12, <2>13
  <2>17. there <=> display_device["is_present"] = TRUE
    OBVIOUS
  <2>18. m \in EmptySignals <=> has /\ p = 0
    BY <2>11, <2>14
  <2>19. m \in FullSignals <=> has /\ p >= NonCriticalPercentage
    BY <2>11, <2>14
  <2> HIDE DEF h, g, p, has, there, seen, new, d, ch
  <2>20. critical <=> seen /\ p = 0 /\ onBattery /\ g >= NonCriticalPercentage
    BY <2>6 DEF seen, p, g
  <2>21. highest_seen_percentage' = IF critical THEN 0 ELSE g
    BY <2>3 DEF g
  <2>22. highest_seen_percentage' \in Percentages
    BY <2>13, <2>15, <2>16, <2>21
  <2>23. ASSUME m \notin EmptySignals
         PROVE  /\ ~critical
                /\ g >= NonCriticalPercentage <=> h >= NonCriticalPercentage \/ (m \in FullSignals /\ there)
    <3>1. ~critical
      BY <2>14, <2>18, <2>20, <2>23
    <3>2. CASE seen
      <4>1. has /\ there /\ (m \in FullSignals <=> p >= NonCriticalPercentage)
        BY <2>14, <2>19, <3>2
      <4>2. NonCriticalPercentage \in Nat /\ g = IF h >= p THEN h ELSE p
        BY <2>13, <2>15, <3>2
      <4>3. g >= NonCriticalPercentage <=> h >= NonCriticalPercentage \/ p >= NonCriticalPercentage
        BY <2>16, <4>2
      <4> QED BY <3>1, <4>1, <4>3
    <3>3. CASE ~seen
      <4>1. ~(m \in FullSignals /\ there) /\ g = h
        BY <2>14, <2>15, <2>19, <3>3
      <4> QED BY <3>1, <4>1
    <3> QED BY <3>1, <3>2, <3>3
  <2>24. ASSUME m \in EmptySignals
         PROVE  /\ g = h /\ (seen <=> there)
                /\ critical <=> there /\ onBattery /\ h >= NonCriticalPercentage
    <3>1. has /\ p = 0 /\ (seen <=> there)
      BY <2>14, <2>18, <2>24
    <3>2. g = h
      BY <2>15, <2>16, <3>1
    <3> QED BY <2>20, <3>1, <3>2
  <2>25. ASSUME m \notin EmptySignals
         PROVE  /\ criticalEvents' = criticalEvents
                /\ highest_seen_percentage' >= NonCriticalPercentage <=>
                     \/ highest_seen_percentage >= NonCriticalPercentage
                     \/ m \in FullSignals /\ display_device["is_present"] = TRUE
    BY <2>5, <2>17, <2>21, <2>23, <2>25 DEF h
  <2>26. ASSUME m \in EmptySignals, critical
         PROVE  /\ criticalEvents' = criticalEvents + 1 /\ highest_seen_percentage' = 0
                /\ highest_seen_percentage >= NonCriticalPercentage
                /\ "critical" \in Range(sourceEvents')
    BY <2>4, <2>5, <2>21, <2>24, <2>26 DEF h
  <2>27. ASSUME m \in EmptySignals, ~critical
         PROVE  /\ criticalEvents' = criticalEvents
                /\ highest_seen_percentage' = highest_seen_percentage
                /\ ~(/\ onBattery /\ display_device["is_present"] = TRUE
                     /\ highest_seen_percentage >= NonCriticalPercentage)
    BY <2>5, <2>17, <2>21, <2>24, <2>27 DEF h
  <2> QED BY <2>4, <2>5, <2>22, <2>25, <2>26, <2>27
<1> QED BY <1>3, <1>4

\* The percentages that will have been seen after it.
LEMMA ArmedHandled ==
  ASSUME UPowerAnswers, ~othersSignalled', EmptyInv, HandleUPowerSignal, NEW m, m = Head(upSignals), NEW k \in Nat \ {0}
  PROVE  /\ ArmedAt(k + 1) => ArmedAt(k)'
         /\ PresentAt(k)' <=> PresentAt(k + 1)
         /\ ArmedAt(k)' /\ ~ArmedAt(k + 1) =>
              /\ m \in EmptySignals /\ criticalEvents' = criticalEvents
              /\ highest_seen_percentage >= NonCriticalPercentage
              /\ NoneBetween(upSignals', EmptySignals, 0, k)
         /\ \A v : ValueAt(upSignals', display_device', "percentage", k, v)
                     <=> ValueAt(upSignals, display_device, "percentage", k + 1, v)
<1>1. UPowerInv
  BY DEF EmptyInv
<1>2. /\ upSignals \in Seq(UPowerSignals) /\ upSignals # <<>> /\ upSignals' = Tail(upSignals)
      /\ m \in UPowerSignals /\ display_device \in Devices
  BY <1>1, SignalHandled
<1>3. \A f \in Fields :
        display_device'[f] = IF m \in Sets(f) THEN m.changed[f] ELSE display_device[f]
  BY <1>1, HandledFields
<1> DEFINE q == upSignals
           d == display_device
           e == display_device'
           h == highest_seen_percentage
           g == highest_seen_percentage'
<1>4. \A v : /\ ValueAt(Tail(q), e, "percentage", k, v) <=> ValueAt(q, d, "percentage", k + 1, v)
             /\ ValueAt(Tail(q), e, "is_present", k, v) <=> ValueAt(q, d, "is_present", k + 1, v)
  <2>1. "percentage" \in Fields /\ "is_present" \in Fields
    BY DEF Fields
  <2> HIDE DEF q, d, e
  <2>2. q \in Seq(UPowerSignals) /\ q # <<>> /\ m = Head(q)
        /\ \A f \in Fields : e[f] = IF m \in Sets(f) THEN m.changed[f] ELSE d[f]
    BY <1>2, <1>3 DEF q, d, e
  <2> QED BY <2>1, <2>2, ValueTaken
<1>5. /\ m \notin EmptySignals
           /\ (g >= NonCriticalPercentage <=>
                 h >= NonCriticalPercentage \/ (m \in FullSignals /\ d["is_present"] = TRUE)) =>
              (Armed(Tail(q), e, g, k) <=> Armed(q, d, h, k + 1))
      /\ m \in EmptySignals =>
           (Armed(Tail(q), e, g, k) <=>
              \/ Armed(q, d, h, k + 1)
              \/ NoneBetween(Tail(q), EmptySignals, 0, k) /\ g >= NonCriticalPercentage)
  <2>1. "is_present" \in Fields
    BY DEF Fields
  <2> HIDE DEF q, d, e, h, g
  <2>2. q \in Seq(UPowerSignals) /\ q # <<>> /\ m = Head(q)
        /\ e["is_present"] = IF m \in Sets("is_present") THEN m.changed["is_present"] ELSE d["is_present"]
    BY <1>2, <1>3, <2>1 DEF q, d, e
  <2>3. e["is_present"] = IF Head(q) \in Sets("is_present") THEN Head(q).changed["is_present"] ELSE d["is_present"]
    BY <2>2
  <2>4. /\ Head(q) \notin EmptySignals
              /\ (g >= NonCriticalPercentage <=>
                    h >= NonCriticalPercentage \/ (Head(q) \in FullSignals /\ d["is_present"] = TRUE)) =>
                 (Armed(Tail(q), e, g, k) <=> Armed(q, d, h, k + 1))
        /\ Head(q) \in EmptySignals =>
              (Armed(Tail(q), e, g, k) <=>
                 \/ Armed(q, d, h, k + 1)
                 \/ NoneBetween(Tail(q), EmptySignals, 0, k) /\ g >= NonCriticalPercentage)
    BY <2>2, <2>3, ArmedTaken
  <2> QED BY <2>2, <2>4
<1>6. /\ ArmedAt(k)' <=> Armed(Tail(q), e, g, k)
      /\ ArmedAt(k + 1) <=> Armed(q, d, h, k + 1)
      /\ PresentAt(k)' <=> ValueAt(Tail(q), e, "is_present", k, TRUE)
      /\ PresentAt(k + 1) <=> ValueAt(q, d, "is_present", k + 1, TRUE)
  BY <1>2 DEF ArmedAt, PresentAt
<1>7. ~(0 >= NonCriticalPercentage)
  BY PowerSourceAssumption
<1> DEFINE a == ArmedAt(k + 1)
           b == ArmedAt(k)'
           none == NoneBetween(upSignals', EmptySignals, 0, k)
           same == criticalEvents' = criticalEvents
           was == h >= NonCriticalPercentage
           is == g >= NonCriticalPercentage
           fills == m \in FullSignals /\ d["is_present"] = TRUE
<1>8. /\ m \notin EmptySignals /\ (is <=> was \/ fills) => (b <=> a)
      /\ m \in EmptySignals => (b <=> a \/ (none /\ is))
  BY <1>2, <1>5, <1>6
<1>9. /\ m \notin EmptySignals => (is <=> was \/ fills)
      /\ m \in EmptySignals => ~is \/ (same /\ (is <=> was))
  <2>1. m \notin EmptySignals => (is <=> was \/ fills)
    BY HandledHighest
  <2>2. m \in EmptySignals => g = 0 \/ (same /\ g = h)
    BY HandledHighest
  <2> QED BY <1>7, <2>1, <2>2
<1>10. PresentAt(k)' <=> PresentAt(k + 1)
  <2>1. ValueAt(Tail(q), e, "is_present", k, TRUE) <=> ValueAt(q, d, "is_present", k + 1, TRUE)
    BY <1>4
  <2> QED BY <1>6, <2>1
<1>11. ASSUME NEW v
       PROVE  ValueAt(upSignals', display_device', "percentage", k, v)
                <=> ValueAt(upSignals, display_device, "percentage", k + 1, v)
  <2>1. ValueAt(Tail(q), e, "percentage", k, v) <=> ValueAt(q, d, "percentage", k + 1, v)
    BY <1>4
  <2> QED BY <1>2, <2>1
<1>12. (a => b) /\ (b /\ ~a => m \in EmptySignals /\ same /\ was /\ none)
  <2> HIDE DEF a, b, none, same, was, is, fills
  <2> QED BY <1>8, <1>9
<1> QED BY <1>10, <1>11, <1>12

\* What waited to be told is told, or was seen too early to be, or waits on.
LEMMA HandledCovers ==
  ASSUME UPowerAnswers, ~othersSignalled', EmptyInv, HandleUPowerSignal
  PROVE  DipsCover'
<1> DEFINE A == Waiting'
           B == Waiting
           m == Head(upSignals)
<1>1. UPowerInv /\ DipsCover /\ criticalEvents \in Nat /\ dips \in Nat
  BY DEF EmptyInv, EmptyTyped
<1>2. /\ upSignals \in Seq(UPowerSignals) /\ upSignals # <<>> /\ upSignals' = Tail(upSignals)
      /\ UNCHANGED <<dips, seenNonCritical>>
  BY <1>1, SignalHandled DEF HandleUPowerSignal, dipVars
<1>3. /\ 1 \in DOMAIN upSignals /\ m = upSignals[1] /\ upSignals' \in Seq(UPowerSignals)
      /\ \A k \in DOMAIN upSignals' : /\ k \in Nat \ {0} /\ k + 1 \in DOMAIN upSignals
                                      /\ upSignals'[k] = upSignals[k + 1]
  BY <1>2, TakenByPlace
<1>4. /\ AfterLast' \in Nat \ {0} /\ AfterLast = AfterLast' + 1
      /\ \A k \in DOMAIN upSignals' : k < AfterLast'
  BY <1>2 DEF AfterLast
<1>5. /\ IsFiniteSet(B) /\ Cardinality(B) \in Nat /\ IsFiniteSet(A) /\ Cardinality(A) \in Nat
  BY <1>2, <1>3, DipsAreFinite DEF Waiting
<1>6. \A k : k \in B <=> k \in DOMAIN upSignals /\ upSignals[k] \in EmptySignals /\ ArmedAt(k)
  BY DEF Waiting, Dips, ArmedAt
<1>7. ASSUME NEW k
      PROVE  k \in A <=> k \in DOMAIN upSignals' /\ upSignals'[k] \in EmptySignals /\ ArmedAt(k)'
  BY DEF Waiting, Dips, ArmedAt
<1>8. ASSUME NEW k \in Nat \ {0}
      PROVE  /\ ArmedAt(k + 1) => ArmedAt(k)'
             /\ ArmedAt(k)' /\ ~ArmedAt(k + 1) =>
                  /\ m \in EmptySignals /\ criticalEvents' = criticalEvents
                  /\ highest_seen_percentage >= NonCriticalPercentage
                  /\ NoneBetween(upSignals', EmptySignals, 0, k)
  BY ArmedHandled
<1>9. m \in EmptySignals /\ highest_seen_percentage >= NonCriticalPercentage => 1 \in B
  <2>1. NoneBetween(upSignals, EmptySignals, 0, 1)
    BY <1>2 DEF NoneBetween
  <2> QED BY <1>3, <1>6, <2>1 DEF ArmedAt, Armed
<1>10. A \subseteq Nat \ {0}
  BY <1>3, <1>7
<1>11. ASSUME NEW k \in A, k + 1 \notin B
       PROVE  /\ m \in EmptySignals /\ criticalEvents' = criticalEvents /\ 1 \in B
              /\ NoneBetween(upSignals', EmptySignals, 0, k)
  <2>1. k \in DOMAIN upSignals' /\ upSignals'[k] \in EmptySignals /\ ArmedAt(k)'
    BY <1>7
  <2>2. k \in Nat \ {0} /\ ~ArmedAt(k + 1)
    BY <1>3, <1>6, <1>11, <2>1
  <2> QED BY <1>8, <1>9, <2>1, <2>2
<1>12. ASSUME NEW k \in A, NEW n \in A, k + 1 \notin B, n + 1 \notin B PROVE k = n
  <2>1. /\ k \in DOMAIN upSignals' /\ upSignals'[k] \in EmptySignals
        /\ n \in DOMAIN upSignals' /\ upSignals'[n] \in EmptySignals
    BY <1>7
  <2>2. NoneBetween(upSignals', EmptySignals, 0, k) /\ NoneBetween(upSignals', EmptySignals, 0, n)
    BY <1>11, <1>12
  <2>3. ~(k < n) /\ ~(n < k) /\ k \in Nat /\ n \in Nat
    BY <1>3, <2>1, <2>2 DEF NoneBetween
  <2> QED BY <2>3
<1> HIDE DEF A, B, m
<1>13. Cardinality(A) <= Cardinality(B)
  <2>1. CASE \A k \in A : k + 1 \in B
    BY <1>5, <1>10, <2>1, ShiftedAreNotMore
  <2>2. CASE ~(\A k \in A : k + 1 \in B)
    <3>1. 1 \in B
      BY <1>11, <2>2
    <3> QED BY <1>5, <1>10, <1>12, <3>1, ShiftedAreNotMore
  <2> QED BY <2>1, <2>2
<1>14. criticalEvents' = criticalEvents \/ (criticalEvents' = criticalEvents + 1 /\ 1 \in B)
  <2>1. CASE m \in EmptySignals
    BY <1>9, <2>1, HandledHighest DEF m
  <2>2. CASE m \notin EmptySignals
    BY <2>2, HandledHighest DEF m
  <2> QED BY <2>1, <2>2
<1>15. criticalEvents' + Cardinality(A) <= criticalEvents + Cardinality(B)
  <2>1. CASE criticalEvents' = criticalEvents
    BY <1>1, <1>5, <1>13, <2>1
  <2>2. CASE criticalEvents' = criticalEvents + 1 /\ 1 \in B
    <3>1. \A k \in A : k + 1 \in B
      BY <1>1, <1>11, <2>2
    <3> DEFINE C == B \ {1}
    <3>2. IsFiniteSet(C) /\ Cardinality(C) = Cardinality(B) - 1
      BY <1>5, <2>2, FS_RemoveElement
    <3>3. \A k \in A : k + 1 \in C
      BY <1>10, <3>1
    <3> HIDE DEF C
    <3>4. Cardinality(A) <= Cardinality(C)
      BY <1>10, <3>2, <3>3, ShiftedAreNotMore
    <3> QED BY <1>1, <1>5, <2>2, <3>2, <3>4
  <2> QED BY <1>14, <2>1, <2>2
<1>16. ASSUME ArmedAt(AfterLast)', ~seenNonCritical
       PROVE  criticalEvents' + Cardinality(A) + 1 <= dips
  <2>1. CASE ArmedAt(AfterLast)
    <3>1. criticalEvents + Cardinality(B) + 1 <= dips
      BY <1>1, <1>16, <2>1 DEF DipsCover, B
    <3>2. criticalEvents' \in Nat
      BY <1>1, <1>14
    <3> QED BY <1>1, <1>5, <1>15, <3>1, <3>2
  <2>2. CASE ~ArmedAt(AfterLast)
    <3>0. PICK k \in Nat \ {0} : k = AfterLast'
      BY <1>4
    <3>1. ArmedAt(k)' /\ ~ArmedAt(k + 1)
      BY <1>4, <1>16, <2>2, <3>0 DEF ArmedAt
    <3>2. /\ m \in EmptySignals /\ criticalEvents' = criticalEvents
          /\ highest_seen_percentage >= NonCriticalPercentage
          /\ NoneBetween(upSignals', EmptySignals, 0, k)
      BY <1>8, <3>1
    <3>3. 1 \in B
      BY <1>9, <3>2
    <3>4. A = {}
      BY <1>3, <1>4, <1>7, <3>0, <3>2 DEF NoneBetween, A
    <3>5. Cardinality(A) = 0 /\ Cardinality(B) # 0
      BY <1>5, <3>3, <3>4, FS_EmptySet
    <3>6. criticalEvents + Cardinality(B) <= dips
      BY <1>1 DEF DipsCover, B
    <3> QED BY <1>1, <1>5, <3>2, <3>5, <3>6
  <2> QED BY <2>1, <2>2
<1>17. criticalEvents + Cardinality(B) <= dips /\ criticalEvents' \in Nat
  BY <1>1, <1>14 DEF DipsCover, B
<1>18. criticalEvents' + Cardinality(A) <= dips
  BY <1>1, <1>5, <1>15, <1>17
<1> QED BY <1>2, <1>16, <1>18 DEF DipsCover, A

\* A signal is handled: a dip that waited is told, or none was.
LEMMA HandledKeepsEmpty ==
  ASSUME UPowerAnswers, ~othersSignalled', EmptyInv, HandleUPowerSignal
  PROVE  EmptyInv'
<1> DEFINE m == Head(upSignals)
<1>1. UPowerInv /\ UPowerInv' /\ EmptyTyped /\ onBattery \in BOOLEAN
  BY NextUPowerInv DEF EmptyInv, PowerSourceNext, UPowerInv, SupplyTyped
<1>2. /\ upSignals \in Seq(UPowerSignals) /\ upSignals # <<>> /\ upSignals' = Tail(upSignals)
      /\ UNCHANGED <<dips, seenNonCritical, emptied, upPhase, onBattery>> /\ upPhase = "started"
  BY <1>1, SignalHandled DEF HandleUPowerSignal, dipVars, upowerVars
<1>3. /\ 1 \in DOMAIN upSignals /\ m = upSignals[1]
      /\ \A k \in DOMAIN upSignals' : /\ k \in Nat \ {0} /\ k + 1 \in DOMAIN upSignals
                                      /\ upSignals'[k] = upSignals[k + 1]
      /\ \A k \in DOMAIN upSignals : /\ k \in Nat \ {0}
                                     /\ k # 1 => k - 1 \in DOMAIN upSignals' /\ upSignals'[k - 1] = upSignals[k]
  BY <1>2, TakenByPlace
<1>4. EmptyTyped'
  <2>1. /\ highest_seen_percentage' \in Percentages
        /\ criticalEvents' = criticalEvents \/ criticalEvents' = criticalEvents + 1
    BY HandledHighest
  <2> QED BY <1>1, <1>2, <2>1 DEF EmptyTyped
<1>5. ASSUME NEW k \in Nat \ {0}
      PROVE  /\ ArmedAt(k + 1) => ArmedAt(k)'
             /\ PresentAt(k)' <=> PresentAt(k + 1)
             /\ \A v : ValueAt(upSignals', display_device', "percentage", k, v)
                         <=> ValueAt(upSignals, display_device, "percentage", k + 1, v)
  BY ArmedHandled
<1>6. PercentagesDiffer'
  BY <1>3, <1>5 DEF EmptyInv, PercentagesDiffer
<1>7. SeenIsArmed'
  <2>1. PICK k \in Nat \ {0} : k = AfterLast' /\ k + 1 = AfterLast
    BY <1>2 DEF AfterLast
  <2>2. ArmedAt(AfterLast) => ArmedAt(AfterLast)'
    BY <1>5, <2>1 DEF ArmedAt
  <2> QED BY <1>2, <2>2 DEF EmptyInv, SeenIsArmed
<1>8. UntoldWaits'
  <2>1. SUFFICES ASSUME emptied = "untold"
                 PROVE  \/ "critical" \in Range(sourceEvents')
                        \/ onBattery /\ \E k \in Waiting' : PresentAt(k)'
    BY <1>2 DEF UntoldWaits
  <2>2. CASE "critical" \in Range(sourceEvents)
    BY <2>2, HandledHighest
  <2>3. CASE "critical" \notin Range(sourceEvents)
    <3>1. PICK k \in Waiting : onBattery /\ PresentAt(k)
      BY <2>1, <2>3 DEF EmptyInv, UntoldWaits
    <3>2. k \in DOMAIN upSignals /\ upSignals[k] \in EmptySignals /\ ArmedAt(k)
      BY DEF Waiting, Dips, ArmedAt
    <3>3. CASE k = 1
      <4>1. m \in EmptySignals
        BY <1>3, <3>2, <3>3
      <4>2. highest_seen_percentage >= NonCriticalPercentage
        <5>1. \A j \in DOMAIN upSignals : ~(j < 1)
          BY <1>3
        <5> QED BY <3>2, <3>3, <5>1 DEF ArmedAt, Armed
      <4>3. display_device["is_present"] = TRUE
        BY <1>2, <3>1, <3>3, ValueNow DEF PresentAt
      <4> QED BY <3>1, <4>1, <4>2, <4>3, HandledHighest
    <3>4. CASE k # 1
      <4>0. PICK n : n = k - 1
        OBVIOUS
      <4>1. n \in Nat \ {0} /\ n + 1 = k /\ n \in DOMAIN upSignals' /\ upSignals'[n] = upSignals[k]
        BY <1>3, <3>2, <3>4, <4>0
      <4>2. ArmedAt(n)' /\ PresentAt(n)'
        BY <1>5, <3>1, <3>2, <4>1
      <4>3. n \in Waiting'
        BY <3>2, <4>1, <4>2 DEF Waiting, Dips, ArmedAt
      <4> QED BY <3>1, <4>2, <4>3
    <3> QED BY <3>3, <3>4
  <2> QED BY <2>2, <2>3
<1>9. NothingBeforeStart'
  BY <1>2 DEF NothingBeforeStart
<1> QED BY <1>1, <1>4, <1>6, <1>7, <1>8, <1>9, HandledCovers DEF EmptyInv

\* Each step, of UPower, of the service and of the daemon.
LEMMA NextEmptyInv ==
  ASSUME UPowerAnswers, ~othersSignalled', EmptyInv, [PowerSourceNext]_sourceVars
  PROVE  EmptyInv'
<1>1. UPowerInv'
  BY NextUPowerInv DEF EmptyInv
<1>2. CASE UNCHANGED <<upSignals, display_device, highest_seen_percentage, criticalEvents, dips,
                       seenNonCritical, onBattery, emptied, sourceEvents>> /\ (upPhase' = "started" <=> upPhase = "started")
  BY <1>1, <1>2 DEF EmptyInv, EmptyTyped, NothingBeforeStart, PercentagesDiffer, DipsCover, SeenIsArmed,
     UntoldWaits, Waiting, ArmedAt, PresentAt, AfterLast
<1>3. CASE SubscribeToUPower
  BY <1>2, <1>3 DEF SubscribeToUPower, upowerVars, trackedVars, dipVars
<1>4. CASE MachineStarts \/ MachinePausesOrResumes
  BY <1>2, <1>4 DEF MachineStarts, MachinePausesOrResumes, upowerVars, trackedVars, dipVars
<1>5. CASE UNCHANGED sourceVars
  BY <1>2, <1>5 DEF sourceVars, upowerVars, trackedVars, dipVars
<1>6. CASE DaemonTakesSourceEvent
  <2>1. /\ sourceEvents \in Seq(SourceEvents) /\ sourceEvents # <<>> /\ sourceEvents' = Tail(sourceEvents)
        /\ UNCHANGED <<upSignals, display_device, highest_seen_percentage, criticalEvents, dips,
                       seenNonCritical, onBattery, upPhase>>
    BY <1>6 DEF DaemonTakesSourceEvent, EmptyInv, UPowerInv, SupplyTyped, upowerVars, trackedVars, dipVars
  <2>2. Range(sourceEvents) = Range(sourceEvents') \cup {Head(sourceEvents)}
    BY <2>1, Taken
  <2>3. \/ emptied' = emptied /\ Head(sourceEvents) # "critical"
        \/ emptied' = (IF emptied = "untold" THEN "told" ELSE emptied)
    BY <1>6 DEF DaemonTakesSourceEvent
  <2>4. emptied' = "untold" => emptied = "untold" /\ Head(sourceEvents) # "critical"
    BY <2>3
  <2>5. upPhase # "started" => emptied' = "no"
    BY <2>3 DEF EmptyInv, NothingBeforeStart
  <2>6. UntoldWaits'
    BY <2>1, <2>2, <2>4 DEF EmptyInv, UntoldWaits, Waiting, PresentAt
  <2> QED BY <1>1, <2>1, <2>5, <2>6 DEF EmptyInv, EmptyTyped, NothingBeforeStart, PercentagesDiffer, DipsCover,
     SeenIsArmed, Waiting, ArmedAt, AfterLast
<1> QED
  BY <1>3, <1>4, <1>5, <1>6, UPowerKeepsEmpty, AskedKeepsEmpty, HandledKeepsEmpty
  DEF PowerSourceNext, OtherDeviceChanges

\* What another device has signalled is not taken back.
LEMMA OthersStaySignalled ==
  ASSUME othersSignalled, [PowerSourceNext]_sourceVars
  PROVE  othersSignalled'
BY DEF PowerSourceNext, sourceVars, dipVars, PercentageChanges, PlugOrUnplug, ChargeStateChanges,
   BatteryComesOrGoes, DeviceTypeChanges, OtherDeviceChanges, LidMoves, DeviceAddedOrRemoved, SubscribeToUPower,
   add_display_device_and_batteries, HandleUPowerSignal, MachineStarts, MachinePausesOrResumes,
   DaemonTakesSourceEvent

\* If UPower answers: a battery that empties, once it was seen not to be
\* critical, is told to the daemon, and no dip is told twice, as long as no
\* device but the display device signals a change.
THEOREM EmptyBatteryCorrect ==
  ASSUME UPowerAnswers
  PROVE  PowerSourceSpec => []EmptyBatteryIsKnown
<1>1. EmptyInv => EmptyBatteryIsKnown
  <2> SUFFICES ASSUME EmptyInv PROVE EmptyBatteryIsTold /\ EmptyBatteryIsToldOnce
    BY DEF EmptyBatteryIsKnown
  <2>1. EmptyBatteryIsToldOnce
    <3>1. Cardinality(Waiting) \in Nat
      BY DipsAreFinite DEF Waiting, EmptyInv, UPowerInv, SupplyTyped
    <3> QED BY <3>1 DEF EmptyInv, EmptyTyped, DipsCover, EmptyBatteryIsToldOnce
  <2>2. ASSUME UPowerQuiet PROVE emptied # "untold"
    <3>1. Range(sourceEvents) = {} /\ DOMAIN upSignals = {}
      BY <2>2, EmptyQueue DEF UPowerQuiet
    <3>2. Waiting = {}
      BY <3>1 DEF Waiting, Dips
    <3> QED BY <3>1, <3>2 DEF EmptyInv, UntoldWaits
  <2> QED BY <2>1, <2>2 DEF EmptyBatteryIsTold
<1>2. (othersSignalled \/ EmptyInv) /\ [PowerSourceNext]_sourceVars => (othersSignalled \/ EmptyInv)'
  BY OthersStaySignalled, NextEmptyInv
<1>3. othersSignalled \/ EmptyInv => EmptyBatteryIsKnown
  BY <1>1 DEF EmptyBatteryIsKnown
<1> QED BY <1>2, <1>3, InitEmptyInv, PTL DEF PowerSourceSpec

-----------------------------------------------------------------------------
(* The supply.                                                             *)
(*                                                                         *)
(* A machine that is wrong about the supply, though it has missed nothing, *)
(* will be told: the change is queued, or a signal waits that will be one  *)
(* when it is reached, or a battery has yet to come.                       *)

\* A change of the state that the service tells of, if there is a battery.
Told(a, b) == a # b /\ (b = "discharging" \/ (a = "discharging" /\ b \in PluggedStates))

\* The signal at a place will be one when it is reached.
ToldAt(k) ==
  /\ upSignals[k] \in Sets("state")
  /\ \E a : ValueAt(upSignals, display_device, "state", k, a) /\ Told(a, upSignals[k].changed["state"])

MachineWillBeTold ==
  machinePhase # "none" =>
    /\ upPhase = "started"
    /\ \/ supplyMissed
       \/ is_on_battery = onBattery
       \/ "change" \in Range(sourceEvents)
       \/ ~display_device.is_present
       \/ \E k \in DOMAIN upSignals : ToldAt(k)

SupplyInv == ~othersSignalled /\ UPowerInv /\ MachineWillBeTold

\* What waits to be told waits on behind it.
LEMMA ToldAppended ==
  ASSUME upSignals \in Seq(UPowerSignals), NEW m \in UPowerSignals, UNCHANGED display_device,
         upSignals' = Append(upSignals, m)
  PROVE  /\ \A k \in DOMAIN upSignals : k \in DOMAIN upSignals' /\ (ToldAt(k) => ToldAt(k)')
         /\ AfterLast \in DOMAIN upSignals' /\ upSignals'[AfterLast] = m
         /\ \A a : ValueAt(upSignals, display_device, "state", AfterLast, a) =>
                     ValueAt(upSignals', display_device', "state", AfterLast, a)
<1> DEFINE q == upSignals
           t == Append(q, m)
           d == display_device
<1>1. /\ Len(q) + 1 \in Nat /\ DOMAIN t = DOMAIN q \cup {Len(q) + 1} /\ t[Len(q) + 1] = m
      /\ \A i \in DOMAIN q : i \in Nat /\ i <= Len(q) + 1 /\ t[i] = q[i]
  BY AppendedByPlace
<1>2. \A k \in Nat : k <= Len(q) + 1 =>
        \A a : ValueAt(t, d, "state", k, a) <=> ValueAt(q, d, "state", k, a)
  BY ValueAppended
<1>3. t = upSignals' /\ d = display_device'
  OBVIOUS
<1>4. AfterLast = Len(q) + 1
  BY DEF AfterLast
<1> HIDE DEF t, d
<1>5. ASSUME NEW k \in DOMAIN q, ToldAt(k) PROVE ToldAt(k)'
  <2>1. q[k] \in Sets("state") /\ t[k] = q[k] /\ k \in Nat /\ k <= Len(q) + 1
    BY <1>1, <1>5 DEF ToldAt
  <2>2. PICK a : ValueAt(q, d, "state", k, a) /\ Told(a, q[k].changed["state"])
    BY <1>5 DEF ToldAt, d
  <2>3. ValueAt(t, d, "state", k, a) /\ Told(a, t[k].changed["state"])
    BY <1>2, <2>1, <2>2
  <2> QED BY <1>3, <2>1, <2>3 DEF ToldAt, Told
<1> QED BY <1>1, <1>2, <1>3, <1>4, <1>5

\* Signals that do not go with the plug change nothing of this.
LEMMA SignalledIsAsBefore ==
  ASSUME SupplyInv, NEW m \in UPowerSignals, SentByUPower(m), UNCHANGED <<onBattery, supplyMissed>>
  PROVE  MachineWillBeTold'
<1>1. /\ upSignals \in Seq(UPowerSignals)
      /\ upSignals' = upSignals \/ upSignals' = Append(upSignals, m)
      /\ UNCHANGED <<upPhase, display_device, sourceEvents, machinePhase, is_on_battery>>
  BY DEF SupplyInv, UPowerInv, SupplyTyped, SentByUPower, trackedVars
<1>2. (\E k \in DOMAIN upSignals : ToldAt(k)) => (\E k \in DOMAIN upSignals' : ToldAt(k)')
  <2>1. CASE upSignals' = upSignals
    BY <1>1, <2>1 DEF ToldAt, Told
  <2>2. CASE upSignals' = Append(upSignals, m)
    BY <1>1, <2>2, ToldAppended
  <2> QED BY <1>1, <2>1, <2>2
<1> QED BY <1>1, <1>2 DEF SupplyInv, MachineWillBeTold

\* The plug: the signal that goes with it will be told, or the machine has
\* missed it.
LEMMA PluggedIsTold ==
  ASSUME SupplyInv, PlugOrUnplug
  PROVE  MachineWillBeTold'
<1>1. PICK s \in StatesFor(onBattery') :
        /\ DeviceChange([state |-> s])
        /\ supplyMissed' =
             (supplyMissed \/ (machinePhase # "none" /\ "discharging" \notin {s, upDevice.state}))
  BY DEF PlugOrUnplug
<1>2. UNCHANGED <<upPhase, display_device, machinePhase>> /\ onBattery' = ~onBattery
  BY <1>1 DEF PlugOrUnplug, DeviceChange, SentByUPower, trackedVars
<1> SUFFICES ASSUME machinePhase # "none", ~supplyMissed'
             PROVE  \E k \in DOMAIN upSignals' : ToldAt(k)'
  BY <1>2 DEF MachineWillBeTold, SupplyInv
<1> DEFINE m == [signal |-> "device", changed |-> [state |-> s]]
<1>3. /\ upPhase = "started" /\ upSignals \in Seq(UPowerSignals) /\ onBattery \in BOOLEAN
      /\ upDevice.state \in StatesFor(onBattery)
  BY DEF SupplyInv, UPowerInv, SupplyTyped, MachineWillBeTold
<1>4. upSignals' = Append(upSignals, m)
  BY <1>1, <1>3 DEF DeviceChange, SentByUPower
<1>5. [state |-> s] \in DeviceChanges /\ DOMAIN [state |-> s] = {"state"} /\ [state |-> s].state = s
  BY DEF DeviceChanges, StatesFor, States
<1>6. m \in Sets("state") /\ m \in UPowerSignals /\ m.changed["state"] = s
  BY <1>5 DEF Sets, UPowerSignals, DeviceSignals
<1> HIDE DEF m
<1>7. s = "discharging" \/ upDevice.state = "discharging"
  BY <1>1
<1>8. Told(upDevice.state, s)
  <2>1. CASE onBattery
    BY <1>2, <1>3, <1>7, <2>1, PowerSourceAssumption DEF StatesFor, Told
  <2>2. CASE ~onBattery
    BY <1>2, <1>3, <1>7, <2>2, PowerSourceAssumption DEF StatesFor, Told
  <2> QED BY <2>1, <2>2
<1>9. ValueAt(upSignals, display_device, "state", AfterLast, upDevice.state)
  BY <1>3, LastIsUPowers DEF SupplyInv, Fields
<1>10. PICK n : n = AfterLast
  OBVIOUS
<1>11. n \in DOMAIN upSignals' /\ upSignals'[n] = m
       /\ ValueAt(upSignals', display_device', "state", n, upDevice.state)
  BY <1>2, <1>3, <1>4, <1>6, <1>9, <1>10, ToldAppended
<1>12. ToldAt(n)'
  BY <1>6, <1>8, <1>11 DEF ToldAt, Told
<1> QED BY <1>11, <1>12

\* A signal is handled: a change that waited is told, or waits on.
LEMMA HandledIsTold ==
  ASSUME SupplyInv, HandleUPowerSignal
  PROVE  MachineWillBeTold'
<1> DEFINE m == Head(upSignals)
<1>1. /\ upSignals \in Seq(UPowerSignals) /\ upSignals # <<>> /\ upSignals' = Tail(upSignals)
      /\ m \in UPowerSignals /\ upPhase = "started" /\ display_device \in Devices
      /\ UNCHANGED <<upDevice, onBattery, upBatteries, upPhase, machinePhase, is_on_battery>>
      /\ \/ /\ m \in DeviceSignals /\ change_device(m.changed) /\ UNCHANGED batteries
            /\ display_device' = Over(m.changed, display_device)
         \/ /\ m \in BatterySignals /\ add_or_remove_device(m)
            /\ UNCHANGED <<display_device, sourceEvents>>
         \/ m \in LidSignals /\ change_upower(m.changed) /\ UNCHANGED <<display_device, batteries>>
  BY SignalHandled DEF SupplyInv
<1>2. \A f \in Fields : display_device'[f] = IF m \in Sets(f) THEN m.changed[f] ELSE display_device[f]
  BY HandledFields DEF SupplyInv
<1>3. /\ 1 \in DOMAIN upSignals /\ m = upSignals[1]
      /\ \A k \in DOMAIN upSignals : k # 1 => /\ k - 1 \in Nat \ {0} /\ (k - 1) + 1 = k
                                              /\ k - 1 \in DOMAIN upSignals'
                                              /\ upSignals'[k - 1] = upSignals[k]
  BY <1>1, TakenByPlace
<1> HIDE DEF m
<1>4. UNCHANGED supplyMissed /\ sourceEvents \in Seq(SourceEvents)
  BY DEF HandleUPowerSignal, machineSupplyVars, SupplyInv, UPowerInv, SupplyTyped
<1>5. Range(sourceEvents) \subseteq Range(sourceEvents')
  <2>1. CASE change_device(m.changed)
    <3>1. PICK critical, change : Tell(critical, change)
      BY <2>1 DEF change_device
    <3> QED BY <1>4, <3>1, EventsTold
  <2>2. CASE change_upower(m.changed)
    <3>1. PICK e \in SourceEvents : sourceEvents' = Append(sourceEvents, e)
      BY <2>2 DEF change_upower, SourceEvents
    <3> QED BY <1>4, <3>1, Appended
  <2> QED BY <1>1, <2>1, <2>2
<1> SUFFICES ASSUME machinePhase # "none", ~supplyMissed, is_on_battery # onBattery,
                    "change" \notin Range(sourceEvents'), display_device'.is_present
             PROVE  \E k \in DOMAIN upSignals' : ToldAt(k)'
  BY <1>1, <1>4 DEF MachineWillBeTold
<1>6. ASSUME m \in DeviceSignals
      PROVE  /\ display_device.is_present
             /\ m \in Sets("state") => ~Told(display_device["state"], m.changed["state"])
  <2>1. PICK new : new = Over(m.changed, display_device)
    OBVIOUS
  <2>2. change_device(m.changed) /\ display_device' = new
    BY <1>1, <1>6, <2>1 DEF DeviceSignals, BatterySignals, LidSignals
  <2>3. PICK critical : Tell(critical, IsSupplyChange(display_device, new))
    BY <2>1, <2>2 DEF change_device, update_device
  <2>4. IsSupplyChange(display_device, new) => "change" \in Range(sourceEvents')
    BY <1>4, <2>3, EventsTold
  <2>5. ~IsSupplyChange(display_device, new) /\ new.is_present
    BY <2>2, <2>4
  <2>6. display_device.is_present
    BY <2>5 DEF IsSupplyChange, PresenceChanges
  <2>7. ASSUME m \in Sets("state") PROVE ~Told(display_device["state"], m.changed["state"])
    <3>1. "state" \in Fields
      BY DEF Fields
    <3>2. new.state = m.changed["state"]
      BY <1>2, <2>2, <2>7, <3>1
    <3> QED BY <2>5, <3>2, PowerSourceAssumption DEF IsSupplyChange, Told
  <2> QED BY <2>6, <2>7
<1>7. ASSUME m \notin DeviceSignals PROVE display_device.is_present /\ m \notin Sets("state")
  BY <1>1, <1>7 DEF Sets
<1>8. display_device.is_present
  BY <1>6, <1>7
<1>9. PICK k \in DOMAIN upSignals : ToldAt(k)
  BY <1>5, <1>8 DEF SupplyInv, MachineWillBeTold
<1>10. PICK a : ValueAt(upSignals, display_device, "state", k, a) /\ Told(a, upSignals[k].changed["state"])
  BY <1>9 DEF ToldAt
<1>11. upSignals[k] \in Sets("state")
  BY <1>9 DEF ToldAt
<1>12. k # 1
  <2>1. SUFFICES ASSUME k = 1 PROVE FALSE
    OBVIOUS
  <2>2. display_device["state"] = a /\ upSignals[k] = m
    BY <1>1, <1>3, <1>10, <2>1, ValueNow
  <2> QED BY <1>6, <1>7, <1>10, <1>11, <2>2
<1>13. PICK n \in Nat \ {0} : n = k - 1
  BY <1>3, <1>12
<1>14. n + 1 = k /\ n \in DOMAIN upSignals' /\ upSignals'[n] = upSignals[k]
  BY <1>3, <1>12, <1>13
<1>15. ValueAt(upSignals', display_device', "state", n, a)
  <2>1. "state" \in Fields
    BY DEF Fields
  <2>2. PICK q, d, e : q = upSignals /\ d = display_device /\ e = display_device'
    OBVIOUS
  <2>3. e["state"] = IF Head(q) \in Sets("state") THEN Head(q).changed["state"] ELSE d["state"]
    BY <1>2, <2>1, <2>2 DEF m
  <2>4. q \in Seq(UPowerSignals) /\ q # <<>>
    BY <1>1, <2>2
  <2>5. ValueAt(Tail(q), e, "state", n, a) <=> ValueAt(q, d, "state", n + 1, a)
    BY <2>3, <2>4, ValueTaken
  <2>6. ValueAt(q, d, "state", n + 1, a)
    BY <1>10, <1>14, <2>2
  <2> QED BY <1>1, <2>2, <2>5, <2>6
<1>16. ToldAt(n)'
  BY <1>10, <1>11, <1>14, <1>15 DEF ToldAt, Told
<1> QED BY <1>14, <1>16

\* Each step: the machine asks when it starts, and when it is told while it is
\* active.
LEMMA NextSupplyInv ==
  ASSUME UPowerAnswers, ~othersSignalled', SupplyInv, [PowerSourceNext]_sourceVars
  PROVE  SupplyInv'
<1>1. UPowerInv'
  BY NextUPowerInv DEF SupplyInv
<1>2. CASE SubscribeToUPower \/ add_display_device_and_batteries
  BY <1>1, <1>2 DEF SubscribeToUPower, add_display_device_and_batteries, SupplyInv, MachineWillBeTold,
     machineSupplyVars
<1>3. CASE MachineStarts
  BY <1>1, <1>3 DEF MachineStarts, is_using_battery_power, SupplyInv, MachineWillBeTold, upowerVars
<1>4. CASE UNCHANGED <<onBattery, upSignals, upPhase, display_device, is_on_battery, supplyMissed, sourceEvents>>
           /\ (machinePhase' = "none" <=> machinePhase = "none")
  BY <1>1, <1>4 DEF SupplyInv, MachineWillBeTold, ToldAt, Told
<1>5. CASE MachinePausesOrResumes
  BY <1>4, <1>5 DEF MachinePausesOrResumes, upowerVars, trackedVars
<1>6. CASE UNCHANGED sourceVars
  BY <1>4, <1>6 DEF sourceVars, upowerVars, trackedVars, machineSupplyVars
<1>7. CASE DaemonTakesSourceEvent
  <2>1. /\ sourceEvents \in Seq(SourceEvents) /\ sourceEvents # <<>> /\ sourceEvents' = Tail(sourceEvents)
        /\ UNCHANGED <<onBattery, upSignals, upPhase, display_device, machinePhase>>
    BY <1>7 DEF DaemonTakesSourceEvent, SupplyInv, UPowerInv, SupplyTyped, upowerVars, trackedVars,
       machineSupplyVars
  <2>2. Range(sourceEvents) = Range(sourceEvents') \cup {Head(sourceEvents)}
    BY <2>1, Taken
  <2>3. (\E k \in DOMAIN upSignals : ToldAt(k)) => (\E k \in DOMAIN upSignals' : ToldAt(k)')
    BY <2>1 DEF ToldAt, Told
  <2>4. CASE Head(sourceEvents) = "change" /\ machinePhase = "active"
    <3>1. is_on_battery' = onBattery
      BY <1>7, <2>4 DEF DaemonTakesSourceEvent, is_using_battery_power
    <3> QED BY <1>1, <2>1, <2>4, <3>1 DEF SupplyInv, MachineWillBeTold
  <2>5. CASE Head(sourceEvents) = "change" /\ machinePhase # "active"
    <3>1. supplyMissed' = (supplyMissed \/ machinePhase = "paused")
      BY <1>7, <2>5 DEF DaemonTakesSourceEvent
    <3>2. machinePhase \in {"none", "paused"}
      BY <2>5 DEF SupplyInv, UPowerInv, SupplyTyped
    <3> QED BY <1>1, <2>1, <3>1, <3>2 DEF SupplyInv, MachineWillBeTold
  <2>6. CASE Head(sourceEvents) # "change"
    <3>1. is_on_battery' = is_on_battery /\ supplyMissed' = supplyMissed
      BY <1>7, <2>6 DEF DaemonTakesSourceEvent, machineSupplyVars
    <3> QED BY <1>1, <2>1, <2>2, <2>3, <2>6, <3>1 DEF SupplyInv, MachineWillBeTold
  <2> QED BY <2>4, <2>5, <2>6
<1>8. CASE PlugOrUnplug
  BY <1>1, <1>8, PluggedIsTold DEF SupplyInv
<1>9. CASE PercentageChanges \/ ChargeStateChanges \/ BatteryComesOrGoes \/ DeviceTypeChanges \/ LidMoves
           \/ DeviceAddedOrRemoved
  <2>1. UNCHANGED <<onBattery, supplyMissed>>
    BY <1>9 DEF PercentageChanges, ChargeStateChanges, BatteryComesOrGoes, DeviceTypeChanges, LidMoves,
       DeviceAddedOrRemoved
  <2>2. PICK m \in UPowerSignals : SentByUPower(m)
    BY <1>9, UPowerSends
  <2> QED BY <1>1, <2>1, <2>2, SignalledIsAsBefore DEF SupplyInv
<1>10. CASE HandleUPowerSignal
  BY <1>1, <1>10, HandledIsTold DEF SupplyInv
<1> QED
  BY <1>2, <1>3, <1>5, <1>6, <1>7, <1>8, <1>9, <1>10 DEF PowerSourceNext, OtherDeviceChanges

\* If UPower answers: a machine that has missed no change of the supply knows in
\* the end whether it runs on battery, also after plugging that went back and
\* forth unseen.  What is told while it is paused it misses, and of changes that
\* another device signals nothing is said.
THEOREM SupplyCorrect ==
  ASSUME UPowerAnswers
  PROVE  PowerSourceSpec => []SupplyIsKnown
<1>1. PowerSourceInit => SupplyInv
  BY InitUPowerInv DEF PowerSourceInit, SupplyInv, MachineWillBeTold
<1>2. othersSignalled \/ SupplyInv => SupplyIsKnown
  <2> SUFFICES ASSUME SupplyInv, UPowerQuiet, upDevice.is_present, machinePhase # "none", ~supplyMissed
               PROVE  is_on_battery = onBattery
    BY DEF SupplyIsKnown
  <2>1. DOMAIN upSignals = {} /\ Range(sourceEvents) = {}
    BY EmptyQueue DEF UPowerQuiet
  <2>2. display_device["is_present"] = upDevice["is_present"]
    BY NoneHasNoLast DEF SupplyInv, UPowerInv, UPowerFollows, DeviceFollows, UPowerQuiet, Fields
  <2> QED BY <2>1, <2>2 DEF SupplyInv, MachineWillBeTold
<1>3. (othersSignalled \/ SupplyInv) /\ [PowerSourceNext]_sourceVars => (othersSignalled \/ SupplyInv)'
  BY OthersStaySignalled, NextSupplyInv
<1> QED BY <1>1, <1>2, <1>3, PTL DEF PowerSourceSpec

-----------------------------------------------------------------------------
(* Taken together, as one behaviour and part by part of it.                *)

\* What a step of the whole is for one of its parts.
LEMMA StepOfPart ==
  ASSUME [AdaptersNext]_adapterVars
  PROVE  /\ [LogindPowerNext]_logindPowerVars /\ [VoiceNext]_voiceVars /\ [PowerSourceNext]_sourceVars
         /\ [DisplayNext]_displayVars /\ [BrightnessNext]_brightnessVars /\ [BacklightsNext]_backlightsVars
         /\ [AlarmNext]_alarmVars /\ [WakeupsNext]_wakeupVars /\ [ScreenNext]_screenVars
         /\ [PowerNext]_powerVars /\ [SettingsNext]_settingVars /\ [LifeNext]_lifeVars
         /\ [StartNext]_startVars /\ [FileNext]_fileVars
<1>1. CASE UNCHANGED adapterVars
  BY <1>1 DEF adapterVars
<1>2. CASE AdaptersNext
  BY <1>2 DEF AdaptersNext, OthersStay
<1> QED BY <1>1, <1>2

\* What the services have become known as, with their parts in one behaviour.
ServicesInv == BlockInv /\ VoiceInv /\ UPowerInv /\ OutputInv

\* Of oFono's calls and modems, of the batteries, of the display outputs and of
\* what logind blocks, whatever is signalled before, while and after repowerd
\* asks for it: once nothing is on its way, it knows what is so.
THEOREM ServicesCorrect ==
  ASSUME LogindAnswers, UPowerAnswers
  PROVE  AdaptersSpec => []ServicesAreKnown
<1>1. AdaptersInit => ServicesInv
  BY InitBlockInv, InitVoiceInv, InitUPowerInv, InitOutputInv DEF AdaptersInit, ServicesInv
<1>2. ServicesInv /\ [AdaptersNext]_adapterVars => ServicesInv'
  BY StepOfPart, NextBlockInv, NextVoiceInv, NextUPowerInv, NextOutputInv DEF ServicesInv
<1>3. ServicesInv => ServicesAreKnown
  BY QuietKnows, UPowerKnows, BlockKnows, OutputsKnow DEF ServicesInv, ServicesAreKnown
<1> QED BY <1>1, <1>2, <1>3, PTL DEF AdaptersSpec

\* Of the brightness control and of the devices: at rest, a display that is off
\* is dark, a dim one no brighter than dim and a bright one as the user wants it;
\* and a transition of a device ends where it was sent.
THEOREM BacklightCorrect == AdaptersSpec => []BacklightFollows
<1>1. AdaptersInit => ControlInv /\ FadeInv
  BY InitControlInv, InitFadeInv DEF AdaptersInit
<1>2. ControlInv /\ FadeInv /\ [AdaptersNext]_adapterVars => ControlInv' /\ FadeInv'
  BY StepOfPart, NextControlInv, NextFadeInv
<1>3. ControlInv /\ FadeInv => BacklightFollows
  BY ControlKnows, FadeKnows DEF BacklightFollows
<1> QED BY <1>1, <1>2, <1>3, PTL DEF AdaptersSpec

\* Of the objects that the daemon is built of and of the files that configure
\* them: none is missing, made twice or a needless fallback, and no value of the
\* default file is mixed with one of the device's.
THEOREM CompletenessCorrect == AdaptersSpec => []StartIsComplete
<1>1. AdaptersInit => StartInv /\ ConfigInv
  BY InitStartInv, InitConfigInv DEF AdaptersInit
<1>2. StartInv /\ ConfigInv /\ [AdaptersNext]_adapterVars => StartInv' /\ ConfigInv'
  BY StepOfPart, NextStartInv, NextConfigInv
<1>3. StartInv /\ ConfigInv => StartIsComplete
  BY StartIsInOrder, ConfigHolds DEF StartIsComplete
<1> QED BY <1>1, <1>2, <1>3, PTL DEF AdaptersSpec

-----------------------------------------------------------------------------
(* The types of the state: what the other invariants leave open.           *)

\* Times and cookies are those that can be asked for.
TimesTyped ==
  /\ wallClock \in 1 .. MaxTime /\ alarmSetTo \in 0 .. Disarmed
  /\ lastCookie \in 0 .. MaxWakeups /\ wakeupsRunning \in BOOLEAN
  /\ wakeups \subseteq [at : 1 .. MaxTime, cookie : Cookies]
  /\ wakeupThread \in {"none", "wait", "woken", "handler", "reset", "ended"}

\* What the hardware is set to is a time, or says that there is none.
LEMMA AlarmIsATime ==
  ASSUME NEW T, T \subseteq [at : 1 .. MaxTime, cookie : Cookies], NEW runs \in BOOLEAN
  PROVE  NextAlarm(T, runs) \in 0 .. Disarmed
<1> DEFINE last == IF wakeupService = "dev_alarm" THEN Far ELSE Disarmed
           S == {w.at : w \in T} \cup {last}
<1>1. MaxTime \in Nat /\ Far \in Nat /\ Disarmed \in Nat /\ Far <= Disarmed /\ MaxTime <= Disarmed
  BY WakeupsAssumption DEF Far, Disarmed
<1>2. S \subseteq 0 .. Disarmed /\ S \subseteq Nat /\ S # {}
  BY <1>1
<1>3. CASE ~runs
  BY <1>1, <1>3 DEF NextAlarm, Past
<1>4. CASE runs
  <2>1. NextAlarm(T, runs) = CHOOSE x \in S : \A y \in S : x <= y
    BY <1>4 DEF NextAlarm, Min
  <2> HIDE DEF S
  <2>2. NextAlarm(T, runs) \in S
    BY <1>2, <2>1, NatMinimum
  <2> QED BY <1>2, <2>2
<1> QED BY <1>3, <1>4

\* The table grows or shrinks, and time passes.
LEMMA NextTimesTyped ==
  ASSUME TimesTyped, [WakeupsNext]_wakeupVars
  PROVE  TimesTyped'
<1>1. wallClock' \in 1 .. MaxTime
  <2>1. wallClock' = wallClock \/ (wallClock < MaxTime /\ wallClock' = wallClock + 1)
    BY DEF WakeupsNext, wakeupVars, schedule_wakeup_at, cancel_wakeup, StopWakeups, WallClockTicks,
         AlarmFires, AlarmWaitReturns, TakeWakeup, CallWakeupHandler, ResetAndWait, TimerfdReadable
  <2> QED BY <2>1, WakeupsAssumption DEF TimesTyped
<1>2. lastCookie' \in 0 .. MaxWakeups
  <2>1. lastCookie' = lastCookie \/ (lastCookie < MaxWakeups /\ lastCookie' = lastCookie + 1)
    BY DEF WakeupsNext, wakeupVars, schedule_wakeup_at, cancel_wakeup, StopWakeups, WallClockTicks,
         AlarmFires, AlarmWaitReturns, TakeWakeup, CallWakeupHandler, ResetAndWait, TimerfdReadable
  <2> QED BY <2>1, WakeupsAssumption DEF TimesTyped
<1>3. wakeups' \subseteq [at : 1 .. MaxTime, cookie : Cookies]
  <2>1. CASE schedule_wakeup_at
    <3>1. lastCookie + 1 \in Cookies
      BY <2>1, WakeupsAssumption DEF schedule_wakeup_at, TimesTyped, Cookies
    <3> QED BY <2>1, <3>1 DEF schedule_wakeup_at, TimesTyped
  <2>2. CASE wakeups' \subseteq wakeups
    BY <2>2 DEF TimesTyped
  <2> QED BY <2>1, <2>2
     DEF WakeupsNext, wakeupVars, tableVars, cancel_wakeup, StopWakeups, WallClockTicks, EraseWakeup,
         AlarmFires, AlarmWaitReturns, TakeWakeup, CallWakeupHandler, ResetAndWait, TimerfdReadable
<1>4. wakeupThread' \in {"none", "wait", "woken", "handler", "reset", "ended"}
  BY DEF TimesTyped, WakeupsNext, wakeupVars, schedule_wakeup_at, cancel_wakeup, StopWakeups, WallClockTicks,
         AlarmFires, AlarmWaitReturns, TakeWakeup, CallWakeupHandler, ResetAndWait, TimerfdReadable
<1>5. alarmSetTo' \in 0 .. Disarmed
  <2>1. ASSUME NEW T, NEW runs \in BOOLEAN, T \subseteq [at : 1 .. MaxTime, cookie : Cookies],
               ResetAlarm(T, runs)
        PROVE  alarmSetTo' \in 0 .. Disarmed
    BY <2>1, AlarmIsATime DEF ResetAlarm
  <2>2. Disarmed \in 0 .. Disarmed
    BY WakeupsAssumption DEF Disarmed
  <2>3. wakeups \subseteq [at : 1 .. MaxTime, cookie : Cookies] /\ alarmSetTo \in 0 .. Disarmed
    BY DEF TimesTyped
  <2>4. CASE schedule_wakeup_at \/ cancel_wakeup \/ TimerfdReadable
    <3>1. ResetAlarm(wakeups', TRUE)
      BY <2>4 DEF schedule_wakeup_at, cancel_wakeup, TimerfdReadable
    <3> QED BY <1>3, <2>1, <3>1
  <2>5. CASE StopWakeups
    BY <2>1, <2>3, <2>5 DEF StopWakeups
  <2>6. CASE ResetAndWait
    BY <2>1, <2>3, <2>6 DEF ResetAndWait, TimesTyped
  <2>7. CASE alarmSetTo' \in {alarmSetTo, Disarmed}
    BY <2>2, <2>3, <2>7
  <2>8. \/ schedule_wakeup_at \/ cancel_wakeup \/ TimerfdReadable \/ StopWakeups \/ ResetAndWait
        \/ alarmSetTo' \in {alarmSetTo, Disarmed}
    BY DEF WakeupsNext, wakeupVars, hardwareVars, WallClockTicks, AlarmFires, AlarmWaitReturns, TakeWakeup,
           CallWakeupHandler
  <2> QED BY <2>4, <2>5, <2>6, <2>7, <2>8
<1>6. wakeupsRunning' \in BOOLEAN
  BY DEF TimesTyped, WakeupsNext, wakeupVars, schedule_wakeup_at, cancel_wakeup, StopWakeups, WallClockTicks,
         AlarmFires, AlarmWaitReturns, TakeWakeup, CallWakeupHandler, ResetAndWait, TimerfdReadable
<1> QED BY <1>1, <1>2, <1>3, <1>4, <1>5, <1>6 DEF TimesTyped

\* The clock has begun, and no wakeup is asked for.
LEMMA InitTimesTyped == WakeupsInit => TimesTyped
BY WakeupsAssumption DEF WakeupsInit, TimesTyped, Far, Disarmed

-----------------------------------------------------------------------------
\* Whatever UPower answers, and when.
SourceTyped ==
  /\ onBattery \in BOOLEAN /\ upDevice \in Devices /\ upDevice.state \in States
  /\ display_device \in Devices
  /\ upBatteries \subseteq Batteries /\ batteries \subseteq Batteries
  /\ upSignals \in Seq(UPowerSignals) /\ highest_seen_percentage \in Percentages
  /\ machinePhase \in {"none", "active", "paused"} /\ is_on_battery \in BOOLEAN /\ lid_closed \in BOOLEAN
  /\ supplyMissed \in BOOLEAN /\ (machinePhase = "none" => ~supplyMissed /\ ~lid_closed)

\* Nothing is known of UPower.
LEMMA InitSourceTyped == PowerSourceInit => SourceTyped
<1> SUFFICES ASSUME PowerSourceInit PROVE SourceTyped
  OBVIOUS
<1>1. NoDevice \in Devices
  BY PowerSourceAssumption DEF NoDevice, Devices
<1> QED BY <1>1, PowerSourceAssumption, EmptyQueue DEF PowerSourceInit, SourceTyped, Devices, StatesFor, States

\* A signal of UPower, with what it changes.
LEMMA SignalledTyped ==
  ASSUME SourceTyped, NEW m \in UPowerSignals, SentByUPower(m), onBattery' \in BOOLEAN,
         upDevice' \in Devices, upDevice'.state \in States, upBatteries' \subseteq Batteries,
         supplyMissed' \in BOOLEAN, machinePhase = "none" => supplyMissed' = supplyMissed
  PROVE  SourceTyped'
<1>1. upSignals' = upSignals \/ upSignals' = Append(upSignals, m)
  BY DEF SentByUPower
<1>2. upSignals' \in Seq(UPowerSignals)
  BY <1>1, AppendProperties DEF SourceTyped
<1> QED BY <1>2 DEF SourceTyped, SentByUPower, trackedVars, machineSupplyVars

\* A change of the display device.
LEMMA DeviceChangeTyped ==
  ASSUME SourceTyped, NEW ch \in DeviceChanges, DeviceChange(ch), onBattery' \in BOOLEAN,
         UNCHANGED upBatteries, supplyMissed' \in BOOLEAN,
         machinePhase = "none" => supplyMissed' = supplyMissed
  PROVE  SourceTyped'
<1> DEFINE m == [signal |-> "device", changed |-> ch]
<1>1. m \in UPowerSignals /\ upDevice' = Over(ch, upDevice) /\ SentByUPower(m)
  BY DEF DeviceChange, UPowerSignals, DeviceSignals
<1> HIDE DEF m
<1>2. upDevice \in Devices /\ upDevice.state \in States /\ upBatteries' \subseteq Batteries
  BY DEF SourceTyped
<1>3. upDevice' \in Devices
      /\ upDevice'.state = IF "state" \in DOMAIN ch THEN ch.state ELSE upDevice.state
  BY <1>1, <1>2, DeviceUpdated
<1>4. upDevice'.state \in States
  BY <1>2, <1>3 DEF DeviceChanges
<1> QED BY <1>1, <1>2, <1>3, <1>4, SignalledTyped

\* UPower changes.
LEMMA UPowerTyped ==
  ASSUME SourceTyped, PercentageChanges \/ PlugOrUnplug \/ ChargeStateChanges \/ BatteryComesOrGoes
               \/ DeviceTypeChanges \/ OtherDeviceChanges \/ LidMoves \/ DeviceAddedOrRemoved
  PROVE  SourceTyped'
<1>1. CASE PercentageChanges
  <2>1. PICK p \in Percentages : DeviceChange([percentage |-> p])
    BY <1>1 DEF PercentageChanges
  <2>2. [percentage |-> p] \in DeviceChanges
    BY DEF DeviceChanges
  <2> QED BY <1>1, <2>1, <2>2, DeviceChangeTyped DEF PercentageChanges, SourceTyped
<1>2. CASE PlugOrUnplug
  <2>1. PICK s \in StatesFor(onBattery') :
          /\ DeviceChange([state |-> s])
          /\ supplyMissed' =
               (supplyMissed \/ (machinePhase # "none" /\ "discharging" \notin {s, upDevice.state}))
    BY <1>2 DEF PlugOrUnplug
  <2>2. [state |-> s] \in DeviceChanges
    BY DEF DeviceChanges, StatesFor, States
  <2>3. supplyMissed' \in BOOLEAN /\ (machinePhase = "none" => supplyMissed' = supplyMissed)
    BY <2>1 DEF SourceTyped
  <2> QED BY <1>2, <2>1, <2>2, <2>3, DeviceChangeTyped DEF PlugOrUnplug
<1>3. CASE BatteryComesOrGoes
  <2>1. DeviceChange([is_present |-> ~upDevice.is_present])
    BY <1>3 DEF BatteryComesOrGoes
  <2>2. [is_present |-> ~upDevice.is_present] \in DeviceChanges
    BY DEF DeviceChanges
  <2> QED BY <1>3, <2>1, <2>2, DeviceChangeTyped DEF BatteryComesOrGoes, SourceTyped
<1>4. CASE LidMoves
  <2>1. [signal |-> "lid", changed |-> lidClosed'] \in UPowerSignals
    BY <1>4 DEF LidMoves, LidSignals, UPowerSignals
  <2> QED BY <1>4, <2>1, SignalledTyped DEF LidMoves, SourceTyped
<1>5. CASE DeviceAddedOrRemoved
  <2>1. PICK b \in Batteries :
          /\ upBatteries' = IF b \in upBatteries THEN upBatteries \ {b} ELSE upBatteries \cup {b}
          /\ SentByUPower([signal |-> IF b \in upBatteries THEN "removed" ELSE "added", changed |-> b])
    BY <1>5 DEF DeviceAddedOrRemoved
  <2>2. [signal |-> IF b \in upBatteries THEN "removed" ELSE "added", changed |-> b] \in UPowerSignals
    BY DEF BatterySignals, UPowerSignals
  <2>3. upBatteries' \subseteq Batteries /\ UNCHANGED <<upDevice, onBattery, supplyMissed>>
    BY <1>5, <2>1 DEF SourceTyped, DeviceAddedOrRemoved
  <2> QED BY <2>1, <2>2, <2>3, SignalledTyped DEF SourceTyped
<1>6. CASE ChargeStateChanges \/ DeviceTypeChanges
  <2>1. PICK ch \in DeviceChanges : DeviceChange(ch)
    <3>1. CASE ChargeStateChanges
      BY <3>1 DEF ChargeStateChanges, StatesFor, States, DeviceChanges
    <3>2. CASE DeviceTypeChanges
      BY <3>2 DEF DeviceTypeChanges, DeviceChanges
    <3> QED BY <1>6, <3>1, <3>2
  <2> QED BY <1>6, <2>1, DeviceChangeTyped DEF ChargeStateChanges, DeviceTypeChanges, SourceTyped
<1>7. CASE OtherDeviceChanges
  <2>1. PICK ch \in DeviceChanges : SentByUPower([signal |-> "device", changed |-> ch])
    BY <1>7 DEF OtherDeviceChanges, DeviceChanges
  <2>2. [signal |-> "device", changed |-> ch] \in UPowerSignals
    BY DEF UPowerSignals, DeviceSignals
  <2> QED BY <1>7, <2>1, <2>2, SignalledTyped DEF OtherDeviceChanges, SourceTyped, upowerVars
<1> QED BY <1>1, <1>2, <1>3, <1>4, <1>5, <1>6, <1>7

\* The service handles a signal.
LEMMA HandledTyped ==
  ASSUME SourceTyped, HandleUPowerSignal
  PROVE  SourceTyped'
<1>1. /\ upSignals \in Seq(UPowerSignals) /\ upSignals # <<>> /\ upSignals' = Tail(upSignals)
      /\ UNCHANGED <<onBattery, upDevice, upBatteries, machinePhase, is_on_battery, lid_closed, supplyMissed>>
  BY DEF HandleUPowerSignal, SourceTyped, upowerVars, machineSupplyVars
<1>2. Head(upSignals) \in UPowerSignals /\ upSignals' \in Seq(UPowerSignals)
  BY <1>1, LastTaken
<1>3. PICK m \in UPowerSignals : m = Head(upSignals)
  BY <1>2
<1>4. CASE m.signal = "device"
  <2>1. m.changed \in DeviceChanges
    BY <1>4, KindsOfSignals
  <2>2. PICK d : d = Over(m.changed, display_device)
    OBVIOUS
  <2>3. d \in Devices /\ d.percentage \in Percentages
    BY <2>1, <2>2, DeviceUpdated DEF SourceTyped, Devices
  <2>4. /\ display_device' = d /\ UNCHANGED batteries
        /\ highest_seen_percentage' \in {0, HighestWith(d)}
    BY <1>3, <1>4, <2>2 DEF HandleUPowerSignal, change_device, update_device
  <2>5. HighestWith(d) \in Percentages
    BY <2>3 DEF HighestWith, higher, SourceTyped
  <2> QED BY <1>1, <1>2, <2>3, <2>4, <2>5, PowerSourceAssumption DEF SourceTyped
<1>5. CASE m.signal \in {"added", "removed"}
  <2>1. m.changed \in Batteries
    BY <1>5, KindsOfSignals
  <2>2. /\ batteries' \subseteq batteries \cup {m.changed}
        /\ UNCHANGED <<display_device, highest_seen_percentage>>
    BY <1>3, <1>5 DEF HandleUPowerSignal, add_or_remove_device
  <2> QED BY <1>1, <1>2, <2>1, <2>2 DEF SourceTyped
<1>6. CASE m.signal = "lid"
  BY <1>1, <1>2, <1>3, <1>6 DEF HandleUPowerSignal, SourceTyped, trackedVars
<1> QED BY <1>3, <1>4, <1>5, <1>6 DEF HandleUPowerSignal

\* Each step, of UPower, of the service and of the machine.
LEMMA NextSourceTyped ==
  ASSUME SourceTyped, [PowerSourceNext]_sourceVars
  PROVE  SourceTyped'
<1>1. CASE add_display_device_and_batteries
  <2>1. NoDevice \in Devices
    BY PowerSourceAssumption DEF NoDevice, Devices
  <2>2. display_device' \in Devices /\ highest_seen_percentage' = display_device'.percentage
    BY <1>1, <2>1 DEF add_display_device_and_batteries, create_device, SourceTyped
  <2>3. highest_seen_percentage' \in Percentages
    BY <2>2 DEF Devices
  <2> QED BY <1>1, <2>2, <2>3 DEF add_display_device_and_batteries, SourceTyped, upowerVars, machineSupplyVars
<1>2. CASE MachineStarts \/ MachinePausesOrResumes
  <2>1. is_on_battery' \in BOOLEAN /\ supplyMissed' \in BOOLEAN
        /\ machinePhase' \in {"active", "paused"}
    BY <1>2 DEF MachineStarts, MachinePausesOrResumes, is_using_battery_power, SourceTyped
  <2> QED BY <1>2, <2>1 DEF MachineStarts, MachinePausesOrResumes, SourceTyped, upowerVars, trackedVars
<1>3. CASE DaemonTakesSourceEvent
  <2>1. machinePhase' = machinePhase
    BY <1>3 DEF DaemonTakesSourceEvent, machineSupplyVars
  <2>2. /\ is_on_battery' = is_on_battery \/ is_on_battery' \in is_using_battery_power
        /\ \/ supplyMissed' = supplyMissed \/ supplyMissed' = FALSE
           \/ supplyMissed' = (supplyMissed \/ machinePhase = "paused")
        /\ \/ lid_closed' = lid_closed
           \/ \E e : lid_closed' = (IF machinePhase = "active" THEN e = "lid_closed" ELSE lid_closed)
    BY <1>3 DEF DaemonTakesSourceEvent, machineSupplyVars
  <2>3. is_on_battery' \in BOOLEAN
    BY <2>2 DEF SourceTyped, is_using_battery_power
  <2>4. supplyMissed' \in BOOLEAN /\ (machinePhase = "none" => ~supplyMissed')
    <3>1. CASE supplyMissed' = supplyMissed
      BY <3>1 DEF SourceTyped
    <3>2. CASE supplyMissed' = FALSE
      BY <3>2
    <3>3. CASE supplyMissed' = (supplyMissed \/ machinePhase = "paused")
      BY <3>3 DEF SourceTyped
    <3> QED BY <2>2, <3>1, <3>2, <3>3
  <2>5. lid_closed' \in BOOLEAN /\ (machinePhase = "none" => ~lid_closed')
    BY <2>2 DEF SourceTyped
  <2> QED BY <1>3, <2>1, <2>3, <2>4, <2>5 DEF DaemonTakesSourceEvent, SourceTyped, upowerVars, trackedVars
<1>4. CASE SubscribeToUPower \/ UNCHANGED sourceVars
  BY <1>4 DEF SubscribeToUPower, sourceVars, SourceTyped, upowerVars, trackedVars, machineSupplyVars
<1> QED BY <1>1, <1>2, <1>3, <1>4, UPowerTyped, HandledTyped DEF PowerSourceNext

-----------------------------------------------------------------------------
\* Where something is in a queue.
Places(q, K) == {i \in 1 .. Len(q) : q[i] \in K}

\* Something is put at the end of a queue.
LEMMA PlacesAppended ==
  ASSUME NEW S, NEW q \in Seq(S), NEW e \in S, NEW K
  PROVE  /\ IsFiniteSet(Places(q, K)) /\ Cardinality(Places(q, K)) \in Nat
         /\ Cardinality(Places(Append(q, e), K)) =
              IF e \in K THEN Cardinality(Places(q, K)) + 1 ELSE Cardinality(Places(q, K))
<1>1. IsFiniteSet(Places(q, K)) /\ Cardinality(Places(q, K)) \in Nat
  <2>1. Places(q, K) \subseteq 1 .. Len(q) /\ Len(q) \in Nat
    BY DEF Places
  <2>2. IsFiniteSet(1 .. Len(q))
    BY <2>1, FS_Interval
  <2> QED BY <2>1, <2>2, FS_Subset, FS_CardinalityType
<1>2. PICK r : r = Append(q, e)
  OBVIOUS
<1>3. /\ r \in Seq(S) /\ Len(r) = Len(q) + 1 /\ \A i \in 1 .. Len(q) : r[i] = q[i]
      /\ r[Len(q) + 1] = e /\ Len(q) \in Nat
  BY <1>2, AppendProperties
<1>4. CASE e \in K
  <2>1. Places(r, K) = Places(q, K) \cup {Len(q) + 1} /\ Len(q) + 1 \notin Places(q, K)
    BY <1>3, <1>4 DEF Places
  <2> QED BY <1>1, <1>2, <1>4, <2>1, FS_AddElement
<1>5. CASE e \notin K
  <2>1. Places(r, K) = Places(q, K)
    BY <1>3, <1>5 DEF Places
  <2> QED BY <1>1, <1>2, <1>5, <2>1
<1> QED BY <1>1, <1>4, <1>5

\* The first of a queue is taken: the others move up.
LEMMA PlacesTaken ==
  ASSUME NEW S, NEW q \in Seq(S), q # <<>>, NEW K
  PROVE  /\ Cardinality(Places(Tail(q), K)) \in Nat
         /\ Cardinality(Places(q, K)) =
              IF Head(q) \in K THEN Cardinality(Places(Tail(q), K)) + 1
              ELSE Cardinality(Places(Tail(q), K))
<1>1. PICK r : r = Tail(q)
  OBVIOUS
<1>2. /\ r \in Seq(S) /\ Len(r) = Len(q) - 1 /\ \A i \in 1 .. Len(r) : r[i] = q[i + 1]
      /\ Len(r) \in Nat /\ Head(q) = q[1]
  BY <1>1, HeadTailProperties
<1> DEFINE later == Places(q, K) \ {1}
<1>3. /\ IsFiniteSet(Places(q, K)) /\ IsFiniteSet(Places(r, K)) /\ Cardinality(Places(r, K)) \in Nat
      /\ IsFiniteSet(later)
  <2>1. Places(q, K) \subseteq 1 .. Len(q) /\ Len(q) \in Nat /\ Places(r, K) \subseteq 1 .. Len(r)
    BY DEF Places
  <2>2. IsFiniteSet(1 .. Len(q)) /\ IsFiniteSet(1 .. Len(r))
    BY <1>2, <2>1, FS_Interval
  <2>3. IsFiniteSet(Places(q, K)) /\ IsFiniteSet(Places(r, K))
    BY <2>1, <2>2, FS_Subset
  <2> QED BY <2>3, FS_Subset, FS_CardinalityType
<1>4. Cardinality(later) = Cardinality(Places(r, K))
  <2> DEFINE f == [i \in Places(r, K) |-> i + 1]
  <2>1. \A i : i \in later <=> i \in 2 .. Len(q) /\ i - 1 \in Places(r, K)
    BY <1>2 DEF Places
  <2>2. /\ Len(r) \in Nat /\ Places(r, K) \subseteq Int
        /\ \A i \in Places(r, K) : i + 1 \in later
        /\ \A k \in later : k - 1 \in Places(r, K) /\ k = k - 1 + 1
    BY <1>2, <2>1 DEF Places
  <2> HIDE DEF later
  <2>3. f \in Injection(Places(r, K), later)
    BY <2>2 DEF Injection, IsInjective
  <2>4. f \in Surjection(Places(r, K), later)
    <3>1. \A k \in later : \E i \in Places(r, K) : f[i] = k
      BY <2>2
    <3> QED BY <2>2, <3>1 DEF Surjection
  <2>5. f \in Bijection(Places(r, K), later)
    BY <2>3, <2>4 DEF Bijection
  <2> QED BY <1>3, <2>5, FS_Bijection DEF ExistsBijection
<1>5. 1 \in Places(q, K) <=> Head(q) \in K
  BY <1>2 DEF Places
<1>6. CASE Head(q) \in K
  <2>1. Cardinality(later) = Cardinality(Places(q, K)) - 1 /\ Cardinality(Places(q, K)) \in Nat
    BY <1>3, <1>5, <1>6, FS_RemoveElement, FS_CardinalityType
  <2> QED BY <1>1, <1>3, <1>4, <1>6, <2>1
<1>7. CASE Head(q) \notin K
  <2>1. later = Places(q, K)
    BY <1>5, <1>7
  <2> QED BY <1>1, <1>3, <1>4, <1>7, <2>1
<1> QED BY <1>6, <1>7

-----------------------------------------------------------------------------
\* Of each sleep, one resume: to come, signalled, queued or told.
ResumeSignals == [signal : {"PrepareForSleep"}, value : {FALSE}]
ResumesSignalled == Cardinality(Places(powerSignals, ResumeSignals))
ResumesQueued == Cardinality(Places(powerQueue, {"system_resume"}))
Sleeping == IF logindSleep = "asleep" THEN 1 ELSE 0

BlockCounted ==
  /\ powerPhase \in {"stopped", "subscribed", "started"}
  /\ sleepBlocked \in BOOLEAN /\ is_suspend_blocked \in BOOLEAN
  /\ machinesBlocked \in {"unknown", "free", "blocked"}
  /\ powerSignals \in Seq(PowerSignalTypes) /\ powerQueue \in Seq(PowerEvents)
  /\ logindSleep \in {"awake", "asleep"} /\ sleeps \in Nat /\ resumesTold \in Nat
  /\ resumesTold + ResumesQueued + ResumesSignalled + Sleeping <= sleeps

\* Nothing sleeps.
LEMMA InitBlockCounted == LogindPowerInit => BlockCounted
<1> SUFFICES ASSUME LogindPowerInit PROVE BlockCounted
  OBVIOUS
<1>1. powerSignals = <<>> /\ powerQueue = <<>>
  BY DEF LogindPowerInit
<1>2. \A q, K : q = <<>> => Cardinality(Places(q, K)) = 0
  <2>1. \A q, K : q = <<>> => Places(q, K) = {}
    BY DEF Places
  <2> QED BY <2>1, FS_EmptySet
<1>3. ResumesQueued = 0 /\ ResumesSignalled = 0
  BY <1>1, <1>2 DEF ResumesQueued, ResumesSignalled
<1>4. resumesTold = 0 /\ sleeps = 0 /\ Sleeping = 0
  BY DEF LogindPowerInit, Sleeping
<1>5. resumesTold + ResumesQueued + ResumesSignalled + Sleeping <= sleeps
  BY <1>3, <1>4
<1>6. powerSignals \in Seq(PowerSignalTypes) /\ powerQueue \in Seq(PowerEvents)
  BY <1>1, EmptyQueue
<1>7. /\ powerPhase = "stopped" /\ machinesBlocked = "unknown" /\ logindSleep = "awake"
      /\ sleepBlocked \in BOOLEAN /\ is_suspend_blocked \in BOOLEAN
  BY DEF LogindPowerInit
<1> QED BY <1>4, <1>5, <1>6, <1>7 DEF BlockCounted

\* There are so many, whatever they are.
LEMMA ResumesAreCounted ==
  ASSUME powerSignals \in Seq(PowerSignalTypes), powerQueue \in Seq(PowerEvents)
  PROVE  ResumesQueued \in Nat /\ ResumesSignalled \in Nat
<1>1. "system_resume" \in PowerEvents /\ [signal |-> "PrepareForSleep", value |-> FALSE] \in PowerSignalTypes
  BY DEF PowerEvents, PowerSignalTypes
<1> QED BY <1>1, PlacesAppended DEF ResumesQueued, ResumesSignalled

\* Logind sends m: a resume, once it has slept.
LEMMA SentCounted ==
  ASSUME BlockCounted, NEW m \in PowerSignalTypes, Sent(m), sleepBlocked' \in BOOLEAN,
         UNCHANGED <<controlVars, powerQueue, daemonSideVars>>,
         \/ m \notin ResumeSignals /\ UNCHANGED <<sleeps, logindSleep>>
         \/ m \notin ResumeSignals /\ sleeps' = sleeps + 1 /\ logindSleep = "awake" /\ logindSleep' = "asleep"
         \/ UNCHANGED sleeps /\ logindSleep = "asleep" /\ logindSleep' = "awake"
  PROVE  BlockCounted'
<1>1. /\ powerSignals \in Seq(PowerSignalTypes) /\ powerQueue \in Seq(PowerEvents)
      /\ ResumesQueued \in Nat /\ ResumesSignalled \in Nat /\ sleeps \in Nat /\ resumesTold \in Nat
      /\ UNCHANGED <<powerPhase, is_suspend_blocked, powerQueue, machinesBlocked, resumesTold>>
      /\ logindSleep \in {"awake", "asleep"}
      /\ resumesTold + ResumesQueued + ResumesSignalled + Sleeping <= sleeps
  BY ResumesAreCounted DEF BlockCounted, controlVars, daemonSideVars
<1>2. ResumesQueued' = ResumesQueued
  BY <1>1 DEF ResumesQueued
<1>3. /\ powerSignals' \in Seq(PowerSignalTypes)
      /\ ResumesSignalled' \in Nat /\ ResumesSignalled' <= ResumesSignalled + 1
      /\ m \notin ResumeSignals => ResumesSignalled' = ResumesSignalled
  <2>1. CASE powerSignals' = powerSignals
    BY <1>1, <2>1 DEF ResumesSignalled
  <2>2. CASE powerSignals' = Append(powerSignals, m)
    <3>1. ResumesSignalled' = IF m \in ResumeSignals THEN ResumesSignalled + 1 ELSE ResumesSignalled
      BY <1>1, <2>2, PlacesAppended DEF ResumesSignalled
    <3>2. powerSignals' \in Seq(PowerSignalTypes)
      BY <1>1, <2>2, AppendProperties
    <3> QED BY <1>1, <3>1, <3>2
  <2> QED BY <2>1, <2>2 DEF Sent
<1>4. resumesTold' + ResumesQueued' + ResumesSignalled' + Sleeping' <= sleeps'
  <2>1. Sleeping \in Nat /\ Sleeping' \in Nat
    BY DEF Sleeping
  <2>2. sleeps' \in Nat
    BY <1>1
  <2>3. PICK r, a, n \in Nat : r = ResumesSignalled' /\ a = Sleeping' /\ n = sleeps'
    BY <1>3, <2>1, <2>2
  <2>4. r + a <= ResumesSignalled + Sleeping + (n - sleeps)
    <3>1. CASE m \notin ResumeSignals /\ UNCHANGED <<sleeps, logindSleep>>
      BY <1>1, <1>3, <2>3, <3>1 DEF Sleeping
    <3>2. CASE m \notin ResumeSignals /\ sleeps' = sleeps + 1 /\ logindSleep = "awake" /\ logindSleep' = "asleep"
      BY <1>1, <1>3, <2>3, <3>2 DEF Sleeping
    <3>3. CASE UNCHANGED sleeps /\ logindSleep = "asleep" /\ logindSleep' = "awake"
      <4>1. a = 0 /\ Sleeping = 1 /\ n = sleeps
        BY <2>3, <3>3 DEF Sleeping
      <4>2. r <= ResumesSignalled + 1
        BY <1>3, <2>3
      <4> QED BY <1>1, <4>1, <4>2
    <3> QED BY <3>1, <3>2, <3>3
  <2>5. resumesTold + ResumesQueued + r + a <= n
    BY <1>1, <2>1, <2>4
  <2> QED BY <1>1, <1>2, <2>3, <2>5
<1> QED BY <1>1, <1>3, <1>4 DEF BlockCounted

\* A signal is handled: of a resume, the daemon's event is queued.
LEMMA SignalCounted ==
  ASSUME BlockCounted, HandlePowerSignal
  PROVE  BlockCounted'
<1>1. /\ powerSignals \in Seq(PowerSignalTypes) /\ powerSignals # <<>> /\ powerSignals' = Tail(powerSignals)
      /\ powerQueue \in Seq(PowerEvents)
      /\ UNCHANGED <<sleepBlocked, logindSleep, sleeps, powerPhase, machinesBlocked, resumesTold>>
      /\ ResumesQueued \in Nat /\ ResumesSignalled \in Nat /\ sleeps \in Nat /\ resumesTold \in Nat
      /\ resumesTold + ResumesQueued + ResumesSignalled + Sleeping <= sleeps
  BY ResumesAreCounted DEF BlockCounted, HandlePowerSignal, logindStateVars, daemonSideVars
<1>2. PICK m \in PowerSignalTypes : m = Head(powerSignals)
  BY <1>1, LastTaken
<1>3. /\ powerSignals' \in Seq(PowerSignalTypes) /\ ResumesSignalled' \in Nat
      /\ ResumesSignalled = IF m \in ResumeSignals THEN ResumesSignalled' + 1 ELSE ResumesSignalled'
  <2>1. powerSignals' \in Seq(PowerSignalTypes)
    BY <1>1, LastTaken
  <2> QED BY <1>1, <1>2, <2>1, PlacesTaken DEF ResumesSignalled
<1>4. /\ powerQueue' \in Seq(PowerEvents) /\ ResumesQueued' \in Nat /\ is_suspend_blocked' \in BOOLEAN
      /\ ResumesQueued' = IF m \in ResumeSignals THEN ResumesQueued + 1 ELSE ResumesQueued
  <2>1. ASSUME NEW e \in PowerEvents, powerQueue' = Append(powerQueue, e)
        PROVE  /\ powerQueue' \in Seq(PowerEvents) /\ ResumesQueued' \in Nat
               /\ ResumesQueued' = IF e = "system_resume" THEN ResumesQueued + 1 ELSE ResumesQueued
    <3>1. powerQueue' \in Seq(PowerEvents)
      BY <1>1, <2>1, AppendProperties
    <3> QED BY <1>1, <2>1, <3>1, PlacesAppended DEF ResumesQueued
  <2>2. CASE m.signal = "BlockInhibited"
    <3>1. PICK b \in BOOLEAN : /\ is_suspend_blocked' = b
                               /\ powerQueue' \in {powerQueue, NotifySuspendBlockState(b)}
      BY <1>2, <2>2 DEF HandlePowerSignal, handle_dbus_change_manager_properties, dbus_get_block_inhibited,
                        BlockCounted
    <3>2. m \notin ResumeSignals
      BY <2>2 DEF ResumeSignals
    <3>3. NotifySuspendBlockState(b) = Append(powerQueue, EventOf(b)) /\ EventOf(b) \in PowerEvents
          /\ EventOf(b) # "system_resume"
      BY DEF NotifySuspendBlockState, EventOf, PowerEvents, BlockEvents
    <3>4. CASE powerQueue' = powerQueue
      BY <1>1, <3>1, <3>2, <3>4 DEF ResumesQueued
    <3> QED BY <2>1, <3>1, <3>2, <3>3, <3>4
  <2>3. CASE m.signal # "BlockInhibited"
    <3>1. /\ powerQueue' = IF m.value THEN powerQueue ELSE Append(powerQueue, "system_resume")
          /\ is_suspend_blocked' \in BOOLEAN
      BY <1>2, <2>3 DEF HandlePowerSignal, BlockCounted
    <3>2. m \in ResumeSignals <=> ~m.value
      BY <2>3 DEF PowerSignalTypes, ResumeSignals
    <3>3. "system_resume" \in PowerEvents
      BY DEF PowerEvents
    <3>4. CASE m.value
      BY <1>1, <3>1, <3>2, <3>4 DEF ResumesQueued
    <3>5. CASE ~m.value
      BY <2>1, <3>1, <3>2, <3>3, <3>5
    <3> QED BY <3>4, <3>5
  <2> QED BY <2>2, <2>3
<1>5. resumesTold' + ResumesQueued' + ResumesSignalled' + Sleeping' <= sleeps'
  <2>1. Sleeping \in Nat /\ Sleeping' = Sleeping /\ resumesTold' = resumesTold /\ sleeps' = sleeps
    BY <1>1 DEF Sleeping
  <2>2. PICK q, r \in Nat : q = ResumesQueued' /\ r = ResumesSignalled'
    BY <1>3, <1>4
  <2>3. q + r = ResumesQueued + ResumesSignalled
    BY <1>1, <1>3, <1>4, <2>2
  <2>4. resumesTold + q + r + Sleeping <= sleeps
    BY <1>1, <2>1, <2>3
  <2> QED BY <2>1, <2>2, <2>4
<1> QED BY <1>1, <1>3, <1>4, <1>5 DEF BlockCounted

\* The daemon takes an event, of a resume or not.
LEMMA EventCounted ==
  ASSUME BlockCounted, DaemonTakesPowerEvent
  PROVE  BlockCounted'
<1>1. /\ powerQueue \in Seq(PowerEvents) /\ powerQueue # <<>> /\ powerQueue' = Tail(powerQueue)
      /\ powerSignals \in Seq(PowerSignalTypes)
      /\ UNCHANGED <<sleepBlocked, logindSleep, sleeps, powerPhase, is_suspend_blocked, powerSignals>>
      /\ ResumesQueued \in Nat /\ ResumesSignalled \in Nat /\ sleeps \in Nat /\ resumesTold \in Nat
      /\ resumesTold + ResumesQueued + ResumesSignalled + Sleeping <= sleeps
  BY ResumesAreCounted DEF BlockCounted, DaemonTakesPowerEvent, logindStateVars, controlVars
<1>2. /\ powerQueue' \in Seq(PowerEvents) /\ ResumesQueued' \in Nat
      /\ ResumesQueued = IF Head(powerQueue) = "system_resume" THEN ResumesQueued' + 1 ELSE ResumesQueued'
  <2>1. powerQueue' \in Seq(PowerEvents)
    BY <1>1, LastTaken
  <2> QED BY <1>1, <2>1, PlacesTaken DEF ResumesQueued
<1>3. /\ resumesTold' = IF Head(powerQueue) = "system_resume" THEN resumesTold + 1 ELSE resumesTold
      /\ machinesBlocked' \in {"unknown", "free", "blocked"}
  BY DEF DaemonTakesPowerEvent, BlockCounted
<1>4. ResumesSignalled' = ResumesSignalled
  BY <1>1 DEF ResumesSignalled
<1>5. /\ resumesTold' \in Nat
      /\ resumesTold' + ResumesQueued' + ResumesSignalled' + Sleeping' <= sleeps'
  <2>1. Sleeping \in Nat /\ Sleeping' = Sleeping /\ sleeps' = sleeps
    BY <1>1 DEF Sleeping
  <2>2. resumesTold' \in Nat /\ resumesTold' + ResumesQueued' = resumesTold + ResumesQueued
    BY <1>1, <1>2, <1>3
  <2> QED BY <1>1, <1>2, <1>4, <2>1, <2>2
<1> QED BY <1>1, <1>2, <1>3, <1>5 DEF BlockCounted

\* Each step, of logind, of its control and of the daemon.
LEMMA NextBlockCounted ==
  ASSUME BlockCounted, [LogindPowerNext]_logindPowerVars
  PROVE  BlockCounted'
<1>1. CASE BlockInhibitedChanges
  <2>1. [signal |-> "BlockInhibited", value |-> sleepBlocked] \in PowerSignalTypes \ ResumeSignals
    BY DEF BlockCounted, PowerSignalTypes, ResumeSignals
  <2> QED BY <1>1, <2>1, SentCounted DEF BlockInhibitedChanges
<1>2. CASE LogindSleeps
  <2>1. [signal |-> "PrepareForSleep", value |-> TRUE] \in PowerSignalTypes \ ResumeSignals
    BY DEF PowerSignalTypes, ResumeSignals
  <2>2. UNCHANGED <<controlVars, powerQueue, daemonSideVars>> /\ sleepBlocked' \in BOOLEAN
        /\ sleeps' = sleeps + 1 /\ logindSleep = "awake" /\ logindSleep' = "asleep"
        /\ Sent([signal |-> "PrepareForSleep", value |-> TRUE])
    BY <1>2 DEF LogindSleeps, BlockCounted
  <2> QED BY <2>1, <2>2, SentCounted
<1>3. CASE LogindResumes
  <2>1. [signal |-> "PrepareForSleep", value |-> FALSE] \in PowerSignalTypes
    BY DEF PowerSignalTypes
  <2>2. UNCHANGED <<controlVars, powerQueue, daemonSideVars, sleeps>> /\ sleepBlocked' \in BOOLEAN
        /\ logindSleep = "asleep" /\ logindSleep' = "awake"
        /\ Sent([signal |-> "PrepareForSleep", value |-> FALSE])
    BY <1>3 DEF LogindResumes, BlockCounted
  <2> QED BY <2>1, <2>2, SentCounted
<1>4. CASE initialize_is_suspend_blocked
  <2>1. PICK b \in BOOLEAN : is_suspend_blocked' = b /\ powerQueue' = Append(powerQueue, EventOf(b))
    <3>1. PICK b \in BOOLEAN : is_suspend_blocked' = b /\ powerQueue' = NotifySuspendBlockState(b)
      BY <1>4 DEF initialize_is_suspend_blocked, dbus_get_block_inhibited, BlockCounted
    <3>2. NotifySuspendBlockState(b) = Append(powerQueue, EventOf(b))
      BY DEF NotifySuspendBlockState, EventOf
    <3> QED BY <3>1, <3>2
  <2>2. EventOf(b) \in PowerEvents /\ EventOf(b) # "system_resume" /\ powerQueue \in Seq(PowerEvents)
    BY DEF EventOf, PowerEvents, BlockEvents, BlockCounted
  <2>3. powerQueue' \in Seq(PowerEvents) /\ ResumesQueued' = ResumesQueued
    BY <2>1, <2>2, AppendProperties, PlacesAppended DEF ResumesQueued
  <2>4. /\ ResumesSignalled' = ResumesSignalled /\ Sleeping' = Sleeping /\ powerPhase' = "started"
        /\ UNCHANGED <<sleepBlocked, logindSleep, sleeps, powerSignals, machinesBlocked, resumesTold>>
    BY <1>4 DEF initialize_is_suspend_blocked, logindStateVars, daemonSideVars, ResumesSignalled,
                Sleeping
  <2> QED BY <2>1, <2>3, <2>4 DEF BlockCounted
<1>5. CASE StartLogindPower \/ DisallowDefaultSystemHandlers \/ AllowDefaultSystemHandlers
             \/ UNCHANGED logindPowerVars
  <2>1. /\ powerPhase' \in {powerPhase, "subscribed"}
        /\ UNCHANGED <<logindStateVars, powerSignals, is_suspend_blocked, powerQueue, daemonSideVars>>
    BY <1>5 DEF StartLogindPower, DisallowDefaultSystemHandlers, AllowDefaultSystemHandlers,
                logindPowerVars, controlVars
  <2> QED BY <2>1 DEF BlockCounted, ResumesQueued, ResumesSignalled, Sleeping, logindStateVars, daemonSideVars
<1> QED BY <1>1, <1>2, <1>3, <1>4, <1>5, SignalCounted, EventCounted DEF LogindPowerNext

-----------------------------------------------------------------------------
\* Ids count from 1, and calls up to their bound.
IdsCounted ==
  /\ callsMade \in 0 .. MaxClientCalls
  /\ nextIds \in [inactivity : Nat \ {0}, suspend : Nat \ {0}]
  /\ 0 \notin DOMAIN keep_display_on_ids /\ 0 \notin DOMAIN request_sys_state_ids

\* No call is made.
LEMMA InitIdsCounted == ScreenInit => IdsCounted
BY ScreenServiceAssumption DEF ScreenInit, IdsCounted

\* Each step: ids are given by two of the calls.
LEMMA NextIdsCounted ==
  ASSUME IdsCounted, [ScreenNext]_screenVars
  PROVE  IdsCounted'
<1>1. CASE ServiceHandles
  <2>1. PICK m : m = Head(busCalls) /\ dbus_method_call(m) /\ callsMade' = callsMade
    BY <1>1 DEF ServiceHandles
  <2>2. ASSUME NEW c, NEW pid PROVE dbus_keepDisplayOn(c, pid) => IdsCounted'
    <3>1. SUFFICES ASSUME dbus_keepDisplayOn(c, pid) PROVE IdsCounted'
      OBVIOUS
    <3>2. DOMAIN keep_display_on_ids' = DOMAIN keep_display_on_ids \cup {nextIds.inactivity}
      BY <3>1 DEF dbus_keepDisplayOn, With
    <3>3. nextIds' \in [inactivity : Nat \ {0}, suspend : Nat \ {0}]
      BY <3>1 DEF dbus_keepDisplayOn, IdsCounted
    <3> QED BY <2>1, <3>1, <3>2, <3>3 DEF dbus_keepDisplayOn, IdsCounted
  <2>3. ASSUME NEW c, NEW pid PROVE dbus_requestSysState(c, pid) => IdsCounted'
    <3>1. SUFFICES ASSUME dbus_requestSysState(c, pid) PROVE IdsCounted'
      OBVIOUS
    <3>2. DOMAIN request_sys_state_ids' = DOMAIN request_sys_state_ids \cup {nextIds.suspend}
      BY <3>1 DEF dbus_requestSysState, With
    <3>3. nextIds' \in [inactivity : Nat \ {0}, suspend : Nat \ {0}]
      BY <3>1 DEF dbus_requestSysState, IdsCounted
    <3> QED BY <2>1, <3>1, <3>2, <3>3 DEF dbus_requestSysState, IdsCounted
  <2>4. ASSUME nextIds' = nextIds, DOMAIN keep_display_on_ids' \subseteq DOMAIN keep_display_on_ids,
               DOMAIN request_sys_state_ids' \subseteq DOMAIN request_sys_state_ids
        PROVE  IdsCounted'
    BY <2>1, <2>4 DEF IdsCounted
  <2>5. ASSUME NEW c, NEW i, NEW pid PROVE dbus_removeDisplayOnRequest(c, i, pid) => IdsCounted'
    BY <2>4 DEF dbus_removeDisplayOnRequest, Restrict
  <2>6. ASSUME NEW c, NEW i, NEW pid PROVE dbus_clearSysState(c, i, pid) => IdsCounted'
    BY <2>4 DEF dbus_clearSysState, Restrict
  <2>7. ASSUME NEW c, NEW mode, NEW pid PROVE dbus_setScreenPowerMode(c, mode, pid) => IdsCounted'
    BY <2>4 DEF dbus_setScreenPowerMode
  <2>8. ASSUME NEW c PROVE dbus_NameOwnerChanged(c) => IdsCounted'
    BY <2>4 DEF dbus_NameOwnerChanged, Restrict
  <2> QED BY <2>1, <2>2, <2>3, <2>5, <2>6, <2>7, <2>8 DEF dbus_method_call
<1>2. CASE ClientCalling
  <2>1. callsMade' \in 0 .. MaxClientCalls
    BY <1>2, ScreenServiceAssumption DEF ClientCalling, IdsCounted
  <2> QED BY <1>2, <2>1 DEF ClientCalling, IdsCounted, serviceVars
<1>3. CASE UNCHANGED <<callsMade, serviceVars>>
  BY <1>3 DEF IdsCounted, serviceVars
<1> QED BY <1>1, <1>2, <1>3 DEF ScreenNext, screenVars, LogindOrTracker, ClientLeaves, DaemonTakesRequest,
                                DaemonTakesSession

-----------------------------------------------------------------------------
\* Of brightness: what the user set, what the light asks for, dim or off.
LightBrightness == {BrightnessOf[l] : l \in Lights}
NormalBrightness == UserValues \cup LightBrightness
ValuesTyped ==
  /\ backlight \in {unknown_brightness, 0, DimBrightness} \cup NormalBrightness
  /\ user_normal_brightness \in UserValues /\ normal_brightness \in NormalBrightness
  /\ lightsAveraged \subseteq [light : Lights, period : Nat]
  /\ \A i \in DOMAIN backlightQueue :
       /\ backlightQueue[i].task = "value" => backlightQueue[i].value \in UserValues
       /\ backlightQueue[i].task = "light" => backlightQueue[i].reading.light \in Lights
  /\ sensorThread \in {"none", "loop", "handler", "ended"}

\* Nothing is lit.
LEMMA InitValuesTyped == BrightnessInit => ValuesTyped
<1> SUFFICES ASSUME BrightnessInit PROVE ValuesTyped
  OBVIOUS
<1>1. DOMAIN backlightQueue = {}
  BY EmptyQueue DEF BrightnessInit
<1> QED BY <1>1 DEF BrightnessInit, ValuesTyped, NormalBrightness

\* The task at the head is done: the control has a value of those there are.
LEMMA TaskTyped ==
  ASSUME LightInv, ValuesTyped, BacklightRuns
  PROVE  ValuesTyped'
<1>1. /\ backlightQueue \in Seq(BacklightTasks) /\ backlightQueue # <<>>
      /\ backlightQueue' = Tail(backlightQueue) /\ sensorThread' = sensorThread
  BY DEF LightInv, LightTyped, BacklightRuns, sensorVars
<1>2. /\ \A i \in DOMAIN backlightQueue' : i + 1 \in DOMAIN backlightQueue
                                         /\ backlightQueue'[i] = backlightQueue[i + 1]
      /\ 1 \in DOMAIN backlightQueue /\ Head(backlightQueue) = backlightQueue[1]
  <2>1. PICK q \in Seq(BacklightTasks) : q = backlightQueue /\ q # <<>>
    BY <1>1
  <2>2. /\ \A i \in DOMAIN Tail(q) : i + 1 \in DOMAIN q /\ Tail(q)[i] = q[i + 1]
        /\ 1 \in DOMAIN q /\ Head(q) = q[1]
    BY <2>1, HeadTailProperties, EmptySeq, LenProperties
  <2> QED BY <1>1, <2>1, <2>2
<1>3. PICK t \in BacklightTasks : t = Head(backlightQueue)
  BY <1>1, LastTaken
<1>4. /\ t.task = "value" => t.value \in UserValues
      /\ t.task = "light" => t.reading \in Readings
  BY <1>2, <1>3, KindsOfBacklightTasks DEF ValuesTyped, LightTasks
<1>5. /\ \A i \in DOMAIN backlightQueue' :
           /\ backlightQueue'[i].task = "value" => backlightQueue'[i].value \in UserValues
           /\ backlightQueue'[i].task = "light" => backlightQueue'[i].reading.light \in Lights
  BY <1>2 DEF ValuesTyped
<1>6. /\ backlight' \in {unknown_brightness, 0, DimBrightness} \cup NormalBrightness
      /\ user_normal_brightness' \in UserValues /\ normal_brightness' \in NormalBrightness
      /\ lightsAveraged' \subseteq [light : Lights, period : Nat]
  <2>1. CASE t.task = "light" /\ new_light_value(t.reading)
    <3>1. PICK b : b = BrightnessOf[t.reading.light] /\ b \in NormalBrightness
      BY <1>4, <2>1 DEF Readings, NormalBrightness, LightBrightness
    <3>2. UNCHANGED controlState \/ HandleAutobrightness(b)
      BY <2>1, <3>1 DEF new_light_value
    <3>3. lightsAveraged' \subseteq lightsAveraged \cup {t.reading}
      BY <2>1 DEF new_light_value, update_averages
    <3> QED BY <1>4, <2>1, <3>1, <3>2, <3>3
            DEF controlState, HandleAutobrightness, TransitionTo, NoTransition, ValuesTyped, Readings
  <2>2. CASE t.task = "value" /\ set_normal_brightness_value(t.value)
    BY <1>4, <2>2 DEF set_normal_brightness_value, NoSensor, algorithmVars, TransitionTo, NoTransition,
                      ValuesTyped, NormalBrightness
  <2>3. CASE disable_autobrightness \/ set_off_brightness
    BY <2>3 DEF disable_autobrightness, set_off_brightness, NoSensor, StartOrStop, reset, controlState,
                algorithmVars, TransitionTo, NoTransition, ValuesTyped, NormalBrightness
  <2>4. CASE enable_autobrightness \/ set_dim_brightness \/ set_normal_brightness
    BY <2>4 DEF enable_autobrightness, set_dim_brightness, set_normal_brightness, NoSensor, StartOrStop, reset,
                algorithmVars, TransitionTo, NoTransition, ValuesTyped, NormalBrightness
  <2> QED BY <1>3, <2>1, <2>2, <2>3, <2>4 DEF BacklightRuns
<1> QED BY <1>1, <1>5, <1>6 DEF ValuesTyped

\* A task is queued whose value or reading is one of those there are.
LEMMA TaskAdded ==
  ASSUME LightInv, ValuesTyped, NEW t \in BacklightTasks, backlightQueue' = Append(backlightQueue, t),
         t.task = "value" => t.value \in UserValues, t.task = "light" => t.reading.light \in Lights
  PROVE  \A i \in DOMAIN backlightQueue' :
           /\ backlightQueue'[i].task = "value" => backlightQueue'[i].value \in UserValues
           /\ backlightQueue'[i].task = "light" => backlightQueue'[i].reading.light \in Lights
<1>1. PICK q \in Seq(BacklightTasks) : q = backlightQueue
  BY DEF LightInv, LightTyped
<1>2. \A i \in DOMAIN Append(q, t) : (i \in DOMAIN q /\ Append(q, t)[i] = q[i]) \/ Append(q, t)[i] = t
  <2>1. /\ Append(q, t) \in Seq(BacklightTasks) /\ Len(Append(q, t)) = Len(q) + 1 /\ Len(q) \in Nat
        /\ \A i \in 1 .. Len(q) : Append(q, t)[i] = q[i]
        /\ Append(q, t)[Len(q) + 1] = t
    BY AppendProperties
  <2>2. DOMAIN Append(q, t) = 1 .. Len(q) + 1 /\ DOMAIN q = 1 .. Len(q)
    BY <2>1, LenProperties
  <2> QED BY <2>1, <2>2
<1> QED BY <1>1, <1>2 DEF ValuesTyped

\* Each step: values come from the user and from readings.
LEMMA NextValuesTyped ==
  ASSUME LightInv, ValuesTyped, [BrightnessNext]_brightnessVars
  PROVE  ValuesTyped'
<1>1. CASE DaemonCalls
  <2>1. PICK c \in BrightnessCalls : backlightQueue' = Append(backlightQueue, c)
    BY <1>1 DEF DaemonCalls
  <2>2. c \in BacklightTasks /\ c.task # "light" /\ (c.task = "value" => c.value \in UserValues)
    BY BrightnessAssumption DEF BrightnessCalls, BrightnessTask, BacklightTasks, CallTasks
  <2>3. \A i \in DOMAIN backlightQueue' :
          /\ backlightQueue'[i].task = "value" => backlightQueue'[i].value \in UserValues
          /\ backlightQueue'[i].task = "light" => backlightQueue'[i].reading.light \in Lights
    BY <2>1, <2>2, TaskAdded
  <2> QED BY <1>1, <2>3 DEF DaemonCalls, controlState, algorithmVars, sensorVars, ValuesTyped
<1>2. CASE handle_light_event
  <2>1. PICK l \in Lights : backlightQueue' = Append(backlightQueue, LightTask(l))
    BY <1>2 DEF handle_light_event
  <2>2. PICK t : t = LightTask(l)
    OBVIOUS
  <2>3. t \in BacklightTasks /\ t.task = "light" /\ t.reading.light \in Lights
    BY <2>2 DEF LightTask, BacklightTasks, LightTasks, Readings, LightInv, LightTyped
  <2>4. \A i \in DOMAIN backlightQueue' :
          /\ backlightQueue'[i].task = "value" => backlightQueue'[i].value \in UserValues
          /\ backlightQueue'[i].task = "light" => backlightQueue'[i].reading.light \in Lights
    BY <2>1, <2>2, <2>3, TaskAdded
  <2> QED BY <1>2, <2>4 DEF handle_light_event, controlState, algorithmVars, ValuesTyped
<1>3. CASE DebounceGoesOff
  <2>1. UNCHANGED <<backlightQueue, sensorThread, lightsAveraged>>
    BY <1>3 DEF DebounceGoesOff, sensorVars
  <2>2. UNCHANGED controlState \/ \E r \in lightsAveraged : HandleAutobrightness(BrightnessOf[r.light])
    BY <1>3 DEF DebounceGoesOff
  <2>3. ASSUME NEW b \in NormalBrightness, HandleAutobrightness(b)
        PROVE  /\ backlight' \in {unknown_brightness, 0, DimBrightness} \cup NormalBrightness
               /\ user_normal_brightness' \in UserValues /\ normal_brightness' \in NormalBrightness
    BY <2>3 DEF HandleAutobrightness, TransitionTo, NoTransition, controlState, ValuesTyped
  <2>4. \A r \in lightsAveraged : BrightnessOf[r.light] \in NormalBrightness
    BY DEF ValuesTyped, NormalBrightness, LightBrightness
  <2> QED BY <2>1, <2>2, <2>3, <2>4 DEF controlState, ValuesTyped
<1>4. CASE enable_light_events \/ disable_light_events \/ SensorThreadJoined \/ SensorReads
  BY <1>4 DEF enable_light_events, disable_light_events, SensorThreadJoined, SensorReads, controlState,
              algorithmVars, ValuesTyped
<1>5. CASE UNCHANGED brightnessVars
  BY <1>5 DEF brightnessVars, controlState, algorithmVars, sensorVars, ValuesTyped
<1> QED BY <1>1, <1>2, <1>3, <1>4, <1>5, TaskTyped DEF BrightnessNext

-----------------------------------------------------------------------------
\* Levels and brightnesses are not negative, but for what is not determined
\* and where a transition from there begins.
LevelsTyped ==
  /\ backlightLevel >= 0 /\ (backlightKind = "sysfs" => backlightLevel <= MaxLevel)
  /\ last_set_brightness = Undetermined \/ last_set_brightness >= 0
  /\ fadeTo \in FadeTargets \cup {0}
  /\ fadeAt >= 0 \/ fadeAt = fadeTo - Units

\* Nothing is lit.
LEMMA InitLevelsTyped == BacklightsInit => LevelsTyped
BY BacklightsAssumption DEF BacklightsInit, LevelsTyped

\* The level of a brightness.
LEMMA LevelIsNatural ==
  ASSUME NEW v \in Nat
  PROVE  absolute_brightness_for(v) \in Nat
<1>1. Units \in Int /\ Units > 0 /\ MaxLevel \in Int /\ MaxLevel > 0
  BY BacklightsAssumption
<1>2. PICK q \in Int : /\ q = absolute_brightness_for(v)
                       /\ 2 * v * MaxLevel + Units < q * (2 * Units) + 2 * Units
  BY NearestLevel
<1>3. PICK m \in Int : m = 2 * v * MaxLevel /\ m >= 0
  <2>1. v * MaxLevel \in Nat
    BY <1>1
  <2>2. 2 * v * MaxLevel = 2 * (v * MaxLevel)
    BY <1>1
  <2> QED BY <2>1, <2>2
<1>4. ASSUME q < 0 PROVE FALSE
  <2>1. q + 1 <= 0
    BY <1>4
  <2>2. (q + 1) * (2 * Units) <= 0
    BY <1>1, <2>1
  <2>3. (q + 1) * (2 * Units) = q * (2 * Units) + 2 * Units
    BY <1>1
  <2> QED BY <1>1, <1>2, <1>3, <2>2, <2>3
<1> QED BY <1>2, <1>4

\* What is read is not determined, or a brightness.
LEMMA ReadIsNatural ==
  ASSUME DeviceTyped, LevelsTyped
  PROVE  get_brightness = Undetermined \/ get_brightness \in Nat
<1>1. CASE get_brightness = last_set_brightness
  BY <1>1 DEF DeviceTyped, LevelsTyped
<1>2. CASE get_brightness = backlightLevel * (Units \div MaxLevel)
  <2>1. Units \in Int /\ MaxLevel \in Int /\ MaxLevel > 0 /\ Units > 0
    BY BacklightsAssumption
  <2>2. PICK k : k = Units \div MaxLevel
    OBVIOUS
  <2>3. k \in Int /\ Units < k * MaxLevel + MaxLevel
    BY <2>1, <2>2, Quotient
  <2>4. ASSUME k < 0 PROVE FALSE
    <3>1. (k + 1) * MaxLevel <= 0
      BY <2>1, <2>3, <2>4
    <3>2. (k + 1) * MaxLevel = k * MaxLevel + MaxLevel
      BY <2>1, <2>3
    <3> QED BY <2>1, <2>3, <3>1, <3>2
  <2>5. backlightLevel \in Nat
    BY DEF DeviceTyped, LevelsTyped
  <2>6. k \in Nat
    BY <2>3, <2>4
  <2>7. backlightLevel * k \in Nat
    BY <2>5, <2>6
  <2> QED BY <1>2, <2>2, <2>7
<1> QED BY <1>1, <1>2 DEF get_brightness

\* Each step: one from where nothing is determined comes to the end at once.
LEMMA NextLevelsTyped ==
  ASSUME DeviceTyped, LevelsTyped, [BacklightsNext]_backlightsVars
  PROVE  LevelsTyped'
<1>0. /\ Units \in Int /\ Units > 0 /\ MaxLevel \in Int /\ FadeTargets \subseteq Nat
      /\ fadeAt \in Int /\ fadeTo \in Int /\ fadeTo >= 0
  BY BacklightsAssumption DEF DeviceTyped, LevelsTyped
<1>1. CASE OthersWrite
  BY <1>0, <1>1 DEF OthersWrite, LevelsTyped, Undetermined
<1>2. CASE BeginFade
  <2>1. PICK b \in FadeTargets :
          fadeTo' = b /\ fadeAt' = IF get_brightness = Undetermined THEN b - Units ELSE get_brightness
    BY <1>2 DEF BeginFade
  <2>2. fadeAt' >= 0 \/ fadeAt' = fadeTo' - Units
    BY <2>1, ReadIsNatural
  <2> QED BY <1>2, <2>1, <2>2 DEF BeginFade, LevelsTyped, Undetermined
<1>3. CASE FadeStep
  <2>1. PICK at \in Int, to \in Nat : at = fadeAt /\ to = fadeTo /\ at # to
    BY <1>0, <1>3 DEF FadeStep
  <2>2. at >= 0 \/ at = to - Units
    BY <2>1 DEF LevelsTyped
  <2>3. NextBrightness(at, to) \in Nat
    <3>1. CASE at < to
      BY <1>0, <2>1, <2>2, <3>1 DEF NextBrightness
    <3>2. CASE at > to
      BY <1>0, <2>1, <2>2, <3>2 DEF NextBrightness
    <3> QED BY <2>1, <3>1, <3>2
  <2>4. PICK v \in Nat : v = fadeAt' /\ (SetSysfs(v) \/ SetAndroid(v))
    BY <1>3, <2>1, <2>3 DEF FadeStep
  <2>5. PICK l \in Nat : l = absolute_brightness_for(v)
    BY LevelIsNatural
  <2>6. UNCHANGED <<backlightKind, fadeTo>>
    BY <1>3 DEF FadeStep
  <2>7. /\ backlightLevel' >= 0 /\ (backlightKind = "sysfs" => backlightLevel' <= MaxLevel)
        /\ last_set_brightness' = Undetermined \/ last_set_brightness' >= 0
    BY <1>0, <2>4, <2>5 DEF SetSysfs, SetAndroid, LevelsTyped, Undetermined
  <2> QED BY <2>4, <2>6, <2>7 DEF LevelsTyped, Undetermined
<1>4. CASE FadeEnds \/ UNCHANGED backlightsVars
  BY <1>4 DEF FadeEnds, backlightsVars, LevelsTyped, Undetermined
<1> QED BY <1>1, <1>2, <1>3, <1>4 DEF BacklightsNext

\* The backlight.
LEMMA BacklightTypes == DeviceTyped /\ LevelsTyped => BacklightsTypeOK
<1> SUFFICES ASSUME DeviceTyped, LevelsTyped PROVE BacklightsTypeOK
  OBVIOUS
<1>1. Undetermined \in Int /\ Undetermined <= 0
  BY BacklightsAssumption DEF Undetermined
<1>2. get_brightness >= Undetermined
  BY <1>1, ReadIsNatural
<1> QED BY <1>2 DEF DeviceTyped, LevelsTyped, BacklightsTypeOK

-----------------------------------------------------------------------------
(* What each type follows from.                                            *)

\* A source that a cancellation refers to is that of an alarm that was scheduled.
RefsTyped == lastAlarm \in Nat /\ alarmRefs \subseteq 1 .. lastAlarm

\* Each step: a reference is made with its alarm.
LEMMA NextRefsTyped ==
  ASSUME RefsTyped, [AlarmNext]_alarmVars
  PROVE  RefsTyped'
<1>1. CASE ScheduleAlarm
  BY <1>1 DEF RefsTyped, ScheduleAlarm
<1>2. ASSUME NEW i PROVE cancel_alarm_unqueued(i) /\ UNCHANGED lastAlarm => RefsTyped'
  BY DEF RefsTyped, cancel_alarm_unqueued
<1>3. CASE UNCHANGED <<lastAlarm, alarmRefs>>
  BY <1>3 DEF RefsTyped
<1> QED BY <1>1, <1>2, <1>3 DEF AlarmNext, alarmVars, AttachAlarm, CancelAlarm, TakeAlarm, AlarmGoesOff,
                                StoreCancellation, RunCancel

\* The timer.
LEMMA AlarmTypes == AInv /\ RefsTyped => AlarmTypeOK
<1> SUFFICES ASSUME AInv, RefsTyped PROVE AlarmTypeOK
  OBVIOUS
<1>1. Scheduled \subseteq Alarms /\ Attached \subseteq Scheduled
  BY AlarmTableAssumption DEF AInv, AlarmsTyped, Scheduled, Attached, Alarms
<1>2. DOMAIN alarmTable \subseteq AlarmIds /\ Range(alarmTable) \subseteq Alarms
  <2>1. \A i \in DOMAIN alarmTable : alarmTable[i] \in Scheduled /\ AlarmIdOf(alarmTable[i]) = i
    BY DEF AInv, OnlyScheduled
  <2>2. Alarms \subseteq Nat
    BY DEF Alarms
  <2> QED BY <1>1, <2>1, <2>2, IdsOfAlarms DEF Range
<1>3. alarmRefs \subseteq Alarms
  BY <1>1 DEF RefsTyped, Scheduled
<1> QED BY <1>1, <1>2, <1>3 DEF AInv, AlarmsTyped, OnlyScheduled, AlarmTypeOK

\* Seat, sessions and clients.
LEMMA ScreenTypes ==
  TrackerInv /\ ServiceTyped /\ RequestInv /\ IdsCounted => TrackerTypeOK /\ ScreenTypeOK
<1> SUFFICES ASSUME TrackerInv, ServiceTyped, RequestInv, IdsCounted PROVE TrackerTypeOK /\ ScreenTypeOK
  OBVIOUS
<1>1. TrackerTypeOK
  BY DEF TrackerInv, TrackerTyped, TrackerTypeOK, AnySession
<1>2. PICK a \in Nat, b \in Nat : a = nextIds.inactivity /\ b = nextIds.suspend
  BY DEF IdsCounted
<1>3. \A i \in DOMAIN keep_display_on_ids : i \in 1 .. a - 1
  BY <1>2 DEF ServiceTyped, TablesTyped, IdsCounted, RequestInv, IdsAreUsed
<1>4. \A i \in DOMAIN request_sys_state_ids : i \in 1 .. b - 1
  BY <1>2 DEF ServiceTyped, TablesTyped, IdsCounted, RequestInv, IdsAreUsed
<1>5. DOMAIN held = daemonSessions
  BY DEF RequestInv, RequestsAreRouted
<1> QED BY <1>1, <1>2, <1>3, <1>4, <1>5 DEF ServiceTyped, TablesTyped, IdsCounted, ScreenTypeOK

\* Wake locks and blocks of sleep.
LEMMA PowerTypes == LInv /\ BlockCounted => PowerTypeOK /\ LogindPowerTypeOK
<1> SUFFICES ASSUME LInv, BlockCounted PROVE PowerTypeOK /\ LogindPowerTypeOK
  OBVIOUS
<1>1. PowerTypeOK
  BY DEF LInv, LocksTyped, LockoutCounts, PowerTypeOK
<1>2. resumesTold \in 0 .. sleeps
  <2>1. PICK a \in Nat, b \in Nat : a = ResumesQueued /\ b = ResumesSignalled
    BY ResumesAreCounted DEF BlockCounted
  <2>2. PICK c \in Nat : c = Sleeping
    BY DEF Sleeping
  <2> QED BY <2>1, <2>2 DEF BlockCounted
<1> QED BY <1>1, <1>2 DEF BlockCounted, LogindPowerTypeOK

\* Calls, light, supply and outputs.
LEMMA DeviceIsTyped ==
  VoiceInv /\ ControlInv /\ ValuesTyped /\ SourceTyped /\ OutputInv =>
    VoiceTypeOK /\ BrightnessTypeOK /\ PowerSourceTypeOK /\ DisplayTypeOK
<1> SUFFICES ASSUME VoiceInv, ControlInv, ValuesTyped, SourceTyped, OutputInv
             PROVE  VoiceTypeOK /\ BrightnessTypeOK /\ PowerSourceTypeOK /\ DisplayTypeOK
  OBVIOUS
<1>1. VoiceTypeOK
  BY DEF VoiceInv, VoiceTyped, VoiceTypeOK, IsCallTable
<1>2. BrightnessTypeOK
  BY DEF ControlInv, ControlTyped, LightInv, LightTyped, ValuesTyped, NormalBrightness, LightBrightness,
         BrightnessTypeOK
<1>3. PowerSourceTypeOK
  BY DEF SourceTyped, Devices, PowerSourceTypeOK
<1>4. DisplayTypeOK
  BY DEF OutputInv
<1> QED BY <1>1, <1>2, <1>3, <1>4

\* Settings, the run, the start and the files.
LEMMA RunTypes ==
  SetInv /\ LifeInv /\ StartInv /\ ConfigInv => SettingsTypeOK /\ LifeTypeOK /\ StartTypeOK /\ FileTypeOK
<1> SUFFICES ASSUME SetInv, LifeInv, StartInv, ConfigInv
             PROVE  SettingsTypeOK /\ LifeTypeOK /\ StartTypeOK /\ FileTypeOK
  OBVIOUS
<1>1. SettingsTypeOK
  BY DEF SetInv, SettingsTyped, SettingsTypeOK, ControlFollows, AnySettingSession, ControlIsRecord
<1>2. LifeTypeOK
  <2>1. 1 .. Len(register_event_handlers) = 1 .. 3
    BY DEF register_event_handlers
  <2> QED BY <2>1 DEF LifeInv, LifeTyped, MutexHeld, MainPlaces, HandlerPlaces, LifeTypeOK
<1>3. StartTypeOK
  <2>1. \A o \in DOMAIN built : \E a \in Range(Objects[o]) : a.name = built[o]
    BY DEF StartInv, TriedInTurn, Range
  <2>2. DOMAIN built \subseteq DOMAIN Objects
    BY ObjectsAre DEF StartInv, CallsInOrder
  <2> QED BY <2>1, <2>2 DEF StartInv, CallsInOrder, PortsAskedInTurn, StartTypeOK
<1>4. FileTypeOK
  BY DEF ConfigInv, ConfigTyped, FileTypeOK
<1> QED BY <1>1, <1>2, <1>3, <1>4

-----------------------------------------------------------------------------
\* The invariants that the types rest on, of all parts in one behaviour.
TypesInv ==
  /\ AInv /\ RefsTyped /\ TrackerInv /\ ServiceTyped /\ RequestInv /\ IdsCounted
  /\ LInv /\ BlockCounted /\ TimesTyped /\ VoiceInv /\ ControlInv /\ ValuesTyped
  /\ SourceTyped /\ OutputInv /\ SetInv /\ LifeInv /\ StartInv /\ ConfigInv
  /\ FadeInv /\ LevelsTyped

\* Every part is where it starts.
LEMMA InitTypesInv == AdaptersInit => TypesInv
<1> SUFFICES ASSUME AdaptersInit PROVE TypesInv
  OBVIOUS
<1>1. RefsTyped
  BY DEF AdaptersInit, AlarmInit, RefsTyped
<1>2. TrackerInv /\ ServiceTyped /\ RequestInv /\ IdsCounted
  BY InitSInv, InitRequests, InitIdsCounted DEF AdaptersInit
<1>3. AInv /\ LInv /\ BlockCounted /\ TimesTyped /\ VoiceInv /\ SourceTyped /\ OutputInv
  BY InitAInv, InitLInv, InitBlockCounted, InitTimesTyped, InitVoiceInv, InitSourceTyped, InitOutputInv
     DEF AdaptersInit
<1>4. ControlInv /\ ValuesTyped /\ FadeInv /\ LevelsTyped
  BY InitControlInv, InitValuesTyped, InitFadeInv, InitLevelsTyped DEF AdaptersInit
<1>5. SetInv /\ LifeInv /\ StartInv /\ ConfigInv
  BY InitSetInv, InitLifeInv, InitStartInv, InitConfigInv DEF AdaptersInit
<1> QED BY <1>1, <1>2, <1>3, <1>4, <1>5 DEF TypesInv

\* A step of one part is a step of each, or leaves it alone.
LEMMA NextTypesInv ==
  ASSUME TypesInv, [AdaptersNext]_adapterVars
  PROVE  TypesInv'
<1>1. AInv' /\ RefsTyped'
  BY StepOfPart, NextAInv, NextRefsTyped DEF TypesInv
<1>2. TrackerInv' /\ ServiceTyped' /\ RequestInv' /\ IdsCounted'
  BY StepOfPart, NextSInv, NextRequests, NextIdsCounted DEF TypesInv
<1>3. LInv' /\ BlockCounted' /\ TimesTyped' /\ VoiceInv'
  BY StepOfPart, NextLInv, NextBlockCounted, NextTimesTyped, NextVoiceInv DEF TypesInv
<1>4. ControlInv' /\ ValuesTyped'
  BY StepOfPart, NextControlInv, NextValuesTyped DEF TypesInv, ControlInv
<1>5. SourceTyped' /\ OutputInv' /\ SetInv'
  BY StepOfPart, NextSourceTyped, NextOutputInv, NextSetInv DEF TypesInv
<1>6. LifeInv' /\ StartInv' /\ ConfigInv'
  BY StepOfPart, NextLifeInv, NextStartInv, NextConfigInv DEF TypesInv
<1>7. FadeInv' /\ LevelsTyped'
  BY StepOfPart, NextFadeInv, NextLevelsTyped DEF TypesInv, FadeInv
<1> QED BY <1>1, <1>2, <1>3, <1>4, <1>5, <1>6, <1>7 DEF TypesInv

\* Of every component around the machines: its state is one of those that its
\* types name, for any sets of alarms, sessions, clients, wakeups, calls, modems,
\* batteries, lights and levels.
THEOREM TypesCorrect == AdaptersSpec => []AdaptersTypeOK
<1>1. TypesInv => AdaptersTypeOK
  <2> SUFFICES ASSUME TypesInv PROVE AdaptersTypeOK
    OBVIOUS
  <2>1. AlarmTypeOK /\ TrackerTypeOK /\ ScreenTypeOK
    BY AlarmTypes, ScreenTypes DEF TypesInv
  <2>2. PowerTypeOK /\ LogindPowerTypeOK
    BY PowerTypes DEF TypesInv
  <2>3. WakeupsTypeOK
    BY DEF TypesInv, TimesTyped, WakeupsTypeOK
  <2>4. VoiceTypeOK /\ BrightnessTypeOK /\ PowerSourceTypeOK /\ DisplayTypeOK
    BY DeviceIsTyped DEF TypesInv
  <2>5. SettingsTypeOK /\ LifeTypeOK /\ StartTypeOK /\ FileTypeOK
    BY RunTypes DEF TypesInv
  <2>6. BacklightsTypeOK
    BY BacklightTypes DEF TypesInv, FadeInv
  <2> QED BY <2>1, <2>2, <2>3, <2>4, <2>5, <2>6 DEF AdaptersTypeOK
<1> QED BY <1>1, InitTypesInv, NextTypesInv, PTL DEF AdaptersSpec

=============================================================================
