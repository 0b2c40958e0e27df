----------------------------- MODULE VoiceCalls -----------------------------
(***************************************************************************)
(* What OfonoVoiceCallService learns of oFono's calls and modems, and what *)
(* it makes of it: the sessions are told when there begins to be an active *)
(* call and when there is none left, and each modem is told of low power.  *)
(* Signals and tasks run in turn on the service's loop; the modems that    *)
(* exist at the start are asked for after the signals were subscribed to;  *)
(* the calls that exist are not.  OFono may crash: nobody watches its name.*)
(***************************************************************************)
EXTENDS Naturals, Sequences, Functions, Tables

CONSTANTS
  CallPaths, Modems,
  MaxOfonoChanges,   \* bound: changes of calls and modems, and low power changes
  MaxOfonoSignals    \* bound: how many wait on the loop

ASSUME VoiceCallsAssumption == {MaxOfonoChanges, MaxOfonoSignals} \subseteq Nat

VARIABLES
  ofonoCalls,        \* of oFono: state by path
  ofonoModems,
  ofonoCrashed,
  unheardCalls,      \* history: calls that were last signalled before the service listened
  ofonoChanges,
  ofonoLoop,         \* signals and tasks on the service's loop
  callPhase,         \* how far start_processing has come
  calls, modems,     \* the service's tables
  callEvents,        \* what the daemon has been told and not handled
  inCall,            \* what the machines know
  fastDormancy       \* modems that have been told of low power

ofonoVars == <<ofonoCalls, ofonoModems, ofonoCrashed, unheardCalls>>
callServiceVars == <<callPhase, calls, modems>>
callDaemonVars == <<callEvents, inCall>>
voiceVars == <<ofonoVars, ofonoChanges, ofonoLoop, callServiceVars, callDaemonVars, fastDormancy>>

Nothing == [x \in {} |-> x]

VoiceInit ==
  /\ ofonoCalls = Nothing /\ ofonoModems \in SUBSET Modems
  /\ ofonoCrashed = FALSE /\ unheardCalls = {} /\ ofonoChanges = 0
  /\ ofonoLoop = <<>> /\ callPhase = "stopped" /\ calls = Nothing /\ modems = {}
  /\ callEvents = <<>> /\ inCall = FALSE /\ fastDormancy = {}

-----------------------------------------------------------------------------
(* OFono, and the daemon that asks for low power.                          *)

\* "active" stands for alerting too, "held" for incoming and waiting.
OfonoStates == {"active", "dialing", "held"}

OfonoSignalled(m) ==
  /\ ofonoChanges < MaxOfonoChanges /\ Len(ofonoLoop) < MaxOfonoSignals
  /\ ofonoChanges' = ofonoChanges + 1
  /\ ofonoLoop' = IF callPhase = "stopped" THEN ofonoLoop ELSE Append(ofonoLoop, m)
  /\ UNCHANGED <<callServiceVars, callDaemonVars, fastDormancy, ofonoCrashed>>

\* It is heard if the service listens.
CallSignalled(g, c, s) ==
  /\ OfonoSignalled([signal |-> g, path |-> c, state |-> s])
  /\ unheardCalls' = IF callPhase = "stopped" /\ s # "invalid" THEN unheardCalls \cup {c}
                     ELSE unheardCalls \ {c}
  /\ UNCHANGED ofonoModems

CallAdded ==
  \E c \in CallPaths \ DOMAIN ofonoCalls : \E s \in OfonoStates :
    ofonoCalls' = With(ofonoCalls, c, s) /\ CallSignalled("CallAdded", c, s)

CallStateChanges ==
  \E c \in DOMAIN ofonoCalls : \E s \in OfonoStates \ {ofonoCalls[c]} :
    ofonoCalls' = [ofonoCalls EXCEPT ![c] = s] /\ CallSignalled("PropertyChanged", c, s)

CallRemoved ==
  \E c \in DOMAIN ofonoCalls :
    /\ ofonoCalls' = Restrict(ofonoCalls, DOMAIN ofonoCalls \ {c})
    /\ CallSignalled("CallRemoved", c, "invalid")

ModemAdded ==
  /\ \E m \in Modems \ ofonoModems :
       /\ ofonoModems' = ofonoModems \cup {m}
       /\ OfonoSignalled([signal |-> "ModemAdded", path |-> m, state |-> "none"])
  /\ UNCHANGED <<ofonoCalls, unheardCalls>>

ModemRemoved ==
  /\ \E m \in ofonoModems :
       /\ ofonoModems' = ofonoModems \ {m}
       /\ OfonoSignalled([signal |-> "ModemRemoved", path |-> m, state |-> "none"])
  /\ UNCHANGED <<ofonoCalls, unheardCalls>>

\* No signal is sent, and none by the oFono that comes after it for these.
OfonoCrashes ==
  /\ ~ofonoCrashed /\ ofonoChanges < MaxOfonoChanges
  /\ ofonoCrashed' = TRUE /\ ofonoChanges' = ofonoChanges + 1
  /\ ofonoCalls' = Nothing /\ ofonoModems' = {} /\ unheardCalls' = {}
  /\ UNCHANGED <<ofonoLoop, callServiceVars, callDaemonVars, fastDormancy>>

\* set_low_power_mode and set_normal_power_mode, called by the active session.
set_power_mode ==
  /\ callPhase = "started"
  /\ \E mode \in {"low", "normal"} :
       OfonoSignalled([signal |-> "set_fast_dormancy", path |-> "none", state |-> mode])
  /\ UNCHANGED <<ofonoCalls, ofonoModems, unheardCalls>>

-----------------------------------------------------------------------------
(* The service's loop.                                                     *)

start_processing ==
  /\ callPhase = "stopped" /\ callPhase' = "subscribed"
  /\ UNCHANGED <<ofonoVars, ofonoChanges, ofonoLoop, calls, modems, callDaemonVars, fastDormancy>>

\* Adds to the table what oFono answers; without an oFono, nothing.
add_existing_modems ==
  /\ callPhase = "subscribed" /\ callPhase' = "started"
  /\ modems' = modems \cup ofonoModems
  /\ UNCHANGED <<ofonoVars, ofonoChanges, ofonoLoop, calls, callDaemonVars, fastDormancy>>

is_call_state_active(s) == s \in {"active", "dialing"}

is_any_call_active(table) == \E c \in DOMAIN table : is_call_state_active(table[c])

\* Mutant: the end of one active call is taken for the end of all.
UpdateForgetsOthers(c, s) ==
  LET old == IF c \in DOMAIN calls THEN calls[c] ELSE "invalid"
  IN /\ calls' = IF s = "invalid" THEN Restrict(calls, DOMAIN calls \ {c}) ELSE With(calls, c, s)
     /\ callEvents' = callEvents \o
          (IF is_call_state_active(old) = is_call_state_active(s) THEN <<>>
           ELSE IF is_call_state_active(s) THEN <<"active_call">> ELSE <<"no_active_call">>)

update_call_state(c, s) ==
  LET old == IF c \in DOMAIN calls THEN calls[c] ELSE "invalid"
  IN /\ calls' = IF s = "invalid" THEN Restrict(calls, DOMAIN calls \ {c}) ELSE With(calls, c, s)
     /\ callEvents' = callEvents \o
          (IF ~is_call_state_active(old) /\ is_call_state_active(s) THEN <<"active_call">>
           ELSE IF is_call_state_active(old) /\ ~is_call_state_active(s) /\ ~is_any_call_active(calls')
           THEN <<"no_active_call">> ELSE <<>>)

\* Mutant: a modem that is removed stays in the table.
ModemsOnlyAdded(m) ==
  modems' = IF m.signal = "ModemAdded" THEN modems \cup {m.path} ELSE modems

dbus_ModemAddedOrRemoved(m) ==
  modems' = IF m.signal = "ModemAdded" THEN modems \cup {m.path} ELSE modems \ {m.path}

handle_dbus_signal(m) ==
  \/ /\ m.signal \in {"CallAdded", "PropertyChanged", "CallRemoved"}
     /\ update_call_state(m.path, m.state)
     /\ UNCHANGED <<modems, fastDormancy>>
  \/ /\ m.signal \in {"ModemAdded", "ModemRemoved"}
     /\ dbus_ModemAddedOrRemoved(m)
     /\ UNCHANGED <<calls, callEvents, fastDormancy>>
  \/ /\ m.signal = "set_fast_dormancy"
     /\ fastDormancy' = IF m.state = "low" THEN fastDormancy \cup modems ELSE fastDormancy \ modems
     /\ UNCHANGED <<calls, modems, callEvents>>

\* Signals that came during the start wait until it is over.
OfonoLoopRuns ==
  /\ callPhase = "started" /\ ofonoLoop # <<>>
  /\ handle_dbus_signal(Head(ofonoLoop))
  /\ ofonoLoop' = Tail(ofonoLoop)
  /\ UNCHANGED <<ofonoVars, ofonoChanges, callPhase, inCall>>

\* The daemon gives each event to every session, and each keeps a flag.
DaemonTakesCallEvent ==
  /\ callEvents # <<>>
  /\ inCall' = (Head(callEvents) = "active_call")
  /\ callEvents' = Tail(callEvents)
  /\ UNCHANGED <<ofonoVars, ofonoChanges, ofonoLoop, callServiceVars, fastDormancy>>

VoiceNext ==
  \/ CallAdded \/ CallStateChanges \/ CallRemoved \/ ModemAdded \/ ModemRemoved
  \/ OfonoCrashes \/ set_power_mode
  \/ start_processing \/ add_existing_modems \/ OfonoLoopRuns \/ DaemonTakesCallEvent

VoiceSpec == VoiceInit /\ [][VoiceNext]_voiceVars

-----------------------------------------------------------------------------
(* Properties.                                                             *)

VoiceTypeOK ==
  /\ DOMAIN calls \subseteq CallPaths /\ modems \subseteq Modems /\ fastDormancy \subseteq Modems
  /\ callPhase \in {"stopped", "subscribed", "started"} /\ inCall \in BOOLEAN

OfonoQuiet == callPhase = "started" /\ ofonoLoop = <<>> /\ callEvents = <<>> /\ ~ofonoCrashed

\* Calls that the service has heard of since it listens.
HeardCalls == Restrict(ofonoCalls, DOMAIN ofonoCalls \ unheardCalls)

\* Of calls that overlap, are held, resumed and end in any order: when every
\* signal has been handled, the machines take a call for active exactly when
\* oFono has one that is, of those heard of.  One that was there before counts
\* from its next change on.
CallsAreKnown ==
  OfonoQuiet => inCall = is_any_call_active(HeardCalls)

\* Of the start: modems that come or go before, during and after the question
\* end up in the table exactly when they are there.
ModemsAreKnown ==
  OfonoQuiet => modems = ofonoModems

=============================================================================
