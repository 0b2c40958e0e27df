----------------------------- MODULE MCSession -----------------------------
(***************************************************************************)
(* The sources of events that are present in the runs of Session.  Each    *)
(* run takes the sources whose handlers touch the state it asks about, so  *)
(* that every interleaving of them is explored.                            *)
(***************************************************************************)
EXTENDS Session, DefaultStateMachineOptions, TLC

DisplaySources ==
  {"power_button", "user_activity", "inactivity", "brightness", "display",
   "resume", "session", "suspend"}

CallSources == {"notification", "voice_call", "proximity", "inactivity", "session"}

PowerSources == {"lid", "power_source", "suspend", "session", "settings"}

IdleSources == {"notification", "voice_call", "proximity", "inactivity", "silence"}

ButtonSources == {"power_button", "session"}

LidSources == {"lid", "session"}

NotificationSources == {"notification"}

=============================================================================
