------------------------------ MODULE Display ------------------------------
(***************************************************************************)
(* What JingosDisplay knows of the external displays.  Its constructor     *)
(* subscribes to the display service's PropertiesChanged and then asks for *)
(* the active outputs, on its loop, which handles no signal while it waits *)
(* for the answer: signals that the service sent before the answer are     *)
(* handled after it.                                                       *)
(***************************************************************************)
EXTENDS SequencesExt

CONSTANT MaxOutputChanges  \* bound: how often an external display comes or goes

ASSUME DisplayAssumption == MaxOutputChanges \in Nat

VARIABLES
  externalOutput,   \* the display service has an active external output
  outputChanges,
  displayAt,        \* the constructor: "new", "subscribed", "asking", "answered", "known", "unanswered"
  outputSignals,    \* PropertiesChanged on their way, with the value that each brings
  outputAnswer,     \* the answer on its way
  has_active_external_displays_

displayVars == <<externalOutput, outputChanges, displayAt, outputSignals, outputAnswer,
                 has_active_external_displays_>>

DisplayInit ==
  /\ externalOutput \in BOOLEAN /\ outputChanges = 0
  /\ displayAt = "new" /\ outputSignals = <<>> /\ outputAnswer = FALSE
  /\ has_active_external_displays_ = FALSE

\* The display service signals every change to those who listen.
OutputChanges ==
  /\ outputChanges < MaxOutputChanges
  /\ externalOutput' = ~externalOutput /\ outputChanges' = outputChanges + 1
  /\ outputSignals' = IF displayAt = "new" THEN outputSignals
                      ELSE Append(outputSignals, ~externalOutput)
  /\ UNCHANGED <<displayAt, outputAnswer, has_active_external_displays_>>

Subscribe ==
  /\ displayAt = "new" /\ displayAt' = "subscribed"
  /\ UNCHANGED <<externalOutput, outputChanges, outputSignals, outputAnswer,
                 has_active_external_displays_>>

\* A loop in this call handles nothing else.
QueryOutputs ==
  /\ displayAt = "subscribed" /\ displayAt' = "asking"
  /\ UNCHANGED <<externalOutput, outputChanges, outputSignals, outputAnswer,
                 has_active_external_displays_>>

ServiceAnswers ==
  /\ displayAt = "asking" /\ displayAt' = "answered"
  /\ outputAnswer' = externalOutput
  /\ UNCHANGED <<externalOutput, outputChanges, outputSignals, has_active_external_displays_>>

\* Mutant: the answer makes the signals that wait void.
AnswerForgetsSignals ==
  /\ displayAt = "answered" /\ displayAt' = "known"
  /\ has_active_external_displays_' = outputAnswer /\ outputSignals' = <<>>
  /\ UNCHANGED <<externalOutput, outputChanges, outputAnswer>>

dbus_query_active_outputs ==
  \/ /\ displayAt = "answered" /\ displayAt' = "known"
     /\ has_active_external_displays_' = outputAnswer
     /\ UNCHANGED <<externalOutput, outputChanges, outputSignals, outputAnswer>>
  \/ /\ displayAt = "asking" /\ displayAt' = "unanswered"
     /\ UNCHANGED <<externalOutput, outputChanges, outputSignals, outputAnswer,
                    has_active_external_displays_>>

dbus_ActiveOutputs ==
  /\ displayAt \in {"subscribed", "known", "unanswered"} /\ outputSignals # <<>>
  /\ has_active_external_displays_' = Head(outputSignals)
  /\ outputSignals' = Tail(outputSignals)
  /\ UNCHANGED <<externalOutput, outputChanges, displayAt, outputAnswer>>

DisplayNext ==
  OutputChanges \/ Subscribe \/ QueryOutputs \/ ServiceAnswers
  \/ dbus_query_active_outputs \/ dbus_ActiveOutputs

DisplaySpec == DisplayInit /\ [][DisplayNext]_displayVars

-----------------------------------------------------------------------------
DisplayTypeOK ==
  /\ displayAt \in {"new", "subscribed", "asking", "answered", "known", "unanswered"}
  /\ outputSignals \in Seq(BOOLEAN) /\ has_active_external_displays_ \in BOOLEAN

\* Once the display service has answered and no signal is on its way, the
\* state machine is told right whether the lid may be closed on a display:
\* no change is lost between the subscription and the question, and a signal
\* that is older than the answer does not outlive it.
OutputsAreKnown ==
  displayAt = "known" /\ outputSignals = <<>> => has_active_external_displays_ = externalOutput

=============================================================================
