----------------------------- MODULE Backlights -----------------------------
(***************************************************************************)
(* The two devices a backlight may be, and a transition from the           *)
(* brightness that one has to another, step by step, while others write to *)
(* the device or the device refuses.  Brightness is a fraction of the      *)
(* device's range, here a number of Units; the device knows levels only.   *)
(***************************************************************************)
EXTENDS Integers

CONSTANTS
  Units,            \* a brightness of 1.0
  MaxLevel,         \* max_brightness, or 255
  FadeTargets,      \* what the display is set to, some of it beyond the range
  MaxFades,         \* bound: transitions
  MaxOutsideWrites  \* bound: what others write

ASSUME BacklightsAssumption ==
  /\ MaxLevel \in Nat \ {0} /\ Units \in Nat \ {0} /\ Units % MaxLevel = 0
  /\ FadeTargets \subseteq Nat /\ {MaxFades, MaxOutsideWrites} \subseteq Nat

VARIABLES
  backlightKind,        \* "sysfs" or "android"
  backlightLevel,       \* of the device
  last_set_brightness,
  fadeAt, fadeTo,       \* current_brightness of a transition, and where it goes
  fading,
  fades, outsideWrites,
  disturbed             \* history: others wrote, or the device refused, after the last step

backlightsVars == <<backlightKind, backlightLevel, last_set_brightness, fadeAt, fadeTo, fading,
                    fades, outsideWrites, disturbed>>

Undetermined == -Units

BacklightsInit ==
  /\ backlightKind \in {"sysfs", "android"} /\ backlightLevel = 0
  /\ last_set_brightness = Undetermined
  /\ fadeAt = 0 /\ fadeTo = 0 /\ fading = FALSE
  /\ fades = 0 /\ outsideWrites = 0 /\ disturbed = TRUE

\* The nearest level.
absolute_brightness_for(value) == (2 * value * MaxLevel + Units) \div (2 * Units)

-----------------------------------------------------------------------------
(* The devices.                                                            *)

\* The kernel does not take what is beyond its range; nobody looks.
SetSysfs(value) ==
  /\ backlightKind = "sysfs"
  /\ backlightLevel' = IF absolute_brightness_for(value) > MaxLevel THEN backlightLevel
                       ELSE absolute_brightness_for(value)
  /\ last_set_brightness' = value /\ disturbed' = FALSE

\* The value is remembered when the device has taken it.
SetAndroid(value) ==
  /\ backlightKind = "android"
  /\ \/ /\ backlightLevel' = absolute_brightness_for(value)
        /\ last_set_brightness' = value /\ disturbed' = FALSE
     \/ disturbed' = TRUE /\ UNCHANGED <<backlightLevel, last_set_brightness>>

\* Mutant: the value is remembered though others have written since.
GetLastSet == last_set_brightness

get_brightness ==
  IF backlightKind = "android" \/ absolute_brightness_for(last_set_brightness) = backlightLevel
  THEN last_set_brightness
  ELSE backlightLevel * (Units \div MaxLevel)

OthersWrite ==
  /\ backlightKind = "sysfs" /\ outsideWrites < MaxOutsideWrites
  /\ backlightLevel' \in 0 .. MaxLevel \ {backlightLevel}
  /\ outsideWrites' = outsideWrites + 1 /\ disturbed' = TRUE
  /\ UNCHANGED <<backlightKind, last_set_brightness, fadeAt, fadeTo, fading, fades>>

-----------------------------------------------------------------------------
(* A transition: the loop of transition_to_brightness_value.               *)

\* The step is 1.0.  From a brightness that is not determined, one step.
BeginFade ==
  /\ ~fading /\ fades < MaxFades
  /\ \E b \in FadeTargets :
       fadeTo' = b /\ fadeAt' = IF get_brightness = Undetermined THEN b - Units ELSE get_brightness
  /\ fading' = TRUE /\ fades' = fades + 1 /\ disturbed' = FALSE
  /\ UNCHANGED <<backlightKind, backlightLevel, last_set_brightness, outsideWrites>>

\* No step goes beyond the end.
NextBrightness(at, to) ==
  CASE at < to -> IF at + Units > to THEN to ELSE at + Units
    [] at > to -> IF at - Units < to THEN to ELSE at - Units

FadeStep ==
  /\ fading /\ fadeAt # fadeTo
  /\ fadeAt' = NextBrightness(fadeAt, fadeTo)
  /\ SetSysfs(fadeAt') \/ SetAndroid(fadeAt')
  /\ UNCHANGED <<backlightKind, fadeTo, fading, fades, outsideWrites>>

FadeEnds ==
  /\ fading /\ fadeAt = fadeTo
  /\ fading' = FALSE
  /\ UNCHANGED <<backlightKind, backlightLevel, last_set_brightness, fadeAt, fadeTo, fades,
                 outsideWrites, disturbed>>

BacklightsNext == OthersWrite \/ BeginFade \/ FadeStep \/ FadeEnds

BacklightsSpec == BacklightsInit /\ [][BacklightsNext]_backlightsVars

-----------------------------------------------------------------------------
(* Properties.                                                             *)

BacklightsTypeOK ==
  /\ backlightLevel \in Nat /\ (backlightKind = "sysfs" => backlightLevel <= MaxLevel)
  /\ get_brightness >= Undetermined /\ fadeTo \in FadeTargets \cup {0}

\* Of others that write to the device, of a device that refuses, and of the
\* rounding to its levels: the next transition starts from what is lit.
BacklightReadsBack ==
  get_brightness = Undetermined \/ absolute_brightness_for(get_brightness) = backlightLevel

\* Of the same: a transition within the range ends at the nearest level,
\* wherever it began and also when it had nothing to do, if nobody wrote and
\* nothing was refused after its last step.
FadeArrives ==
  (~fading /\ ~disturbed /\ fadeTo <= Units) => backlightLevel = absolute_brightness_for(fadeTo)

=============================================================================
