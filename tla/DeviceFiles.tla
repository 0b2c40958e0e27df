---------------------------- MODULE DeviceFiles ----------------------------
(***************************************************************************)
(* How AndroidDeviceConfig reads the configuration of the device: the      *)
(* default file and, if there is one, that of the device, each as the      *)
(* stream of elements and texts that GMarkup finds in it, up to its end or *)
(* to its first error, which nobody asks about: a file may be cut off      *)
(* inside an element.  The values of an element (of an array: one for each *)
(* item) are kept under its name; the device's file overrides the          *)
(* default's.                                                              *)
(***************************************************************************)
EXTENDS SequencesExt, Tables

CONSTANTS
  AttributeNames,  \* name attributes of the elements
  NameOf,          \* each without the prefix "config_"
  Texts,           \* what an element holds, without its blanks
  MaxTexts         \* bound: how many texts the files hold

ASSUME DeviceFilesAssumption ==
  DOMAIN NameOf = AttributeNames /\ "" \notin Range(NameOf) \cup Texts /\ MaxTexts \in Nat

VARIABLES
  file,              \* "config-default", "config-device", "read"
  last_config_name,
  config,            \* values by name
  textsRead,
  inElement,         \* GMarkup's: an element of this file with a name has begun and not ended
  declared,          \* history: by name, the values of the last element that has it
  unfinished         \* history: the names whose last element was cut off

fileVars == <<file, last_config_name, config, textsRead, inElement, declared, unfinished>>

FileInit ==
  /\ file = "config-default" /\ last_config_name = "" /\ config = [n \in {} |-> <<>>]
  /\ textsRead = 0 /\ inElement = FALSE /\ declared = [n \in {} |-> <<>>] /\ unfinished = {}

ElementBegins(n) ==
  /\ file # "read" /\ ~inElement /\ textsRead < MaxTexts
  /\ last_config_name' = n
  /\ inElement' = TRUE /\ declared' = With(declared, n, <<>>) /\ unfinished' = unfinished \ {n}
  /\ UNCHANGED <<file, textsRead>>

\* Mutant: the values of an earlier element of that name stay.
StartElementKeepsValues ==
  \E a \in AttributeNames : ElementBegins(NameOf[a]) /\ UNCHANGED config

\* integer, integer-array and bool with a name, none within another; other
\* elements change nothing.
xml_start_element ==
  \E a \in AttributeNames :
    /\ ElementBegins(NameOf[a])
    /\ config' = Restrict(config, DOMAIN config \ {NameOf[a]})

\* Between the items of an array there are blanks.  A text that is in no element
\* goes to the one that an earlier file left unfinished, if it did.
xml_text ==
  /\ file # "read" /\ textsRead < MaxTexts
  /\ \E t \in Texts \cup {""} :
       IF t = "" \/ last_config_name = "" THEN UNCHANGED <<config, declared>>
       ELSE /\ config' = With(config, last_config_name,
                            IF last_config_name \in DOMAIN config
                            THEN Append(config[last_config_name], t) ELSE <<t>>)
            /\ declared' = IF ~inElement THEN declared
                           ELSE With(declared, last_config_name, Append(declared[last_config_name], t))
  /\ textsRead' = textsRead + 1
  /\ UNCHANGED <<file, last_config_name, inElement, unfinished>>

xml_end_element ==
  /\ inElement /\ inElement' = FALSE
  /\ last_config_name' = ""
  /\ UNCHANGED <<file, config, textsRead, declared, unfinished>>

\* The first directory that has the file; the device may have none.  What the
\* file before left of an element is not reset.
parse_first_matching_file_in_dirs ==
  /\ \/ file = "config-default" /\ file' \in {"config-device", "read"}
     \/ file = "config-device" /\ file' = "read"
  /\ inElement' = FALSE /\ unfinished' = IF inElement THEN unfinished \cup {last_config_name} ELSE unfinished
  /\ UNCHANGED <<last_config_name, config, textsRead, declared>>

FileNext == xml_start_element \/ xml_text \/ xml_end_element \/ parse_first_matching_file_in_dirs

FileSpec == FileInit /\ [][FileNext]_fileVars

-----------------------------------------------------------------------------
FileTypeOK ==
  /\ file \in {"config-default", "config-device", "read"}
  /\ last_config_name \in Range(NameOf) \cup {""}
  /\ \A n \in DOMAIN config : config[n] \in Seq(Texts)

\* What get returns for a name are the values of the last element of that name,
\* in their order, or the caller's default if that element is empty or there is
\* none: an array of the device's file does not mix with the default's.  Of an
\* element that its file cut off nothing is said.
LastElementHolds ==
  Restrict(config, DOMAIN config \ unfinished) =
    Restrict(declared, {n \in DOMAIN declared \ unfinished : declared[n] # <<>>})

=============================================================================
