--------------------------- MODULE PaintSettings ---------------------------
(***************************************************************************)
(* Settings (src/application/pic/Settings.cpp): the paint application's    *)
(* boolean options and their file /pic/settings, one "name value" line per *)
(* option.  The constructor resets every option to its default, loads the  *)
(* file and saves it again; the user interface (not under src/) changes    *)
(* options and calls saveToFile.                                           *)
(*                                                                         *)
(* The process can be killed (the kill application) at any point, also     *)
(* between fopen(path, "w"), which truncates the file, and the fputs of    *)
(* the last line; a restart constructs the settings again.  A line         *)
(* reaches the file whole or not at all (each fputs is one write, or the       *)
(* buffer holds all nine lines until fflush).  Lines are sequences of the  *)
(* words String::split(" ") returns; a user may have edited the file       *)
(* before the first start (InitialFiles).  File("pic") is relative to the  *)
(* working directory, "/pic/settings" is not: whether the working          *)
(* directory is the root is chosen in Init.                                *)
(***************************************************************************)
EXTENDS Naturals, Sequences, SequencesExt

CONSTANTS
  Order,         \* the options in the order saveToFile writes them
  Default,       \* resetToDefault: option -> value
  InitialFiles,  \* what /pic/settings holds before the first start
  NoFile, Directory, NULL

Names == ToSet(Order)

VARIABLES
  settings,   \* the option members of the running Settings object
  file,       \* /pic/settings: NoFile, Directory or a sequence of lines
  picDirs,    \* which of /pic ("root") and <cwd>/pic ("cwd") exist
  cwdIsRoot,  \* the working directory is /
  pc,         \* "down", "idle" or "writing" (saveToFile after fopen)
  written,    \* the lines the running saveToFile has written
  saved,      \* the options the last completed saveToFile wrote, or NULL
  attempt     \* the options the running saveToFile writes, or NULL

vars == <<settings, file, picDirs, cwdIsRoot, pc, written, saved, attempt>>

LineOfCapitalised(s, n) == <<n, IF s[n] THEN "True" ELSE "false">>

(* The line saveToFile writes for option n (lines 120-128).                *)
LineOf(s, n) == <<n, IF s[n] THEN "true" ELSE "false">>

(* One line of loadFromFile (lines 75-87), from options s: an empty line   *)
(* and an unknown name change nothing; a known name takes the value        *)
(* parts[1] == "true".  A known name alone on its line makes parts[1] an   *)
(* index past the end of the array: the process dies, or the comparison    *)
(* reads memory past it and yields either value.  The set of outcomes,     *)
(* NULL for a dead process.                                                *)
LoadLine(s, line) ==
  IF line = << >> \/ line[1] \notin Names THEN {s}
  ELSE IF Len(line) >= 2 THEN {[s EXCEPT ![line[1]] = (line[2] = "true")]}
  ELSE {[s EXCEPT ![line[1]] = v] : v \in BOOLEAN} \cup {NULL}

(* resetToDefault then loadFromFile (lines 33-91): the options a start     *)
(* can end with, NULL if it died.  A missing file and a directory are     *)
(* reported and leave the defaults.                                        *)
LoadOutcomes(f) ==
  IF f \in {NoFile, Directory} THEN {Default}
  ELSE FoldLeft(LAMBDA acc, line :
                  UNION {IF s = NULL THEN {NULL} ELSE LoadLine(s, line) :
                           s \in acc},
                {Default}, f)

(* saveToFile up to fopen (lines 100-119): create pic relative to the      *)
(* working directory if it is missing (creation may fail), then open       *)
(* /pic/settings for writing, which truncates it.  Any failure is          *)
(* reported and returns.                                                   *)
OpenForSave ==
  \E created \in BOOLEAN :
    LET relative == IF cwdIsRoot THEN "root" ELSE "cwd"
        dirs == IF relative \notin picDirs /\ created
                THEN picDirs \cup {relative} ELSE picDirs
        opened == relative \in dirs /\ "root" \in dirs /\ file /= Directory
    IN  /\ picDirs' = dirs
        /\ IF opened
           THEN file' = << >> /\ pc' = "writing" /\ written' = 0
                /\ attempt' = settings'
           ELSE pc' = "idle" /\ attempt' = NULL /\ UNCHANGED <<file, written>>

Init ==
  /\ settings = Default
  /\ file \in InitialFiles
  /\ cwdIsRoot \in BOOLEAN
  /\ picDirs \in {d \in SUBSET {"root", "cwd"} :
                  /\ file /= NoFile => "root" \in d
                  /\ cwdIsRoot => d \subseteq {"root"}}
  /\ pc = "down"
  /\ written = 0
  /\ saved = NULL
  /\ attempt = NULL

(* Settings(mHandler) (lines 17-24): resetToDefault, loadFromFile, then    *)
(* saveToFile of what was loaded.                                          *)
Start ==
  /\ pc = "down"
  /\ \E s \in LoadOutcomes(file) :
       IF s = NULL
       THEN UNCHANGED vars
       ELSE /\ settings' = s
            /\ OpenForSave
  /\ UNCHANGED <<cwdIsRoot, saved>>

(* The user interface changes an option.                                   *)
Change(n) ==
  /\ pc = "idle"
  /\ settings' = [settings EXCEPT ![n] = ~@]
  /\ UNCHANGED <<file, picDirs, cwdIsRoot, pc, written, saved, attempt>>

(* The user interface calls saveToFile.                                    *)
Save ==
  /\ pc = "idle"
  /\ UNCHANGED settings
  /\ OpenForSave
  /\ UNCHANGED <<cwdIsRoot, saved>>

(* One fputs of saveToFile (lines 120-128), in Order.                      *)
WriteLine ==
  /\ pc = "writing"
  /\ written < Len(Order)
  /\ file' = Append(file, LineOf(attempt, Order[written + 1]))
  /\ written' = written + 1
  /\ UNCHANGED <<settings, picDirs, cwdIsRoot, pc, saved, attempt>>

(* fflush and fclose (lines 129-131): saveToFile returns.                  *)
Close ==
  /\ pc = "writing"
  /\ written = Len(Order)
  /\ pc' = "idle"
  /\ saved' = attempt
  /\ attempt' = NULL
  /\ UNCHANGED <<settings, file, picDirs, cwdIsRoot, written>>

(* The process is killed; the file keeps what reached it.                  *)
Kill ==
  /\ pc /= "down"
  /\ pc' = "down"
  /\ UNCHANGED <<settings, file, picDirs, cwdIsRoot, written, saved, attempt>>

Next ==
  \/ Start
  \/ \E n \in Names : Change(n)
  \/ Save
  \/ WriteLine
  \/ Close
  \/ Kill

Spec == Init /\ [][Next]_vars
-----------------------------------------------------------------------------
TypeOK ==
  /\ settings \in [Names -> BOOLEAN]
  /\ picDirs \subseteq {"root", "cwd"} /\ cwdIsRoot \in BOOLEAN
  /\ pc \in {"down", "idle", "writing"}
  /\ written \in 0 .. Len(Order)
  /\ saved \in [Names -> BOOLEAN] \cup {NULL}
  /\ attempt \in [Names -> BOOLEAN] \cup {NULL}

(* saveToFile and loadFromFile agree on the format: while the program runs *)
(* and no save is in progress, loading /pic/settings gives exactly the     *)
(* options the last completed saveToFile wrote, whatever was changed,      *)
(* saved, killed and restarted before.                                     *)
SavedFileRoundTrips ==
  pc = "idle" /\ saved /= NULL => LoadOutcomes(file) = {saved}
=============================================================================
