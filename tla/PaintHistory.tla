---------------------------- MODULE PaintHistory ----------------------------
(***************************************************************************)
(* The undo/redo history of the paint application                          *)
(* (src/application/pic/History.cpp).  The history keeps the command list  *)
(* `commands', the number `currentCommand' of those applied to the canvas,*)
(* the `lines' of a line drawing in progress, and every SNAPSHOT_INTERVAL *)
(* commands a copy of the layers; undo restores the last snapshot before   *)
(* the target (or clears the layers) and re-executes the commands after    *)
(* it.                                                                     *)
(*                                                                         *)
(* The layers are abstracted to the sequence of drawing effects applied to *)
(* them since they were last reset: an ordinary command is one effect, a   *)
(* merged "line" command the effects of its segments.  Layers (the code    *)
(* that calls addCommand after each operation done with writeHistory) is   *)
(* not under src/: a user operation is the effect on the layers followed  *)
(* by addCommand.  The application is single-threaded; each handler is one *)
(* step.                                                                   *)
(***************************************************************************)
EXTENDS Naturals, Sequences, SequencesExt

CONSTANTS
  Cmds,              \* ordinary commands (addEmpty, swap, filterInvert ...)
  Segments,          \* single "line" commands of a line drawing
  SnapshotInterval,  \* History::SNAPSHOT_INTERVAL
  MaxCommands,       \* bound on the length of the command list
  MaxLines,          \* bound on the segments of one line drawing
  MaxSnapshots,      \* bound on the snapshot list
  Width,             \* bits of currentCommand's uint32_t arithmetic
  NULL

ASSUME SnapshotInterval \in Nat \ {0} /\ MaxCommands < 2^Width

(* The argument addCommand gets when a line drawing ends.                  *)
Prepare == "prepareNextDrawing"

VARIABLES
  history,  \* [commands, currentCommand, lines, snapshots] of History
  layers,   \* effects applied to the layers since their last reset
  file,     \* the commands in the saved file, or NULL before saveToFile
  fault     \* an ArrayList index was out of bounds

vars == <<history, layers, file, fault>>
-----------------------------------------------------------------------------
(* currentCommand - 1 in uint32_t arithmetic.                              *)
UMinusOne(n) == (n + 2^Width - 1) % 2^Width

(* What executing a stored command does to the layers (execCommandOn):    *)
(* a merged line command draws each of its segments.                       *)
Effect(c) == IF c \in Cmds THEN <<c>> ELSE c

Replay(cs) == FlattenSeq([i \in DOMAIN cs |-> Effect(cs[i])])

(* Mutant of Truncate: one snapshot more is dropped.                       *)
TruncateOneSnapshotTooMany(h) ==
  IF Len(h.commands) > UMinusOne(h.currentCommand)
  THEN [h EXCEPT !.commands = SubSeq(@, 1, h.currentCommand),
                 !.snapshots = SubSeq(@, 1, Min({Len(@), (h.currentCommand - 1) \div SnapshotInterval}))]
  ELSE h

(* The first half of addCommand (History.cpp:38-53): drop the commands     *)
(* after currentCommand and the snapshots past currentCommand /            *)
(* SNAPSHOT_INTERVAL; skipped unless commands->size() > currentCommand - 1.*)
Truncate(h) ==
  IF Len(h.commands) > UMinusOne(h.currentCommand)
  THEN [h EXCEPT !.commands = SubSeq(@, 1, h.currentCommand),
                 !.snapshots = SubSeq(@, 1, Min({Len(@), h.currentCommand \div SnapshotInterval}))]
  ELSE h

(* Append a command and take a snapshot of the layers when currentCommand  *)
(* reaches a multiple of SNAPSHOT_INTERVAL (History.cpp:63-83).            *)
Added(h, c, l) ==
  LET h1 == [h EXCEPT !.commands = Append(@, c), !.currentCommand = Len(h.commands) + 1]
  IN IF h1.currentCommand % SnapshotInterval = 0
     THEN [h1 EXCEPT !.snapshots = Append(@, l)]
     ELSE h1

(* addCommand (History.cpp:37-84) with the layers l after the operation.   *)
AddCommand(h, c, l) ==
  LET t == Truncate(h)
  IN CASE c \in Segments -> [t EXCEPT !.lines = Append(@, c)]
       [] c = Prepare ->
            IF t.lines /= << >> THEN Added([t EXCEPT !.lines = << >>], t.lines, l)
            ELSE t
       [] OTHER -> Added(t, c, l)

(* The user's operations; a line drawing is ended by prepareNextDrawing    *)
(* before the user does anything else.                                     *)
Idle == ~fault /\ history.lines = << >>

(* Operations that may record commands start only below the snapshot       *)
(* bound (the list itself is unbounded in the code).                       *)
Room == Len(history.snapshots) < MaxSnapshots
-----------------------------------------------------------------------------
(* The constructor (History.cpp:15-21); nothing is saved yet.              *)
Init ==
  /\ history = [commands |-> << >>, currentCommand |-> 0, lines |-> << >>,
                snapshots |-> << >>]
  /\ layers = << >>
  /\ file = NULL
  /\ fault = FALSE

(* An operation on the layers with writeHistory, which then records it.    *)
Draw ==
  /\ Idle /\ Room /\ Len(history.commands) < MaxCommands
  /\ \E c \in Cmds :
       /\ layers' = Append(layers, c)
       /\ history' = AddCommand(history, c, layers')
  /\ UNCHANGED <<file, fault>>

(* One segment of a line drawing, drawn and recorded in `lines'.           *)
DrawLine ==
  /\ ~fault /\ Room /\ Len(history.lines) < MaxLines
  /\ Len(history.commands) < MaxCommands
  /\ \E s \in Segments :
       /\ layers' = Append(layers, s)
       /\ history' = AddCommand(history, s, layers')
  /\ UNCHANGED <<file, fault>>

(* The end of a line drawing: addCommand("prepareNextDrawing").            *)
PrepareNextDrawing ==
  /\ ~fault /\ history.lines /= << >>
  /\ history' = AddCommand(history, Prepare, layers)
  /\ UNCHANGED <<layers, file, fault>>

(* undo (History.cpp:244-276): step back one command, restore the          *)
(* snapshot at or before it, or reset the layers, and re-execute the rest. *)
Undo ==
  /\ Idle /\ history.currentCommand > 0
  /\ LET cur == history.currentCommand - 1
         useSnapshot == cur >= SnapshotInterval
         idx == cur \div SnapshotInterval
         from == IF useSnapshot THEN cur - (cur % SnapshotInterval) ELSE 0
     IN IF useSnapshot /\ idx > Len(history.snapshots)
        THEN /\ fault' = TRUE
             /\ UNCHANGED <<history, layers>>
        ELSE /\ layers' = (IF useSnapshot THEN history.snapshots[idx] ELSE << >>)
                          \o Replay(SubSeq(history.commands, from + 1, cur))
             /\ history' = [history EXCEPT !.currentCommand = cur]
             /\ UNCHANGED fault
  /\ UNCHANGED file

(* redo (History.cpp:278-282): execute the next command, if any.           *)
Redo ==
  /\ Idle /\ history.currentCommand < Len(history.commands)
  /\ layers' = layers \o Effect(history.commands[history.currentCommand + 1])
  /\ history' = [history EXCEPT !.currentCommand = @ + 1]
  /\ UNCHANGED <<file, fault>>

(* saveToFile (History.cpp:192-205): every command, the undone ones too.   *)
SaveToFile ==
  /\ Idle /\ file /= history.commands
  /\ file' = history.commands
  /\ UNCHANGED <<history, layers, fault>>

(* One line of the file executed with writeHistory (History.cpp:233-238):  *)
(* the layers operation records it; a line command's segments go through   *)
(* `lines' and are merged by the prepareNextDrawing that follows.          *)
LoadLine(st, c) ==
  IF c \in Cmds
  THEN LET l == Append(st.layers, c)
       IN [layers |-> l, history |-> AddCommand(st.history, c, l)]
  ELSE LET drawn == FoldLeft(LAMBDA s, seg :
                               LET l == Append(s.layers, seg)
                               IN [layers |-> l, history |-> AddCommand(s.history, seg, l)],
                             st, c)
       IN [drawn EXCEPT !.history = AddCommand(@, Prepare, drawn.layers)]

(* loadFromFileInto (History.cpp:207-242): reset the layers and the        *)
(* history (reset(), lines 86-89, clears the commands and currentCommand   *)
(* only), then execute the file line by line.                              *)
LoadFromFileInto ==
  /\ Idle /\ Room /\ file /= NULL
  /\ LET st0 == [layers |-> << >>,
                 history |-> [history EXCEPT !.commands = << >>, !.currentCommand = 0]]
         st == FoldLeft(LoadLine, st0, file)
     IN /\ layers' = st.layers
        /\ history' = st.history
  /\ UNCHANGED <<file, fault>>

Next ==
  \/ Draw \/ DrawLine \/ PrepareNextDrawing \/ Undo \/ Redo
  \/ SaveToFile \/ LoadFromFileInto

Spec == Init /\ [][Next]_vars
-----------------------------------------------------------------------------
TypeOK ==
  /\ history.commands \in Seq(Cmds \cup Seq(Segments))
  /\ history.currentCommand \in 0 .. 2^Width - 1
  /\ history.lines \in Seq(Segments)
  /\ history.snapshots \in Seq(Seq(Cmds \cup Segments))
  /\ layers \in Seq(Cmds \cup Segments)
  /\ file \in Seq(Cmds \cup Seq(Segments)) \cup {NULL}
  /\ fault \in BOOLEAN

(* undo reads snapshot currentCommand / SNAPSHOT_INTERVAL - 1 of a list    *)
(* that addCommand truncates and extends separately: the snapshot it asks *)
(* for always exists.                                                      *)
SnapshotsInRange == ~fault

(* The layers always show the first currentCommand commands of the        *)
(* history, followed by a line drawing in progress: what undo and redo    *)
(* promise (addCommand drops the redo tail before recording a new          *)
(* command, History.cpp:38-41).                                            *)
CanvasMatchesHistory ==
  /\ history.currentCommand <= Len(history.commands)
  /\ layers = Replay(SubSeq(history.commands, 1, history.currentCommand)) \o history.lines
=============================================================================
