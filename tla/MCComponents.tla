---------------------------- MODULE MCComponents ----------------------------
(***************************************************************************)
(* The components that keep state of their own, share no variable with    *)
(* any other and are named by no property of another, checked in one run:  *)
(* the lazy FPU switch (FpuContext), the VESA BIOS extensions provider     *)
(* (VesaBiosExtensions), the CGA text terminal (CgaTerminal), the paint    *)
(* application's undo/redo history (PaintHistory) and settings             *)
(* (PaintSettings), and the game library's frame buffer (GameGraphics).    *)
(* Each behaviour lets one of them move (focus, chosen in Init) while the  *)
(* others stay in their initial state: every property is checked over     *)
(* every behaviour of its component, without the product of six state     *)
(* spaces.  The VBE provider's initial machine is free only while it is    *)
(* the component that moves, the settings file only while the settings    *)
(* move.                                                                   *)
(*                                                                         *)
(* FpuContext: three thread slots, two register images besides the        *)
(* default, trigger() atomic with thread teardown.  VesaBiosExtensions: up *)
(* to three calls on the machines of VbeMachines that have no BIOS or      *)
(* answer GET_VBE_INFO.  CgaTerminal: two rows of three cells.             *)
(* PaintHistory: up to four commands, a snapshot every two, line drawings  *)
(* of up to two segments.  PaintSettings: three of the nine options (one   *)
(* on by default), a settings file missing, a directory, empty or edited   *)
(* by hand.  GameGraphics: a 2 x 2 frame buffer of 24-bit pixels, two      *)
(* colours, the camera at -1 .. 2 horizontally.                            *)
(***************************************************************************)
EXTENDS Integers, TLC, VbeMachines

CONSTANTS t1, t2, t3, d, a, b,   \* FPU thread slots and register images
          ch, nl, sp, fill,      \* CGA characters
          c1, c2, s1,            \* history commands and line segment
          cb, fps, bb, other,    \* settings option names, an unknown one
          NoFile, Directory,
          NULL

VARIABLES
  focus,                                                 \* the part that moves
  status, current, lastFpuThread, ts, fpu, saved,        \* of FpuContext
  expect, trap, seen, fault,
  bios, lower, constructed, supportedModes, hwMode,      \* of VesaBiosExtensions
  nodes, halted, calls,
  mem, currentRow, currentColumn, cursor, cgaConstructed, \* of CgaTerminal
  history, layers, historyFile, historyFault,            \* of PaintHistory
  settings, settingsFile, picDirs, cwdIsRoot, pc,        \* of PaintSettings
  written, settingsSaved, attempt,
  lfb, background, color, camera                         \* of GameGraphics

fpuVars == <<status, current, lastFpuThread, ts, fpu, saved, expect, trap,
             seen, fault>>
vbeVars == <<bios, lower, constructed, supportedModes, hwMode, nodes, halted,
             calls>>
cgaVars == <<mem, currentRow, currentColumn, cursor, cgaConstructed>>
historyVars == <<history, layers, historyFile, historyFault>>
settingsVars == <<settings, settingsFile, picDirs, cwdIsRoot, pc, written,
                  settingsSaved, attempt>>
graphicsVars == <<lfb, background, color, camera>>
vars == <<focus, fpuVars, vbeVars, cgaVars, historyVars, settingsVars,
          graphicsVars>>

Fpu == INSTANCE FpuContext
         WITH Threads <- {t1, t2, t3}, Values <- {d, a, b}, BootThread <- t1,
              Default <- d, TeardownDuringTrap <- FALSE

Vbe == INSTANCE VesaBiosExtensions
         WITH ModeNumbers <- MCModeNumbers, EndMarker <- End,
              Machines <- MachinesAnswering, MaxCalls <- 3

Cga == INSTANCE CgaTerminal
         WITH Columns <- 3, Rows <- 2, Chars <- {ch}, NewLineChar <- nl,
              Space <- sp, FillChar <- fill, Colors <- {0, 7},
              BiosScreens <- {[i \in 0 .. 11 |-> IF i % 2 = 0 THEN ch ELSE 7]},
              constructed <- cgaConstructed

History == INSTANCE PaintHistory
             WITH Cmds <- {c1, c2}, Segments <- {s1}, SnapshotInterval <- 2,
                  MaxCommands <- 4, MaxLines <- 2, MaxSnapshots <- 3,
                  Width <- 8, file <- historyFile, fault <- historyFault

(* checkeredBackground (on), showFPS and useBufferedBuffer (off), and the  *)
(* files a first start may find: none, a directory, an empty file, and     *)
(* files edited by hand with a blank line, an unknown name, a value other  *)
(* than true, a repeated name and a name without value.                    *)
Settings == INSTANCE PaintSettings
              WITH Order <- <<cb, fps, bb>>,
                   Default <- (cb :> TRUE) @@ (fps :> FALSE) @@ (bb :> FALSE),
                   InitialFiles <-
                     {NoFile, Directory, << >>,
                      <<<<fps, "true">>, << >>, <<other, "true">>>>,
                      <<<<cb, "yes">>, <<bb, "true">>, <<bb, "false">>>>,
                      <<<<fps>>>>},
                   file <- settingsFile, saved <- settingsSaved

(* 24-bit pixels make the offset's alignment and a pitch that does not     *)
(* divide 2^32 matter; camera -1 takes the negative conversion.  Images   *)
(* whose two pixels differ, one row and one column, and a single pixel,   *)
(* drawn and filled at a half of the game's coordinates (every position   *)
(* around the screen is checked by ImageShownWhereVisible).               *)
GraphicsImages == {[width |-> 2, height |-> 1, px |-> <<100, 200>>],
                   [width |-> 1, height |-> 2, px |-> <<200, 100>>],
                   [width |-> 1, height |-> 1, px |-> <<100>>]}

Graphics == INSTANCE GameGraphics
              WITH ResX <- 2, ResY <- 2, Depth <- 24, Pitch <- 6,
                   Colors <- {100, 200}, CameraXs <- -1 .. 2,
                   CameraYs <- {0, 1}, Xs <- {1}, Ys <- {1},
                   Sizes <- {1}, Images <- GraphicsImages

Drawing == INSTANCE GameDrawing
             WITH ResX <- 2, ResY <- 2, Depth <- 24, Pitch <- 6,
                  CameraXs <- -1 .. 2, CameraYs <- {0, 1},
                  Images <- GraphicsImages

Focuses == {"fpu", "vbe", "cga", "history", "settings", "graphics"}

Init ==
  /\ focus \in Focuses
  /\ Fpu!Init
  /\ Vbe!Init
  /\ focus /= "vbe" => bios = IdleMachine
  /\ Cga!Init
  /\ History!Init
  /\ Settings!Init
  /\ focus /= "settings" => settingsFile = NoFile /\ cwdIsRoot /\ picDirs = {}
  /\ Graphics!Init
  /\ focus /= "graphics" => color = 100 /\ camera = <<0, 0>>

Next ==
  \/ focus = "fpu" /\ Fpu!Next
     /\ UNCHANGED <<focus, vbeVars, cgaVars, historyVars, settingsVars, graphicsVars>>
  \/ focus = "vbe" /\ Vbe!Next
     /\ UNCHANGED <<focus, fpuVars, cgaVars, historyVars, settingsVars, graphicsVars>>
  \/ focus = "cga" /\ Cga!Next
     /\ UNCHANGED <<focus, fpuVars, vbeVars, historyVars, settingsVars, graphicsVars>>
  \/ focus = "history" /\ History!Next
     /\ UNCHANGED <<focus, fpuVars, vbeVars, cgaVars, settingsVars, graphicsVars>>
  \/ focus = "settings" /\ Settings!Next
     /\ UNCHANGED <<focus, fpuVars, vbeVars, cgaVars, historyVars, graphicsVars>>
  \/ focus = "graphics" /\ Graphics!Next
     /\ UNCHANGED <<focus, fpuVars, vbeVars, cgaVars, historyVars, settingsVars>>

Spec == Init /\ [][Next]_vars
-----------------------------------------------------------------------------
TypeOK ==
  /\ focus \in Focuses
  /\ Fpu!TypeOK /\ Vbe!TypeOK /\ Cga!TypeOK /\ History!TypeOK
  /\ Settings!TypeOK /\ Graphics!TypeOK

(* A thread that does not own the FPU registers keeps its saved context:   *)
(* it is the image it had when it last lost the registers (Fpu.cpp).       *)
ContextsPreserved == Fpu!ContextsPreserved

(* The running thread, with the monitor off, sees its own registers.       *)
OwnRegistersVisible == Fpu!OwnRegistersVisible

(* trigger() never saves into a null or torn-down thread (Fpu.cpp:136-140). *)
NoDanglingOwnerAccess == Fpu!NoDanglingOwnerAccess

(* No lower-memory buffer of a VBE query is left allocated while the       *)
(* kernel runs (VesaBiosExtensions.cpp, getVbeInfo and getModeInfo).       *)
LowerMemoryReleased == Vbe!LowerMemoryReleased

(* putChar's wrap and scroll tests keep the CGA cursor on the screen        *)
(* (ColorGraphicsArray.cpp:33-42).                                         *)
CursorInScreen == Cga!CursorInScreen

(* undo reads snapshot currentCommand / SNAPSHOT_INTERVAL - 1 of a list    *)
(* that addCommand truncates and extends separately: the snapshot it asks *)
(* for always exists (History.cpp:82, 253).                                *)
SnapshotsInRange == History!SnapshotsInRange

(* Loading /pic/settings gives exactly what the last completed saveToFile *)
(* wrote, whenever the program runs and no save is in progress            *)
(* (Settings.cpp:53-131).                                                  *)
SavedFileRoundTrips == Settings!SavedFileRoundTrips

(* show() refills the frame buffer with the background rotated by whole    *)
(* pixels (Graphics.cpp:256-272).                                          *)
ShowRotatesWholePixels == Graphics!ShowRotatesWholePixels

(* In the behaviours of the game graphics, drawImage2D draws every pixel  *)
(* of an image that falls on the screen where the camera puts it,         *)
(* mirrored when flipped, from any position around the screen: the early *)
(* test of Graphics.cpp:144-147 never drops a visible image.               *)
ImageShownWhereVisible == focus = "graphics" => Drawing!ImageShownWhereVisible
=============================================================================
