---------------------------- MODULE VbeMachines ----------------------------
(* The BIOS answers the VBE provider is checked against: two mode numbers, *)
(* mode lists with the marker at the start, in the middle and at the end,  *)
(* mode information on both sides of every test of the constructor's       *)
(* filter, and BIOSes that accept or refuse each query.                    *)
EXTENDS Naturals

CONSTANTS m1, m2, End

MCModeNumbers == {m1, m2}

ModeLists == {<<End>>, <<m1, End>>, <<m2, m1, End>>, <<m1, End, m2>>}

(* A usable mode, and one failing each condition of lines 42-43 by the    *)
(* least step (bpp 14 against 15, the other memory models, a missing bit). *)
Good == [physbase |-> 1, bpp |-> 15, attributes |-> {"hardware", "lfb"},
         model |-> "directColor"]
ModeInfos ==
  {Good,
   [Good EXCEPT !.model = "packedPixel", !.bpp = 32],
   [Good EXCEPT !.physbase = 0],
   [Good EXCEPT !.bpp = 14],
   [Good EXCEPT !.attributes = {"lfb"}],
   [Good EXCEPT !.attributes = {"hardware"}],
   [Good EXCEPT !.model = "planar"]}

(* A machine without a BIOS answers no INT 0x10 call.                      *)
NoBios ==
  {[available |-> FALSE, vbeInfoOk |-> FALSE, signature |-> "none",
    modes |-> l, info |-> i, modeInfoOk |-> [m \in MCModeNumbers |-> FALSE],
    setModeOk |-> [m \in MCModeNumbers |-> FALSE]] :
     l \in ModeLists, i \in [MCModeNumbers -> ModeInfos]}

(* A BIOS that answers GET_VBE_INFO, with the VESA signature or another.   *)
Answering ==
  [available : {TRUE}, vbeInfoOk : {TRUE}, signature : {"VESA", "VBE2"},
   modes : ModeLists, info : [MCModeNumbers -> ModeInfos],
   modeInfoOk : [MCModeNumbers -> BOOLEAN],
   setModeOk : [MCModeNumbers -> BOOLEAN]]

(* A BIOS that refuses GET_VBE_INFO (no VBE support on the card).          *)
Refusing ==
  [available : {TRUE}, vbeInfoOk : {FALSE}, signature : {"none"},
   modes : ModeLists, info : [MCModeNumbers -> ModeInfos],
   modeInfoOk : [MCModeNumbers -> BOOLEAN],
   setModeOk : [MCModeNumbers -> BOOLEAN]]

(* The machine a behaviour that does not exercise the provider runs on:    *)
(* no VBE BIOS, so every probe fails at once.                             *)
IdleMachine ==
  [available |-> FALSE, vbeInfoOk |-> FALSE, signature |-> "none",
   modes |-> <<End>>, info |-> [m \in MCModeNumbers |-> Good],
   modeInfoOk |-> [m \in MCModeNumbers |-> FALSE],
   setModeOk |-> [m \in MCModeNumbers |-> FALSE]]

MachinesAnswering == NoBios \cup Answering
AllMachines == NoBios \cup Answering \cup Refusing
=============================================================================
