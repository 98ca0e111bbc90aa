------------------------- MODULE VesaBiosExtensions -------------------------
(***************************************************************************)
(* Device::Graphic::VesaBiosExtensions                                     *)
(* (src/device/graphic/lfb/vesa/VesaBiosExtensions.cpp): the VBE linear   *)
(* frame buffer provider.  Every VBE query hands the BIOS a buffer in      *)
(* lower memory (allocateLowerMemory), calls INT 0x10 and, on success,     *)
(* copies the answer out and frees the buffer; a failed query throws, or   *)
(* in isAvailable() returns false.                                         *)
(*                                                                         *)
(* The machine's answers are fixed for a behaviour and chosen in Init from *)
(* Machines: whether a BIOS is there, whether it answers GET_VBE_INFO and  *)
(* with which signature, the mode list it reports (mode numbers up to      *)
(* MODE_LIST_END_MARKER), the information of each mode, and which modes    *)
(* GET_MODE_INFO and SET_MODE accept.  The callers of the class are not    *)
(* under src/: any sequence of up to MaxCalls calls is explored, the       *)
(* constructor once, and initializeLinearFrameBuffer for modes             *)
(* getAvailableModes returned, as the provider interface is used.  An      *)
(* exception halts the kernel.                                             *)
(***************************************************************************)
EXTENDS Naturals, Sequences, SequencesExt

CONSTANTS
  ModeNumbers,   \* VBE mode numbers the BIOS may report
  EndMarker,     \* MODE_LIST_END_MARKER
  Machines,      \* the BIOS answers a behaviour may meet
  MaxCalls,      \* bound on the calls made into the class
  NULL

ASSUME EndMarker \notin ModeNumbers /\ MaxCalls \in Nat

VARIABLES
  bios,            \* the machine's answers, fixed
  lower,           \* lower-memory buffers allocated and not freed
  constructed,     \* the (non-prototype) constructor has returned
  supportedModes,  \* VesaBiosExtensions::supportedModes, mode numbers
  hwMode,          \* the mode SET_MODE last switched the card to
  nodes,           \* LinearFrameBufferNodes added under /device
  halted,          \* an exception stopped the kernel
  calls            \* calls made so far

vars == <<bios, lower, constructed, supportedModes, hwMode, nodes, halted,
          calls>>

(* The constructor's filter (VesaBiosExtensions.cpp:42-45): a linear frame *)
(* buffer exists, at least 15 bits per pixel, the mode is supported by the *)
(* hardware and has an LFB, in packed-pixel or direct-colour memory model. *)
IsLfbMode(info) ==
  /\ info.physbase /= 0
  /\ info.bpp >= 15
  /\ "hardware" \in info.attributes
  /\ "lfb" \in info.attributes
  /\ info.model \in {"packedPixel", "directColor"}

(* for (modeCount = 0; modePointer[modeCount] != MODE_LIST_END_MARKER;     *)
(* modeCount++) (line 30), from modeCount = n.                             *)
RECURSIVE CountModes(_, _)
CountModes(list, n) ==
  IF list[n + 1] = EndMarker THEN n ELSE CountModes(list, n + 1)

ModeCount(list) == CountModes(list, 0)

(* The modes copied into vbeModes (lines 33-36), kept if the filter       *)
(* accepts their information, in list order (lines 39-48).                 *)
SupportedModes(b) ==
  SelectSeq(SubSeq(b.modes, 1, ModeCount(b.modes)),
            LAMBDA m : IsLfbMode(b.info[m]))

(* The modes a query of the constructor asks GET_MODE_INFO about.         *)
QueriedModes(b) == ToSet(SubSeq(b.modes, 1, ModeCount(b.modes)))

(* Buffers a VBE query leaves allocated: getVbeInfo and getModeInfo       *)
(* (lines 129-181) free theirs after a successful call and throw before   *)
(* freeing after a failed one.                                             *)
GetVbeInfoHeld(b) == IF b.vbeInfoOk THEN 0 ELSE 1

(* Mutant of GetModeInfoHeld: the buffer is never freed.                  *)
GetModeInfoKept(b, m) == 1

(* Mutant of GetModeInfoHeld: the buffer is freed a second time after a   *)
(* successful call.                                                        *)
GetModeInfoFreedTwice(b, m) == IF b.modeInfoOk[m] THEN 0 - 1 ELSE 1

GetModeInfoHeld(b, m) == IF b.modeInfoOk[m] THEN 0 ELSE 1

(* The outcome of isAvailable() (lines 53-82) on machine b: whether it    *)
(* returns true, and the buffers it leaves allocated.  With no BIOS it     *)
(* returns false at once; after a failed GET_VBE_INFO it returns false     *)
(* without freeing its buffer (line 74); else it frees the buffer and     *)
(* compares the signature.                                                 *)
IsAvailableResult(b) ==
  [ok   |-> b.available /\ b.vbeInfoOk /\ b.signature = "VESA",
   held |-> IF b.available /\ ~b.vbeInfoOk THEN 1 ELSE 0]

Init ==
  /\ bios \in Machines
  /\ lower = 0
  /\ constructed = FALSE
  /\ supportedModes = << >>
  /\ hwMode = NULL
  /\ nodes = {}
  /\ halted = FALSE
  /\ calls = 0

Call ==
  /\ ~halted
  /\ calls < MaxCalls
  /\ calls' = calls + 1

(* VesaBiosExtensions::isAvailable() (lines 53-82), static.                *)
IsAvailable ==
  /\ Call
  /\ lower' = lower + IsAvailableResult(bios).held
  /\ UNCHANGED <<bios, constructed, supportedModes, hwMode, nodes, halted>>

(* VesaBiosExtensions(false) (lines 10-51): getVbeInfo, then getModeInfo   *)
(* for each listed mode in order; the first failed query throws with its  *)
(* buffer allocated.  The names and memory size it reads are not tracked. *)
Construct ==
  /\ Call
  /\ ~constructed
  /\ LET failing == {m \in QueriedModes(bios) : ~bios.modeInfoOk[m]}
     IN IF ~bios.vbeInfoOk
        THEN /\ lower' = lower + GetVbeInfoHeld(bios)
             /\ halted' = TRUE
             /\ UNCHANGED <<constructed, supportedModes>>
        ELSE IF failing /= {}
        THEN /\ \E m \in failing : lower' = lower + GetModeInfoHeld(bios, m)
             /\ halted' = TRUE
             /\ UNCHANGED <<constructed, supportedModes>>
        ELSE /\ lower' = lower
                 + GetVbeInfoHeld(bios)
                 + FoldSet(LAMBDA m, n : n + GetModeInfoHeld(bios, m), 0,
                           QueriedModes(bios))
             /\ constructed' = TRUE
             /\ supportedModes' = SupportedModes(bios)
             /\ UNCHANGED halted
  /\ UNCHANGED <<bios, hwMode, nodes>>

(* setMode (lines 116-127): SET_MODE with the LFB bit, throwing when the   *)
(* BIOS refuses the mode.                                                  *)
SetModeStep(m) ==
  IF bios.setModeOk[m]
  THEN hwMode' = m /\ UNCHANGED halted
  ELSE halted' = TRUE /\ UNCHANGED hwMode

SetMode(m) ==
  /\ Call
  /\ SetModeStep(m)
  /\ UNCHANGED <<bios, lower, constructed, supportedModes, nodes>>

(* The node initializeLinearFrameBuffer adds for mode m (line 96): the    *)
(* address, resolution, depth and pitch GET_MODE_INFO reported.           *)
NodeOf(m) == [mode |-> m, info |-> bios.info[m]]

(* initializeLinearFrameBuffer(modeInfo, filename) (lines 84-98), for a    *)
(* mode getAvailableModes (lines 100-102) returned: isAvailable() or throw,*)
(* getModeInfo, setMode, then addNode of the new node on /device.          *)
InitializeLinearFrameBuffer(m) ==
  /\ Call
  /\ constructed
  /\ m \in ToSet(supportedModes)
  /\ LET probe == IsAvailableResult(bios)
     IN IF ~probe.ok
        THEN /\ lower' = lower + probe.held
             /\ halted' = TRUE
             /\ UNCHANGED <<hwMode, nodes>>
        ELSE IF ~bios.modeInfoOk[m]
        THEN /\ lower' = lower + GetModeInfoHeld(bios, m)
             /\ halted' = TRUE
             /\ UNCHANGED <<hwMode, nodes>>
        ELSE /\ lower' = lower + GetModeInfoHeld(bios, m)
             /\ SetModeStep(m)
             /\ nodes' = IF bios.setModeOk[m] THEN nodes \cup {NodeOf(m)}
                         ELSE nodes
  /\ UNCHANGED <<bios, constructed, supportedModes>>

Next ==
  \/ IsAvailable
  \/ Construct
  \/ \E m \in ModeNumbers : SetMode(m)
  \/ \E m \in ModeNumbers : InitializeLinearFrameBuffer(m)

Spec == Init /\ [][Next]_vars
-----------------------------------------------------------------------------
Infos == [physbase : {0, 1}, bpp : Nat, attributes : SUBSET {"hardware", "lfb"},
          model : {"text", "planar", "packedPixel", "directColor"}]

TypeOK ==
  /\ bios \in Machines
  /\ lower \in Nat
  /\ constructed \in BOOLEAN
  /\ supportedModes \in Seq(ModeNumbers)
  /\ hwMode \in ModeNumbers \cup {NULL}
  /\ nodes \subseteq [mode : ModeNumbers, info : Infos]
  /\ halted \in BOOLEAN
  /\ calls \in 0..MaxCalls

(* Every VBE query gives its lower-memory buffer back: while the kernel    *)
(* runs, whatever sequence of isAvailable, constructor, setMode and        *)
(* initializeLinearFrameBuffer calls was made, no buffer of                *)
(* allocateLowerMemory(..., 16) is left allocated (the comment of line 77, *)
(* and getVbeInfo and getModeInfo, free it after every answered call).     *)
LowerMemoryReleased == ~halted => lower = 0
=============================================================================
