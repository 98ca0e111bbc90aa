---------------------------- MODULE MCKernelCore ----------------------------
(***************************************************************************)
(* The kernel's own start-up and synchronisation checked in one run:      *)
(* initializeSystem() (Bootstrap, on the machines of BootMachines), and    *)
(* the interrupt nesting controller (CpuInterrupts) beside the kernel      *)
(* service registry (ServiceRegistry) once the kernel runs.                *)
(*                                                                         *)
(* Each behaviour is either the boot (focus "boot") or the running kernel *)
(* (focus "kernel"); the other part stays in its initial state.  In the    *)
(* running kernel the controller and the registry share no state:          *)
(* Cpu::cliCount and the IF flag on one side, System::serviceMap and       *)
(* System::serviceLock (a spinlock, which does not touch cliCount) on the  *)
(* other.  Their steps interleave freely, so every property of either is   *)
(* checked in every interleaving with the other; either exception (the     *)
(* ILLEGAL_STATE of Cpu.cpp, the INVALID_ARGUMENT of registerService)      *)
(* halts the whole kernel and so stops both.                               *)
(*                                                                         *)
(* CpuInterrupts: two threads, nesting two deep, two stacked handlers,     *)
(* preemptive scheduling.  ServiceRegistry: five registrants, two of them  *)
(* registering under the same id.  Bootstrap: every block map, every       *)
(* low-first memory map below 4 GiB, with and without a (valid) RTC.       *)
(***************************************************************************)
EXTENDS Naturals, TLC, BootMachines

CONSTANTS t1, t2, r1, r2, r3, r4, r5, idA, idB, idC, idD, boot, NULL

VARIABLES
  focus,                                               \* the part that moves
  cliCount, intFlag, current, th, frames, cpuHalted,   \* of CpuInterrupts
  serviceMap, serviceLock, pc, registryHalted,         \* of ServiceRegistry
  phase, blockMap, memoryMap, rtcAvailable, rtcValid,  \* of Bootstrap
  memorySize, bootServiceMap, initialized, error,
  bootCliCount, bootIntFlag, bootCurrent, bootTh, bootFrames, bootHalted

cpuVars == <<cliCount, intFlag, current, th, frames, cpuHalted>>
registryVars == <<serviceMap, serviceLock, pc, registryHalted>>
bootVars == <<phase, blockMap, memoryMap, rtcAvailable, rtcValid, memorySize,
              bootServiceMap, initialized, error, bootCliCount, bootIntFlag,
              bootCurrent, bootTh, bootFrames, bootHalted>>
vars == <<focus, cpuVars, registryVars, bootVars>>

MCThreads == {t1, t2}
MCRegistrants == {r1, r2, r3, r4, r5}
MCIds == {idA, idB, idC, idD}
MCRequest == (r1 :> idA) @@ (r2 :> idA) @@ (r3 :> idB) @@ (r4 :> idC)
             @@ (r5 :> idD)

Cpu == INSTANCE CpuInterrupts
         WITH Threads <- MCThreads, BootThread <- t1, MaxDepth <- 2,
              MaxNesting <- 2, Preemptive <- TRUE, halted <- cpuHalted

Reg == INSTANCE ServiceRegistry
         WITH Registrants <- MCRegistrants, Ids <- MCIds,
              Request <- MCRequest, halted <- registryHalted

Boot == INSTANCE MCBootstrap
          WITH BootThread <- boot, BlockMaps <- MCBlockMaps,
               MemoryMaps <- MapsLowFirst, AddrBits <- MCAddrBits,
               KernelStart <- MCKernelStart, BiosCodeMemory <- MCBiosCodeMemory,
               TssSize <- MCTssSize, Addresses <- MCAddresses,
               TssAddresses <- MCTssAddresses,
               serviceMap <- bootServiceMap, cliCount <- bootCliCount,
               intFlag <- bootIntFlag, current <- bootCurrent, th <- bootTh,
               frames <- bootFrames, halted <- bootHalted

Init ==
  /\ focus \in {"kernel", "boot"}
  /\ Cpu!Init /\ Reg!Init /\ Boot!Init
  /\ focus = "kernel" => /\ blockMap = <<"HEAP_RESERVED">>
                         /\ memoryMap = <<LowAvailable>>
                         /\ ~rtcAvailable /\ ~rtcValid

KernelNext ==
  \/ ~registryHalted /\ Cpu!Next /\ UNCHANGED registryVars
  \/ ~cpuHalted /\ Reg!Next /\ UNCHANGED cpuVars

Next ==
  \/ focus = "kernel" /\ KernelNext /\ UNCHANGED <<focus, bootVars>>
  \/ focus = "boot" /\ Boot!Next /\ UNCHANGED <<focus, cpuVars, registryVars>>

(* The registrants keep running their calls (ServiceRegistry's fairness)   *)
(* and initializeSystem() keeps going (Bootstrap's); nothing is assumed of *)
(* the interrupt controller's contexts.                                    *)
Spec ==
  /\ Init /\ [][Next]_vars
  /\ \A r \in MCRegistrants :
       WF_vars(focus = "kernel" /\ ~cpuHalted /\ Reg!Register(r)
               /\ UNCHANGED <<focus, cpuVars, bootVars>>)
  /\ WF_vars(focus = "boot" /\ Boot!BootStep
             /\ UNCHANGED <<focus, cpuVars, registryVars>>)
-----------------------------------------------------------------------------
TypeOK == Cpu!TypeOK /\ Reg!TypeOK /\ Boot!TypeOK

(* Balanced disable()/enable() callers never reach the illegal-state       *)
(* exceptions of Cpu.cpp:34 and Cpu.cpp:44, whatever the interleaving.     *)
NeverIllegalState == Cpu!NeverIllegalState

(* Interrupts are armed only while every count in cliCount belongs to a    *)
(* disable() that has not executed its cli yet (Cpu.cpp:27-50).            *)
ArmedOnlyWhenBalanced == Cpu!ArmedOnlyWhenBalanced

(* A registerService call that returned (System.cpp:153-161) has its       *)
(* service in the slot; no later call replaces it.                         *)
RegistrationsKept == Reg!RegistrationsKept

(* Every registerService call returns unless a duplicate id halted the     *)
(* kernel: serviceLock is always released again.                          *)
RegistrationsReturn == focus = "kernel" => Reg!RegistrationsReturn

(* initializeSystem() ends with every kernel service registered and the    *)
(* time service on the clocks the machine has, or halts with the error its *)
(* input calls for (System.cpp:31-78).                                     *)
BootOutcome == Boot!BootOutcome

(* calculatePhysicalMemorySize agrees with the reference on every map it   *)
(* is given, or throws exactly when no memory is usable (System.cpp:      *)
(* 262-279).                                                               *)
MemorySizeMatchesMap == Boot!MemorySizeMatchesMap

(* With a heap block and usable memory, initializeSystem() completes.      *)
BootCompletes == focus = "boot" => Boot!BootCompletes

(* Once the tables are built, createGlobalDescriptorTableEntry's bytes     *)
(* decode to its arguments (System.cpp:241-250).                           *)
EntryLayoutRoundTrip == phase /= "gdt" => LayoutRoundTripHolds

(* Once they are built, the tables hold the segments of spec section 4.4.  *)
SegmentsAsSpecified == phase /= "gdt" => TablesAsSpecified

(* Once they are built, the descriptors' payloads cover exactly their     *)
(* tables (System.cpp:207-232).                                            *)
DescriptorsCoverTables == phase /= "gdt" => TablesCoverPayloads
=============================================================================
