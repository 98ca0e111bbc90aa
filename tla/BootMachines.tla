---------------------------- MODULE BootMachines ----------------------------
(* The machines initializeSystem() is checked on: multiboot block maps and *)
(* memory maps, the kernel's link address, and the addresses and          *)
(* descriptor arguments of the descriptor tables.  Addresses are counted   *)
(* in units of 256 MiB, so the 32-bit cast is modulo 2^4 units (4 GiB).    *)
(* The entries follow the shape of the spec's example map: low available  *)
(* memory, a reserved hole, available memory above it; besides those a     *)
(* large reserved region and available memory above 4 GiB.                 *)
EXTENDS Integers

MCAddrBits == 4

LOCAL Mem == INSTANCE MemoryMap WITH AddrBits <- MCAddrBits

(* sizeof(Kernel::TaskStateSegment).                                       *)
MCTssSize == 104

LowAvailable  == [type |-> Mem!Available, address |-> 0,  length |-> 2]
Hole          == [type |-> Mem!Reserved,  address |-> 2,  length |-> 1]
HighAvailable == [type |-> Mem!Available, address |-> 3,  length |-> 5]
BigReserved   == [type |-> Mem!Reserved,  address |-> 0,  length |-> 12]
Above4G       == [type |-> Mem!Available, address |-> 16, length |-> 4]

Entries == {LowAvailable, Hole, HighAvailable, BigReserved, Above4G}

AllMaps == UNION {[1..n -> Entries] : n \in 1..3}

Below4G(m) == \A i \in DOMAIN m : Mem!End(m[i]) < 2 ^ MCAddrBits

NoneAvailable(m) == \A i \in DOMAIN m : m[i].type = Mem!Reserved

(* Maps as firmware reports them: the first entry is the available low     *)
(* memory, or nothing is available; all memory below 4 GiB.                *)
MapsLowFirst == {m \in AllMaps : /\ Below4G(m)
                                 /\ m[1].type = Mem!Available \/ NoneAvailable(m)}

(* Low memory first, with memory above 4 GiB allowed.                      *)
MapsAbove4G == {m \in AllMaps : m[1] = LowAvailable}

MCBlockMaps == {<<"HEAP_RESERVED">>, <<"MODULE", "HEAP_RESERVED">>, <<"MODULE">>}
(* KERNEL_START = 0xC0000000.                                              *)
MCKernelStart == [hi |-> 49152, lo |-> 0]

(* The BIOS-call code window, in low memory.                               *)
MCBiosCodeMemory == [hi |-> 0, lo |-> 16384]

(* Physical addresses in the low memory the start-up code reserves from,   *)
(* including one at the top of the first 1 GiB.                            *)
MCAddresses ==
  {[hi |-> 0, lo |-> 4096], [hi |-> 0, lo |-> 36608],
   [hi |-> 16, lo |-> 0], [hi |-> 16383, lo |-> 61440]}

(* &System::taskStateSegment in the kernel image above KERNEL_START, with  *)
(* base bytes 16:23 and 24:31 both non-zero.                               *)
MCTssAddresses ==
  {[hi |-> 49168, lo |-> 9024], [hi |-> 50175, lo |-> 65432],
   [hi |-> 49152, lo |-> 0]}

(* createGlobalDescriptorTableEntry over bounded arguments: bases and      *)
(* limits whose halves set the low, the high and both bytes, every access  *)
(* byte the kernel passes and its extremes, and flags nibbles including   *)
(* one with bits above the nibble set.                                     *)
HalfValues == {0, 255, 4660, 43776, 65535}

EntryArgs ==
  [base : [hi : HalfValues, lo : {0, 4660, 65535}],
   limit : [hi : {0, 15, 4660, 65535}, lo : {0, 65535}],
   access : {0, 137, 154, 250, 255},
   flags : {0, 4, 8, 12, 15, 28}]

LOCAL Tables == INSTANCE DescriptorTables
                  WITH KernelStart <- MCKernelStart,
                       BiosCodeMemory <- MCBiosCodeMemory, TssSize <- MCTssSize,
                       Addresses <- MCAddresses, TssAddresses <- MCTssAddresses

(* For every argument tuple, the processor reads back the base, the low 20 *)
(* bits of the limit, the access byte and the flags nibble                 *)
(* createGlobalDescriptorTableEntry was given (System.cpp:241-250).        *)
LayoutRoundTripHolds ==
  \A e \in EntryArgs : Tables!LayoutRoundTrip(e.base, e.limit, e.access, e.flags)

(* The tables the start-up code builds at every placement it may choose.   *)
TablesAsSpecified == Tables!SegmentsAsSpecified
TablesCoverPayloads == Tables!DescriptorsCoverTables
====
