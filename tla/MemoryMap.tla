----------------------------- MODULE MemoryMap -----------------------------
(***************************************************************************)
(* System::calculatePhysicalMemorySize (System.cpp:261-279) and the        *)
(* definition the spec gives for it (section 4.5, step 3), as operators    *)
(* over a multiboot memory map: a sequence of entries with a type, a base  *)
(* address and a length (64-bit in the multiboot structure).  The result   *)
(* is cast to uint32_t; AddrBits is the width of that cast.  A model may   *)
(* measure addresses in a coarser unit and give AddrBits accordingly.      *)
(***************************************************************************)
EXTENDS Integers, Sequences

CONSTANT AddrBits

ASSUME AddrBits \in Nat \ {0}

Available == "available"
Reserved  == "reserved"

Entry == [type : {Available, Reserved}, address : Nat, length : Nat]

(* entry.address + entry.length *)
End(e) == e.address + e.length

(* static_cast<uint32_t>: the value modulo 2^AddrBits.                     *)
ToUint32(n) == n % (2 ^ AddrBits)

(* The loop of System.cpp:263-272.  maxEntry is a reference to map[0]: it  *)
(* starts as the first entry whatever its type, and every available entry  *)
(* that ends further replaces it (the assignment copies into map[0], which *)
(* the loop has already visited).                                          *)
RECURSIVE MaxEntryScan(_, _, _)
MaxEntryScan(map, i, maxEntry) ==
  IF i > Len(map) THEN maxEntry
  ELSE MaxEntryScan(map, i + 1,
         IF map[i].type = Available /\ End(map[i]) > End(maxEntry)
         THEN map[i] ELSE maxEntry)

NoUsableMemory == -1   \* stands for the ILLEGAL_STATE exception

(* Mutant of CalculatePhysicalMemorySize: the type test after the loop is  *)
(* left out.                                                               *)
CalculatePhysicalMemorySizeUnchecked(map) ==
  ToUint32(End(MaxEntryScan(map, 1, map[1])))

(* The whole function: ILLEGAL_STATE when the chosen entry is not          *)
(* available (System.cpp:274-276), else its end cast to 32 bits.           *)
CalculatePhysicalMemorySize(map) ==
  LET maxEntry == MaxEntryScan(map, 1, map[1])
  IN IF maxEntry.type /= Available THEN NoUsableMemory
     ELSE ToUint32(End(maxEntry))

(* Spec section 4.5 step 3: the highest end address among the available    *)
(* entries; a fatal error when no entry is available.                      *)
ReferenceMemorySize(map) ==
  LET ends == {End(map[i]) : i \in {j \in DOMAIN map : map[j].type = Available}}
  IN IF ends = {} THEN NoUsableMemory
     ELSE CHOOSE n \in ends : \A m \in ends : n >= m
=============================================================================
