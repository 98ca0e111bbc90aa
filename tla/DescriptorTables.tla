-------------------------- MODULE DescriptorTables --------------------------
(***************************************************************************)
(* The descriptor table builder of Kernel::System                          *)
(* (src/kernel/system/System.cpp:186-252).  initializeGlobalDescriptor-    *)
(* Tables is called once, before paging is enabled, with physical pointers *)
(* to two tables of 16-bit words reserved by the assembler start-up code:  *)
(* the system GDT (6 entries) and the GDT used during BIOS calls (4        *)
(* entries), and to three descriptor-register payloads (a 16-bit limit     *)
(* followed by a 32-bit base).                                             *)
(*                                                                         *)
(* The builder keeps no state of its own (spec section 4.4): it is the     *)
(* operator InitializeGlobalDescriptorTables from the pointers to what it  *)
(* writes, checked over every placement of the tables.  The packing of     *)
(* each descriptor is in DescriptorEncoding.                               *)
(***************************************************************************)
EXTENDS DescriptorEncoding

CONSTANTS
  KernelStart,     \* MemoryLayout::KERNEL_START, as a U32
  BiosCodeMemory,  \* MemoryLayout::BIOS_CODE_MEMORY.startAddress, a U32
  TssSize,         \* sizeof(Kernel::TaskStateSegment)
  Addresses,       \* candidate physical addresses of the two tables
  TssAddresses     \* candidate addresses of System::taskStateSegment

(* The six system descriptors of System.cpp:195-205, written into the      *)
(* zero-filled table (setRange(0, 48), line 188).                          *)
SystemTable(tss) ==
  LET t0 == [i \in Indices(SystemEntries) |-> 0]
      t1 == CreateGlobalDescriptorTableEntry(t0, 0, Zero, Zero, 0, 0)
      t2 == CreateGlobalDescriptorTableEntry(t1, 1, Zero, FullLimit, 154, 12)
      t3 == CreateGlobalDescriptorTableEntry(t2, 2, Zero, FullLimit, 146, 12)
      t4 == CreateGlobalDescriptorTableEntry(t3, 3, Zero, FullLimit, 250, 12)
      t5 == CreateGlobalDescriptorTableEntry(t4, 4, Zero, FullLimit, 242, 12)
  IN CreateGlobalDescriptorTableEntry(t5, 5, tss, [hi |-> 0, lo |-> TssSize],
                                      137, 4)

(* The four BIOS-call descriptors of System.cpp:219-225, written into the  *)
(* zero-filled table (setRange(0, 32), line 191).                          *)
BiosTable ==
  LET t0 == [i \in Indices(BiosEntries) |-> 0]
      t1 == CreateGlobalDescriptorTableEntry(t0, 0, Zero, Zero, 0, 0)
      t2 == CreateGlobalDescriptorTableEntry(t1, 1, Zero, FullLimit, 154, 12)
      t3 == CreateGlobalDescriptorTableEntry(t2, 2, Zero, FullLimit, 146, 12)
  IN CreateGlobalDescriptorTableEntry(t3, 3, BiosCodeMemory, FullLimit, 154, 8)
-----------------------------------------------------------------------------
(* The pointers the start-up code may pass: the two tables anywhere in the *)
(* candidate physical range, apart, and &taskStateSegment.                *)
Placements ==
  {a \in [system : Addresses, bios : Addresses, tss : TssAddresses] :
     a.system /= a.bios}

(* Mutant of InitializeGlobalDescriptorTables: the BIOS payload's limit is *)
(* copied from the system payload.                                         *)
InitializeGlobalDescriptorTablesCopiedLimit(a) ==
  [systemGdt |-> SystemTable(a.tss),
   systemGdtDescriptor |-> [limit |-> 6 * 8, base |-> AddU32(a.system, KernelStart)],
   physicalGdtDescriptor |-> [limit |-> 6 * 8, base |-> a.system],
   biosGdt |-> BiosTable,
   biosGdtDescriptor |-> [limit |-> 6 * 8, base |-> a.bios]]

(* initializeGlobalDescriptorTables (System.cpp:186-232) called with the   *)
(* pointers a: what it leaves in the two tables and the three payloads.    *)
(* Every word of the tables is zero-filled or written and every payload   *)
(* field is written, so nothing depends on what the memory held before.   *)
InitializeGlobalDescriptorTables(a) ==
  [systemGdt |-> SystemTable(a.tss),
   systemGdtDescriptor |-> [limit |-> 6 * 8, base |-> AddU32(a.system, KernelStart)],
   physicalGdtDescriptor |-> [limit |-> 6 * 8, base |-> a.system],
   biosGdt |-> BiosTable,
   biosGdtDescriptor |-> [limit |-> 4 * 8, base |-> a.bios]]

-----------------------------------------------------------------------------
(* A segment spanning the whole 4 GiB address space from 0.                *)
Flat(d) ==
  /\ d.base = Zero
  /\ d.granular /\ d.limit = [hi |-> 15, lo |-> 65535]

Code(d) == d.present /\ ~d.system /\ d.type \div 8 = 1 /\ (d.type \div 2) % 2 = 1
Data(d) == d.present /\ ~d.system /\ d.type \div 8 = 0 /\ (d.type \div 2) % 2 = 1

(* Spec section 4.4, read back as the processor decodes the words: entry 0 *)
(* is null; kernel code and data are flat 32-bit ring-0 segments, user     *)
(* code and data the same in ring 3; entry 5 is an available 32-bit TSS    *)
(* at &taskStateSegment spanning the whole structure; the BIOS table has   *)
(* the same null and kernel entries and a 16-bit ring-0 code segment at    *)
(* BIOS_CODE_MEMORY.                                                       *)
SegmentsAsSpecifiedAt(r, arg) ==
  LET s(k) == Descriptor(r.systemGdt, k)
      b(k) == Descriptor(r.biosGdt, k)
  IN /\ \A i \in 0..3 : r.systemGdt[i] = 0 /\ r.biosGdt[i] = 0
     /\ \A k \in 1..4 : Flat(s(k)) /\ s(k).size32
     /\ Code(s(1)) /\ Data(s(2)) /\ Code(s(3)) /\ Data(s(4))
     /\ s(1).dpl = 0 /\ s(2).dpl = 0 /\ s(3).dpl = 3 /\ s(4).dpl = 3
     /\ s(5).present /\ s(5).system /\ s(5).type = 9 /\ s(5).dpl = 0
     /\ s(5).base = arg.tss /\ ~s(5).granular
     /\ s(5).limit.hi = 0 /\ s(5).limit.lo + 1 >= TssSize
     /\ \A k \in 1..2 : b(k) = s(k)
     /\ Code(b(3)) /\ b(3).dpl = 0 /\ ~b(3).size32 /\ b(3).granular
     /\ b(3).base = BiosCodeMemory

(* Entries a payload makes loadable: those whose 8 bytes lie within its    *)
(* limit.                                                                  *)
Loadable(p) == (p.limit + 1) \div 8

(* Spec section 4.4: the virtual and the physical payload describe the     *)
(* same system table, at its address before and after the kernel mapping  *)
(* (KERNEL_START), and the BIOS payload the BIOS table at its physical    *)
(* address; each makes exactly the table's entries loadable, so no        *)
(* selector reaches past a table into the memory that follows it.         *)
DescriptorsCoverTablesAt(r, arg) ==
  /\ r.physicalGdtDescriptor.base = arg.system
  /\ r.systemGdtDescriptor.base = AddU32(arg.system, KernelStart)
  /\ r.biosGdtDescriptor.base = arg.bios
  /\ Loadable(r.systemGdtDescriptor) = SystemEntries
  /\ Loadable(r.physicalGdtDescriptor) = SystemEntries
  /\ Loadable(r.biosGdtDescriptor) = BiosEntries

(* The segments of spec section 4.4, for every placement of the tables and *)
(* of the TSS the start-up code may choose.                                *)
SegmentsAsSpecified ==
  \A a \in Placements :
    SegmentsAsSpecifiedAt(InitializeGlobalDescriptorTables(a), a)

(* The payloads cover exactly their tables, for every placement.          *)
DescriptorsCoverTables ==
  \A a \in Placements :
    DescriptorsCoverTablesAt(InitializeGlobalDescriptorTables(a), a)
=============================================================================
