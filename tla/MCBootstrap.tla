---------------------------- MODULE MCBootstrap ----------------------------
(* Model-checking instance of Bootstrap on the machines of BootMachines.   *)
(* The descriptor tables are checked at every placement the start-up code  *)
(* may choose.                                                             *)
EXTENDS Bootstrap, BootMachines

CONSTANT boot

(* Once the start-up code has built the tables, createGlobalDescriptor-    *)
(* TableEntry round-trips every argument tuple (LayoutRoundTripHolds).     *)
EntryLayoutRoundTrip == phase /= "gdt" => LayoutRoundTripHolds

(* Once initializeGlobalDescriptorTables has returned, the tables hold the *)
(* segments of spec section 4.4, wherever the start-up code placed them.   *)
SegmentsAsSpecified == phase /= "gdt" => TablesAsSpecified

(* Once it has returned, the virtual and the physical payload describe the *)
(* system table and the BIOS payload the BIOS table, each covering exactly *)
(* its table's entries (System.cpp:207-232).                               *)
DescriptorsCoverTables == phase /= "gdt" => TablesCoverPayloads
=====
