------------------------- MODULE DescriptorEncoding -------------------------
(***************************************************************************)
(* The packing of one segment descriptor by                                *)
(* System::createGlobalDescriptorTableEntry (System.cpp:238-252), and the  *)
(* fields the processor reads back from the packed words.                  *)
(*                                                                         *)
(* TLC's integers are 32-bit signed, so a uint32_t is represented by its   *)
(* two 16-bit halves [hi, lo]; (x >> 16) is x.hi and (x & 0xFFFF) is x.lo, *)
(* and the remaining masks and shifts are applied with Bitwise.            *)
(***************************************************************************)
EXTENDS Naturals, Bitwise

Half == 0..65535
U32 == [hi : Half, lo : Half]
Word(n) == n % 2^16                       \* a store into a uint16_t

SystemEntries == 6
BiosEntries == 4

(* A table of n descriptors as the uint16_t array the code indexes.        *)
Indices(n) == 0 .. 4 * n - 1

(* (uint32_t) a + b, wrapping at 2^32.                                     *)
AddU32(a, b) ==
  LET lo == a.lo + b.lo
  IN [hi |-> (a.hi + b.hi + lo \div 2^16) % 2^16, lo |-> lo % 2^16]

FullLimit == [hi |-> 65535, lo |-> 65535]          \* 0xFFFFFFFF
Zero == [hi |-> 0, lo |-> 0]

(* Mutant of createGlobalDescriptorTableEntry: flags are not shifted into  *)
(* the high nibble before the mask.                                        *)
CreateGlobalDescriptorTableEntryUnshifted(gdt, num, base, limit, access, flags) ==
  LET idx == 4 * num
  IN [gdt EXCEPT
        ![idx]     = limit.lo & 65535,
        ![idx + 1] = base.lo & 65535,
        ![idx + 2] = Word((base.hi & 255) | (access * 2^8)),
        ![idx + 3] = Word((limit.hi & 15) | (flags & 240) | (base.hi & 65280))]

(* Mutant of createGlobalDescriptorTableEntry: base bits 16:23 are not     *)
(* masked, so base bits 24:31 are or-ed into the access byte.              *)
CreateGlobalDescriptorTableEntryUnmasked(gdt, num, base, limit, access, flags) ==
  LET idx == 4 * num
  IN [gdt EXCEPT
        ![idx]     = limit.lo & 65535,
        ![idx + 1] = base.lo & 65535,
        ![idx + 2] = Word(base.hi | (access * 2^8)),
        ![idx + 3] = Word((limit.hi & 15) | ((flags * 2^4) & 240)
                            | (base.hi & 65280))]

(* createGlobalDescriptorTableEntry (System.cpp:238-252): four 16-bit      *)
(* words [limit 0:15] [base 0:15] [access | base 16:23]                    *)
(* [base 24:31 | flags | limit 16:19] at index 4 * num.                    *)
CreateGlobalDescriptorTableEntry(gdt, num, base, limit, access, flags) ==
  LET idx == 4 * num
  IN [gdt EXCEPT
        ![idx]     = limit.lo & 65535,
        ![idx + 1] = base.lo & 65535,
        ![idx + 2] = Word((base.hi & 255) | (access * 2^8)),
        ![idx + 3] = Word((limit.hi & 15) | ((flags * 2^4) & 240)
                            | (base.hi & 65280))]

(* The fields the processor reads from descriptor k of a word table       *)
(* (Intel SDM vol. 3, section 3.4.5): the reference the packing is checked *)
(* against.                                                                *)
Descriptor(gdt, k) ==
  LET w2 == gdt[4 * k + 2]
      w3 == gdt[4 * k + 3]
      access == w2 \div 256
      flags == (w3 \div 16) % 16
  IN [base     |-> [hi |-> (w2 % 256) + (w3 \div 256) * 256, lo |-> gdt[4 * k + 1]],
      limit    |-> [hi |-> w3 % 16, lo |-> gdt[4 * k]],
      access   |-> access,
      flags    |-> flags,
      present  |-> access \div 128 = 1,
      dpl      |-> (access \div 32) % 4,
      system   |-> (access \div 16) % 2 = 0,
      type     |-> access % 16,
      granular |-> flags \div 8 = 1,
      size32   |-> (flags \div 4) % 2 = 1]

(* Every base, the low 20 bits of every limit, every access byte and the   *)
(* low nibble of every flags argument are read back by the processor as    *)
(* they were passed to createGlobalDescriptorTableEntry.                   *)
LayoutRoundTrip(base, limit, access, flags) ==
  LET d == Descriptor(CreateGlobalDescriptorTableEntry(
                        [i \in 0..3 |-> 0], 0, base, limit, access, flags), 0)
  IN /\ d.base = base
     /\ d.limit = [hi |-> limit.hi % 16, lo |-> limit.lo]
     /\ d.access = access
     /\ d.flags = flags % 16
=============================================================================
