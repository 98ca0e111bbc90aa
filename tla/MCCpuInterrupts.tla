-------------------------- MODULE MCCpuInterrupts --------------------------
(* Model-checking instance of CpuInterrupts: two threads, nesting two deep,*)
(* two stacked handlers.                                                   *)
EXTENDS CpuInterrupts

CONSTANTS t1, t2

MCThreads == {t1, t2}
=============================================================================
