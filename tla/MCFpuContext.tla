---------------------------- MODULE MCFpuContext ----------------------------
(* Model-checking instance of FpuContext: three thread slots, two register *)
(* images besides the default one.                                         *)
EXTENDS FpuContext

CONSTANTS t1, t2, t3, d, a, b

MCThreads == {t1, t2, t3}
MCValues == {d, a, b}
=============================================================================
