---------------------------- MODULE FpuContext ----------------------------
(***************************************************************************)
(* The lazy FPU context switch of Device::Fpu (src/device/cpu/Fpu.cpp).    *)
(*                                                                         *)
(* The physical FPU holds the registers of Fpu::lastFpuThread.  At every   *)
(* thread switch the scheduler arms the monitor (CR0.TS); the next FPU     *)
(* instruction of the new thread raises DEVICE_NOT_AVAILABLE and          *)
(* Fpu::trigger saves the registers into lastFpuThread's context, loads    *)
(* the current thread's context and records it as the new owner.  When a   *)
(* thread is torn down, Fpu::checkTerminatedThread clears lastFpuThread by *)
(* compare-and-swap if it points at that thread.                           *)
(*                                                                         *)
(* Threads are identified by the address of their Thread object: a slot of *)
(* Threads is free or holds a live thread, and a freed slot can hold a new *)
(* thread later (the allocator reuses the memory).  Register contents are  *)
(* abstracted to a small set Values; expect[t] is a history variable, the  *)
(* registers thread t last produced, so what the thread must see again.    *)
(***************************************************************************)
EXTENDS Naturals, FiniteSets

CONSTANTS
  Threads,              \* addresses a Thread object can occupy
  BootThread,           \* the thread running when the FPU is set up
  Values,               \* FPU register images
  Default,              \* the image fninit produces (defaultFpuContext)
  NULL,                 \* the null pointer
  TeardownDuringTrap    \* may thread teardown run while trigger() runs?

ASSUME BootThread \in Threads /\ Default \in Values /\ NULL \notin Threads
ASSUME TeardownDuringTrap \in BOOLEAN

VARIABLES
  status,         \* per slot: "free" or "alive"
  current,        \* SchedulerService::getCurrentThread()
  lastFpuThread,  \* Fpu::lastFpuThread, a weak reference or NULL
  ts,             \* CR0.TS: the monitor is armed
  fpu,            \* the registers in the physical FPU
  saved,          \* per thread: Thread::getFpuContext(), its stored image
  expect,         \* history: the image each thread last produced
  trap,           \* where Fpu::trigger is, "none" when it is not running
  seen,           \* lastFpuThread as trigger() read it before saving
  fault           \* trigger() dereferenced a null or freed thread

vars == <<status, current, lastFpuThread, ts, fpu, saved, expect, trap, seen,
          fault>>

Alive == {t \in Threads : status[t] = "alive"}

(* Fpu::Fpu (Fpu.cpp:28-47): fninit, then the reset state is saved as    *)
(* the default context; the scheduler arms the monitor before it runs the  *)
(* first thread, and no thread owns the FPU yet.                           *)
Init ==
  /\ status = [t \in Threads |-> IF t = BootThread THEN "alive" ELSE "free"]
  /\ current = BootThread
  /\ lastFpuThread = NULL
  /\ ts = TRUE
  /\ fpu = Default
  /\ saved = [t \in Threads |-> Default]
  /\ expect = [t \in Threads |-> Default]
  /\ trap = "none"
  /\ seen = NULL
  /\ fault = FALSE

(* The current thread executes an FPU instruction with the monitor off: it *)
(* works on the physical registers, leaving image v in them.               *)
UseFpu ==
  /\ trap = "none"
  /\ ~ts
  /\ \E v \in Values :
       /\ fpu' = v
       /\ expect' = [expect EXCEPT ![current] = v]
  /\ UNCHANGED <<status, current, lastFpuThread, ts, saved, trap, seen, fault>>

(* The same instruction with the monitor armed raises DEVICE_NOT_AVAILABLE *)
(* and enters Fpu::trigger (assigned by Fpu::plugin, Fpu.cpp:49-51).     *)
RaiseTrap ==
  /\ trap = "none"
  /\ ts
  /\ trap' = "check"
  /\ UNCHANGED <<status, current, lastFpuThread, ts, fpu, saved, expect, seen,
                 fault>>

(* trigger(), Fpu.cpp:53-76 and the test of switchContext at 136: lock   *)
(* the scheduler, disarm the monitor, return at once if the current thread *)
(* already owns the FPU, else go on to save the owner's registers if there *)
(* is an owner.                                                            *)
Check ==
  /\ trap = "check"
  /\ ts' = FALSE
  /\ seen' = lastFpuThread
  /\ trap' = CASE current = lastFpuThread -> "none"
               [] lastFpuThread /= NULL   -> "save"
               [] OTHER                   -> "restore"
  /\ UNCHANGED <<status, current, lastFpuThread, fpu, saved, expect, fault>>

(* Mutant of Save: the registers are saved into the current thread's      *)
(* context instead of the owner's.                                         *)
SaveIntoCurrent ==
  /\ trap = "save"
  /\ saved' = [saved EXCEPT ![current] = fpu]
  /\ trap' = "restore"
  /\ UNCHANGED <<status, current, lastFpuThread, ts, fpu, expect, seen, fault>>

(* fxsave/fnsave into lastFpuThread->getFpuContext() (Fpu.cpp:137-141 and  *)
(* 153-157).  The member is read again here, without synchronisation with *)
(* checkTerminatedThread; the compiler may use the value it read for the   *)
(* test or load it anew, so both are possible.                             *)
Save ==
  /\ trap = "save"
  /\ \E owner \in {seen, lastFpuThread} :
       IF owner = NULL \/ status[owner] = "free"
       THEN /\ fault' = TRUE
            /\ UNCHANGED saved
       ELSE /\ saved' = [saved EXCEPT ![owner] = fpu]
            /\ UNCHANGED fault
  /\ trap' = "restore"
  /\ UNCHANGED <<status, current, lastFpuThread, ts, fpu, expect, seen>>

(* Mutant of Restore: the default context is loaded instead of the        *)
(* thread's own.                                                           *)
RestoreDefault ==
  /\ trap = "restore"
  /\ fpu' = Default
  /\ trap' = "own"
  /\ UNCHANGED <<status, current, lastFpuThread, ts, saved, expect, seen,
                 fault>>

(* fxrstor/frstor from currentThread.getFpuContext() (Fpu.cpp:144-148 and  *)
(* 160-164).                                                               *)
Restore ==
  /\ trap = "restore"
  /\ fpu' = saved[current]
  /\ trap' = "own"
  /\ UNCHANGED <<status, current, lastFpuThread, ts, saved, expect, seen,
                 fault>>

(* lastFpuThread = &currentThread; unlock the scheduler (Fpu.cpp:78-79). *)
TakeOwnership ==
  /\ trap = "own"
  /\ lastFpuThread' = current
  /\ trap' = "none"
  /\ UNCHANGED <<status, current, ts, fpu, saved, expect, seen, fault>>

(* The scheduler switches to another live thread and arms the monitor with *)
(* Fpu::armFpuMonitor (Fpu.cpp:87-95), under the scheduler lock.         *)
SwitchThread ==
  /\ trap = "none"
  /\ \E t \in Alive \ {current} :
       /\ current' = t
       /\ ts' = TRUE
  /\ UNCHANGED <<status, lastFpuThread, fpu, saved, expect, trap, seen, fault>>

(* A new thread is created in a free slot; its FPU context is a copy of    *)
(* the default context.                                                    *)
CreateThread ==
  /\ trap = "none"
  /\ \E t \in Threads \ Alive :
       /\ status' = [status EXCEPT ![t] = "alive"]
       /\ saved' = [saved EXCEPT ![t] = Default]
       /\ expect' = [expect EXCEPT ![t] = Default]
  /\ UNCHANGED <<current, lastFpuThread, ts, fpu, trap, seen, fault>>

(* Mutant of TerminateThread: the running thread's object is freed too.   *)
TerminateRunning ==
  /\ trap = "none" \/ TeardownDuringTrap
  /\ \E t \in Alive :
       /\ lastFpuThread' = IF lastFpuThread = t THEN NULL ELSE lastFpuThread
       /\ status' = [status EXCEPT ![t] = "free"]
  /\ UNCHANGED <<current, ts, fpu, saved, expect, trap, seen, fault>>

(* Mutant of TerminateThread: teardown without checkTerminatedThread.      *)
TerminateWithoutCheck ==
  /\ trap = "none" \/ TeardownDuringTrap
  /\ \E t \in Alive \ {current} :
       /\ status' = [status EXCEPT ![t] = "free"]
  /\ UNCHANGED <<current, lastFpuThread, ts, fpu, saved, expect, trap, seen,
                 fault>>

(* A thread that is not running is torn down: the teardown path calls     *)
(* checkTerminatedThread (Fpu.cpp:82-85), an atomic compare-and-set of   *)
(* lastFpuThread from the thread to 0, then frees the Thread object.       *)
TerminateThread ==
  /\ trap = "none" \/ TeardownDuringTrap
  /\ \E t \in Alive \ {current} :
       /\ lastFpuThread' = IF lastFpuThread = t THEN NULL ELSE lastFpuThread
       /\ status' = [status EXCEPT ![t] = "free"]
  /\ UNCHANGED <<current, ts, fpu, saved, expect, trap, seen, fault>>

Next ==
  \/ UseFpu
  \/ RaiseTrap
  \/ Check
  \/ Save
  \/ Restore
  \/ TakeOwnership
  \/ SwitchThread
  \/ CreateThread
  \/ TerminateThread

Spec == Init /\ [][Next]_vars

-----------------------------------------------------------------------------
TypeOK ==
  /\ status \in [Threads -> {"free", "alive"}]
  /\ current \in Alive
  /\ lastFpuThread \in Threads \cup {NULL}
  /\ ts \in BOOLEAN
  /\ fpu \in Values
  /\ saved \in [Threads -> Values]
  /\ expect \in [Threads -> Values]
  /\ trap \in {"none", "check", "save", "restore", "own"}
  /\ seen \in Threads \cup {NULL}
  /\ fault \in BOOLEAN

(* Save-before-restore: the image of every live thread that does not own   *)
(* the FPU is preserved in its context exactly as the thread left it, so a *)
(* later trap of that thread restores it (spec section 8).                 *)
ContextsPreserved ==
  \A t \in Alive : t /= lastFpuThread => saved[t] = expect[t]

(* A thread running with the monitor off computes on its own registers:    *)
(* the physical FPU holds what the current thread last produced, even      *)
(* after other threads used the FPU and after threads died and their       *)
(* memory was reused.                                                      *)
OwnRegistersVisible ==
  trap = "none" /\ ~ts => fpu = expect[current]

(* Spec section 4.2: checkTerminatedThread may run concurrently with       *)
(* trigger(); trigger() must then never save into a destroyed thread or    *)
(* through a null owner.                                                   *)
NoDanglingOwnerAccess == ~fault
=============================================================================
