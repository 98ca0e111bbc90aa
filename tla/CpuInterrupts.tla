--------------------------- MODULE CpuInterrupts ---------------------------
(***************************************************************************)
(* The interrupt nesting controller of Device::Cpu (src/device/cpu/Cpu.cpp)*)
(* on one core.  Cpu::cliCount is a process-wide counter changed only by   *)
(* atomic fetch-and-increment/decrement; disableInterrupts() increments it *)
(* and then executes cli, enableInterrupts() decrements it and executes sti*)
(* when the value before the decrement was 1.  Each of the two calls is    *)
(* two steps, because the atomic instruction and cli/sti are separate      *)
(* instructions between which an interrupt can be taken.                   *)
(*                                                                         *)
(* Code runs in two kinds of context: threads, one of which is current,    *)
(* and interrupt handlers stacked on top of the current thread.  Taking an *)
(* interrupt clears the hardware flag IF, iret sets it again (an interrupt *)
(* is only accepted while IF is set).  The timer interrupt may switch the  *)
(* current thread (preemptive scheduling, spec section 5).  Every context  *)
(* runs balanced disable/enable pairs up to MaxDepth deep, as the kernel's *)
(* callers do.                                                             *)
(***************************************************************************)
EXTENDS Naturals, Integers, Sequences, FiniteSets

CONSTANTS
  Threads,      \* the kernel threads
  BootThread,   \* the thread that runs System::initializeSystem
  MaxDepth,     \* deepest nesting of disable() a context performs
  MaxNesting,   \* most interrupt handlers stacked at once
  Preemptive    \* whether the timer interrupt switches threads

ASSUME BootThread \in Threads
ASSUME MaxDepth \in Nat \ {0} /\ MaxNesting \in Nat /\ Preemptive \in BOOLEAN

VARIABLES
  cliCount,   \* Cpu::cliCount
  intFlag,    \* the IF bit of EFLAGS: TRUE iff hardware interrupts are armed
  current,    \* the thread the scheduler is running
  th,         \* per thread: its position in disable/enable and its depth
  frames,     \* the stack of interrupt handlers running on top of current
  halted      \* an ILLEGAL_STATE exception stopped the kernel

vars == <<cliCount, intFlag, current, th, frames, halted>>

(* A context is between calls ("idle"), after fetchAndInc and before cli   *)
(* ("cli"), or after fetchAndDec and before the test that may execute sti  *)
(* ("sti").  held counts the disable() calls it completed and has not yet  *)
(* begun to undo, pre is the value the atomic instruction returned.        *)
Ctx == [pc : {"idle", "cli", "sti"}, held : 0..MaxDepth, pre : Int]

IdleCtx == [pc |-> "idle", held |-> 0, pre |-> 0]

(* Cpu.cpp:25: cliCount starts at 1 because interrupts are disabled at     *)
(* kernel entry; the boot thread owns that count until System.cpp:90.      *)
Init ==
  /\ cliCount = 1
  /\ intFlag = FALSE
  /\ current = BootThread
  /\ th = [t \in Threads |-> IF t = BootThread
                              THEN [IdleCtx EXCEPT !.held = 1] ELSE IdleCtx]
  /\ frames = << >>
  /\ halted = FALSE

(* The context executing now: the innermost handler, else the thread.      *)
Running == IF frames = << >> THEN th[current] ELSE frames[Len(frames)]

(* Replace the executing context by c.                                     *)
SetRunning(c) ==
  IF frames = << >>
  THEN /\ th' = [th EXCEPT ![current] = c]
       /\ UNCHANGED frames
  ELSE /\ frames' = [frames EXCEPT ![Len(frames)] = c]
       /\ UNCHANGED th

(* System::panic (System.cpp:167-171) after throwException: the kernel    *)
(* shows the blue screen and halts; nothing runs afterwards.               *)
Panic ==
  /\ halted' = TRUE
  /\ UNCHANGED <<cliCount, intFlag, current, th, frames>>

(* disableInterrupts(), first step: count = fetchAndInc().                 *)
FetchAndInc ==
  /\ ~halted
  /\ Running.pc = "idle"
  /\ Running.held < MaxDepth
  /\ cliCount' = cliCount + 1
  /\ SetRunning([Running EXCEPT !.pc = "cli", !.pre = cliCount])
  /\ UNCHANGED <<intFlag, current, halted>>

(* Mutant of Cli: the illegal-state test off by one.                      *)
CliOffByOne ==
  /\ ~halted
  /\ Running.pc = "cli"
  /\ IF Running.pre < 1
     THEN Panic
     ELSE /\ intFlag' = FALSE
          /\ SetRunning([Running EXCEPT !.pc = "idle", !.held = @ + 1])
          /\ UNCHANGED <<cliCount, current, halted>>


(* disableInterrupts(), second step: a negative count is an illegal state, *)
(* otherwise cli.                                                          *)
Cli ==
  /\ ~halted
  /\ Running.pc = "cli"
  /\ IF Running.pre < 0
     THEN Panic
     ELSE /\ intFlag' = FALSE
          /\ SetRunning([Running EXCEPT !.pc = "idle", !.held = @ + 1])
          /\ UNCHANGED <<cliCount, current, halted>>

(* Mutant of FetchAndDec: a caller's enable() without a matching disable(). *)
FetchAndDecUnbalanced ==
  /\ ~halted
  /\ Running.pc = "idle"
  /\ cliCount' = cliCount - 1
  /\ SetRunning([Running EXCEPT !.pc = "sti", !.held = @ - 1, !.pre = cliCount])
  /\ UNCHANGED <<intFlag, current, halted>>

(* enableInterrupts(), first step: count = fetchAndDec().                  *)
FetchAndDec ==
  /\ ~halted
  /\ Running.pc = "idle"
  /\ Running.held > 0
  /\ cliCount' = cliCount - 1
  /\ SetRunning([Running EXCEPT !.pc = "sti", !.held = @ - 1, !.pre = cliCount])
  /\ UNCHANGED <<intFlag, current, halted>>

(* Mutant of Sti: re-arm whenever the count was positive.                 *)
StiWhenPositive ==
  /\ ~halted
  /\ Running.pc = "sti"
  /\ IF Running.pre < 1
     THEN Panic
     ELSE /\ intFlag' = (Running.pre >= 1 \/ intFlag)
          /\ SetRunning([Running EXCEPT !.pc = "idle"])
          /\ UNCHANGED <<cliCount, current, halted>>

(* enableInterrupts(), second step: sti when the count was 1, an illegal   *)
(* state when it was below 1, nothing otherwise.                           *)
Sti ==
  /\ ~halted
  /\ Running.pc = "sti"
  /\ IF Running.pre < 1
     THEN Panic
     ELSE /\ intFlag' = (Running.pre = 1 \/ intFlag)
          /\ SetRunning([Running EXCEPT !.pc = "idle"])
          /\ UNCHANGED <<cliCount, current, halted>>

(* The processor takes an interrupt: it clears IF and enters a handler.    *)
InterruptEntry ==
  /\ ~halted
  /\ intFlag
  /\ Len(frames) < MaxNesting
  /\ frames' = Append(frames, IdleCtx)
  /\ intFlag' = FALSE
  /\ UNCHANGED <<cliCount, current, th, halted>>

(* A handler whose critical sections are balanced returns with iret, which *)
(* restores the IF bit it was entered with (set, or it would not have run).*)
Iret ==
  /\ ~halted
  /\ frames /= << >>
  /\ Running.pc = "idle"
  /\ Running.held = 0
  /\ frames' = SubSeq(frames, 1, Len(frames) - 1)
  /\ intFlag' = TRUE
  /\ UNCHANGED <<cliCount, current, th, halted>>

(* The timer interrupt arrives at thread level and the scheduler switches  *)
(* to another thread, which returns from its own timer interrupt with IF   *)
(* set; the preempted thread keeps its place, including a pending cli.     *)
Preempt ==
  /\ ~halted
  /\ Preemptive
  /\ intFlag
  /\ frames = << >>
  /\ \E t \in Threads \ {current} :
       /\ current' = t
       /\ UNCHANGED <<cliCount, intFlag, th, frames, halted>>

Next ==
  \/ FetchAndInc
  \/ Cli
  \/ FetchAndDec
  \/ Sti
  \/ InterruptEntry
  \/ Iret
  \/ Preempt

Spec == Init /\ [][Next]_vars

-----------------------------------------------------------------------------

TypeOK ==
  /\ cliCount \in Int
  /\ intFlag \in BOOLEAN
  /\ current \in Threads
  /\ th \in [Threads -> Ctx]
  /\ frames \in Seq(Ctx)
  /\ Len(frames) <= MaxNesting
  /\ halted \in BOOLEAN

(* Contexts between fetchAndInc and cli: they are counted but have not     *)
(* masked interrupts yet.                                                  *)
Windows ==
  Cardinality({t \in Threads : th[t].pc = "cli"})
    + Cardinality({i \in DOMAIN frames : frames[i].pc = "cli"})

(* Balanced callers never drive the counter into the illegal-state checks  *)
(* of Cpu.cpp:34 and Cpu.cpp:44, whatever the interleaving.                *)
NeverIllegalState == ~halted

(* disable()/enable() nest: interrupts are armed only while every count in *)
(* cliCount belongs to a disable() that has not reached its cli yet, so no *)
(* inner enable() (of the same context, of a handler or of a thread that   *)
(* ran meanwhile) re-arms them while a completed section is open anywhere. *)
ArmedOnlyWhenBalanced == intFlag => cliCount = Windows

(* Spec section 8: after a thread's N disable() and N enable() calls, the  *)
(* last enable() re-arms interrupts; a thread running outside all its      *)
(* critical sections, once booted, runs with interrupts armed.             *)
UnmaskedOutsideSections ==
  (/\ frames = << >>
   /\ th[current].pc = "idle"
   /\ th[current].held = 0
   /\ th[BootThread].held = 0)
  => intFlag
=============================================================================
