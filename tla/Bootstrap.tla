----------------------------- MODULE Bootstrap -----------------------------
(***************************************************************************)
(* The bootstrap sequence of Kernel::System (src/kernel/system/System.cpp):*)
(* initializeSystem() run once by the boot thread, the service registry it *)
(* fills (registerService, isServiceRegistered, getService), the early     *)
(* memory API and the first enableInterrupts(), which is the interrupt     *)
(* nesting controller of CpuInterrupts instantiated for the boot thread.   *)
(*                                                                         *)
(* What the boot loader hands over is chosen in Init: the block map of the *)
(* multiboot structure, the memory map, and whether an RTC is present and  *)
(* holds a valid time.  Before paging is enabled the start-up code calls   *)
(* initializeGlobalDescriptorTables once (spec section 6) with physical    *)
(* pointers; the tables it builds are what DescriptorTables, instantiated  *)
(* as Gdt, computes, and no later step reads them.  Steps that only build  *)
(* objects the model does not track (paging area manager, frame allocator, *)
(* address space) are kept as steps so that the order of the sequence      *)
(* stays visible.                                                          *)
(***************************************************************************)
EXTENDS Naturals, Sequences, FiniteSets

CONSTANTS
  BootThread,     \* the execution context of initializeSystem()
  BlockMaps,      \* possible multiboot block maps: sequences of block types
  MemoryMaps,     \* possible multiboot memory maps
  AddrBits,       \* width of the cast in calculatePhysicalMemorySize
  NULL,           \* an empty slot of serviceMap
  KernelStart, BiosCodeMemory, TssSize, Addresses, TssAddresses
                  \* of DescriptorTables

VARIABLES
  phase,          \* the next step of initializeSystem()
  blockMap,       \* input: Multiboot::Structure::getBlockMap()
  memoryMap,      \* input: Multiboot::Structure::getMemoryMap()
  rtcAvailable,   \* input: Device::Rtc::isAvailable()
  rtcValid,       \* input: Device::Rtc::isValid()
  memorySize,     \* the result of calculatePhysicalMemorySize()
  serviceMap,     \* System::serviceMap, restricted to the kernel services
  initialized,    \* System::initialized
  error,          \* the exception that stopped the kernel, if any
  cliCount, intFlag, current, th, frames, halted   \* of CpuInterrupts

cpuVars == <<cliCount, intFlag, current, th, frames, halted>>
bootVars == <<phase, blockMap, memoryMap, rtcAvailable, rtcValid, memorySize,
              serviceMap, initialized, error>>
vars == <<bootVars, cpuVars>>

Cpu == INSTANCE CpuInterrupts
         WITH Threads <- {BootThread}, MaxDepth <- 1, MaxNesting <- 0,
              Preemptive <- FALSE

Mem == INSTANCE MemoryMap

Gdt == INSTANCE DescriptorTables

(* Service ids (SERVICE_ID of each class) and what a slot holds.          *)
MemoryServiceId == "MemoryService"
SchedulerServiceId == "SchedulerService"
TimeServiceId == "TimeService"
JobServiceId == "JobService"
StorageServiceId == "StorageService"
ServiceIds == {MemoryServiceId, SchedulerServiceId, TimeServiceId,
               JobServiceId, StorageServiceId}

(* A service instance; for time and job services, the clocks it is built on.*)
Plain == "plain"
OnPitAndRtc == "pit+rtc"
OnPitOnly == "pit"
Services == {Plain, OnPitAndRtc, OnPitOnly}

HeapReserved == "HEAP_RESERVED"

Phases == {"gdt", "start", "heap", "memsize", "paging", "init", "regMemory",
           "scheduler", "enable", "sti", "time", "job", "storage", "finish",
           "done"}

Init ==
  /\ phase = "gdt"
  /\ blockMap \in BlockMaps
  /\ memoryMap \in MemoryMaps
  /\ rtcAvailable \in BOOLEAN
  /\ rtcValid \in BOOLEAN
  /\ memorySize = NULL
  /\ serviceMap = [id \in ServiceIds |-> NULL]
  /\ initialized = FALSE
  /\ error = NULL
  /\ Cpu!Init

(* Util::Exception::throwException: System::panic halts the kernel.        *)
Fail(kind) ==
  /\ error' = kind
  /\ halted' = TRUE
  /\ UNCHANGED <<phase, blockMap, memoryMap, rtcAvailable, rtcValid,
                 memorySize, serviceMap, initialized>>
  /\ UNCHANGED <<cliCount, intFlag, current, th, frames>>

Step(from, to) ==
  /\ ~halted
  /\ phase = from
  /\ phase' = to

(* System::isServiceRegistered (System.cpp:163-165).                       *)
IsServiceRegistered(map, id) == map[id] /= NULL

(* System::registerService (System.cpp:153-161), from the boot thread      *)
(* alone, so the spinlock is always free: INVALID_ARGUMENT if the id is    *)
(* bound, else the service is stored.                                      *)
RegisterService(map, id, s) ==
  IF IsServiceRegistered(map, id) THEN NULL
  ELSE [map EXCEPT ![id] = s]

(* A boot step that registers the services of regs (a sequence of          *)
(* <<id, service>>) in order, failing on the first one already bound.     *)
RECURSIVE RegisterAll(_, _)
RegisterAll(map, regs) ==
  IF regs = << >> \/ map = NULL THEN map
  ELSE RegisterAll(RegisterService(map, Head(regs)[1], Head(regs)[2]),
                   Tail(regs))

RegisterStep(from, to, regs) ==
  /\ Step(from, to)
  /\ IF RegisterAll(serviceMap, regs) = NULL
     THEN Fail("ServiceAlreadyRegistered")
     ELSE /\ serviceMap' = RegisterAll(serviceMap, regs)
          /\ UNCHANGED <<blockMap, memoryMap, rtcAvailable, rtcValid,
                         memorySize, initialized, error>>
          /\ UNCHANGED cpuVars

PlainStep(from, to) ==
  /\ Step(from, to)
  /\ UNCHANGED <<blockMap, memoryMap, rtcAvailable, rtcValid, memorySize,
                 serviceMap, initialized, error>>
  /\ UNCHANGED cpuVars

(* The start-up code calls initializeGlobalDescriptorTables (System.cpp:   *)
(* 186-232, Gdt!InitializeGlobalDescriptorTables), then initializeSystem.  *)
BuildDescriptorTables == PlainStep("gdt", "start")

(* Multiboot::Structure::initialize (System.cpp:52).                       *)
InitializeMultiboot == PlainStep("start", "heap")

(* Mutant of InitializeKernelHeap: only the first block is examined.       *)
InitializeKernelHeapFirstBlockOnly ==
  IF blockMap[1] = HeapReserved
  THEN PlainStep("heap", "memsize")
  ELSE /\ ~halted /\ phase = "heap"
       /\ Fail("NoHeapBlock")

(* initializeKernelHeap (System.cpp:54, 281-295): the first block marked   *)
(* HEAP_RESERVED before the terminating entry becomes the kernel heap;     *)
(* ILLEGAL_STATE when there is none.                                       *)
InitializeKernelHeap ==
  IF \E i \in DOMAIN blockMap : blockMap[i] = HeapReserved
  THEN PlainStep("heap", "memsize")
  ELSE /\ ~halted /\ phase = "heap"
       /\ Fail("NoHeapBlock")

(* Mutant of CalculateMemorySize: the "No usable memory" exception is      *)
(* missing and the sentinel is used as the size.                           *)
CalculateMemorySizeNoThrow ==
  /\ Step("memsize", "paging")
  /\ memorySize' = Mem!CalculatePhysicalMemorySize(memoryMap)
  /\ UNCHANGED <<blockMap, memoryMap, rtcAvailable, rtcValid,
                 serviceMap, initialized, error>>
  /\ UNCHANGED cpuVars

(* physicalMemorySize = calculatePhysicalMemorySize() (System.cpp:56).     *)
CalculateMemorySize ==
  LET size == Mem!CalculatePhysicalMemorySize(memoryMap)
  IN IF size = Mem!NoUsableMemory
     THEN /\ ~halted /\ phase = "memsize"
          /\ Fail("NoUsableMemory")
     ELSE /\ Step("memsize", "paging")
          /\ memorySize' = size
          /\ UNCHANGED <<blockMap, memoryMap, rtcAvailable, rtcValid,
                         serviceMap, initialized, error>>
          /\ UNCHANGED cpuVars

(* Paging area manager, frame allocator over [0, size - 1], bootstrap      *)
(* address space, memory service as page-fault handler (System.cpp:59-71). *)
CreateMemoryManagement == PlainStep("paging", "init")

(* _init(): the static objects, serviceMap and serviceLock among them      *)
(* (System.cpp:74).                                                        *)
RunStaticInitializers == PlainStep("init", "regMemory")

(* System.cpp:77-79 *)
RegisterMemoryService ==
  RegisterStep("regMemory", "scheduler", << <<MemoryServiceId, Plain>> >>)

(* Scheduler, kernel process made ready, scheduler registered              *)
(* (System.cpp:82-86).                                                     *)
CreateScheduler ==
  RegisterStep("scheduler", "enable", << <<SchedulerServiceId, Plain>> >>)

(* Device::Cpu::enableInterrupts() (System.cpp:89-90), the two steps of    *)
(* Cpu.cpp:27-38 on the count 1 the kernel started with.                   *)
EnableInterruptsDec ==
  /\ phase = "enable"
  /\ phase' = "sti"
  /\ Cpu!FetchAndDec
  /\ UNCHANGED <<blockMap, memoryMap, rtcAvailable, rtcValid, memorySize,
                 serviceMap, initialized, error>>

EnableInterruptsSti ==
  /\ phase = "sti"
  /\ phase' = "time"
  /\ Cpu!Sti
  /\ UNCHANGED <<blockMap, memoryMap, rtcAvailable, rtcValid, memorySize,
                 serviceMap, initialized, error>>

(* Mutant of SetupTimeServices: the RTC branch is never taken.             *)
SetupTimeServicesPitOnly ==
  RegisterStep("time", "job",
               << <<TimeServiceId, OnPitOnly>>, <<JobServiceId, OnPitOnly>> >>)

(* PIT, and RTC if available; time and job services on the clocks there   *)
(* are (System.cpp:92-112).  An invalid RTC only produces a warning.       *)
SetupTimeServices ==
  LET clock == IF rtcAvailable THEN OnPitAndRtc ELSE OnPitOnly
  IN RegisterStep("time", "job",
                  << <<TimeServiceId, clock>>, <<JobServiceId, clock>> >>)

(* getService<JobService>().registerJob(refill of the paging area manager) *)
(* (System.cpp:115); getService on an empty slot is fatal.                 *)
RegisterRefillJob ==
  IF IsServiceRegistered(serviceMap, JobServiceId)
  THEN PlainStep("job", "storage")
  ELSE /\ ~halted /\ phase = "job"
       /\ Fail("ServiceNotRegistered")

(* Heap manager prototype and storage service (System.cpp:117-121).        *)
RegisterStorage ==
  RegisterStep("storage", "finish", << <<StorageServiceId, Plain>> >>)

(* System calls, multiboot parsing, write protection of the kernel code,   *)
(* and initialized = true (System.cpp:123-134).                            *)
FinishInitialization ==
  /\ Step("finish", "done")
  /\ initialized' = TRUE
  /\ UNCHANGED <<blockMap, memoryMap, rtcAvailable, rtcValid, memorySize,
                 serviceMap, error>>
  /\ UNCHANGED cpuVars

(* allocateEarlyMemory / freeEarlyMemory (System.cpp:137-151), called once *)
(* the heap exists: ILLEGAL_STATE after initialization; before it the     *)
(* kernel heap serves the call, which changes nothing the model tracks.    *)
EarlyMemoryCall ==
  /\ ~halted
  /\ phase \notin {"gdt", "start", "heap"}
  /\ initialized
  /\ Fail("EarlyMemoryAfterInit")

BootStep ==
  \/ BuildDescriptorTables
  \/ InitializeMultiboot
  \/ InitializeKernelHeap
  \/ CalculateMemorySize
  \/ CreateMemoryManagement
  \/ RunStaticInitializers
  \/ RegisterMemoryService
  \/ CreateScheduler
  \/ EnableInterruptsDec
  \/ EnableInterruptsSti
  \/ SetupTimeServices
  \/ RegisterRefillJob
  \/ RegisterStorage
  \/ FinishInitialization

Next == BootStep \/ EarlyMemoryCall

(* initializeSystem() is the only thing running: it keeps going.           *)
Spec == Init /\ [][Next]_vars /\ WF_vars(BootStep)

-----------------------------------------------------------------------------
Errors == {"NoHeapBlock", "NoUsableMemory", "ServiceNotRegistered",
           "ServiceAlreadyRegistered", "EarlyMemoryAfterInit", "CliCount"}

TypeOK ==
  /\ phase \in Phases
  /\ blockMap \in BlockMaps
  /\ memoryMap \in MemoryMaps
  /\ rtcAvailable \in BOOLEAN /\ rtcValid \in BOOLEAN
  /\ memorySize \in Nat \cup {NULL}
  /\ serviceMap \in [ServiceIds -> Services \cup {NULL}]
  /\ initialized \in BOOLEAN
  /\ error \in Errors \cup {NULL}
  /\ Cpu!TypeOK

(* Spec section 8, end to end: a boot that reaches the end has registered  *)
(* exactly the memory, scheduler, time, job and storage services, the time *)
(* and job services are built on the RTC exactly when one is present, and  *)
(* interrupts are enabled with the nesting count back at 0.                *)
BootOutcome ==
  phase = "done" =>
    /\ {id \in ServiceIds : IsServiceRegistered(serviceMap, id)} = ServiceIds
    /\ serviceMap[TimeServiceId] = IF rtcAvailable THEN OnPitAndRtc ELSE OnPitOnly
    /\ serviceMap[JobServiceId] = serviceMap[TimeServiceId]
    /\ intFlag /\ cliCount = 0
    /\ initialized

(* Spec section 4.5 step 3: the memory size the frame allocator is built   *)
(* on is the highest end of an available entry, and the boot fails for     *)
(* lack of memory only when no entry is available.                         *)
MemorySizeMatchesMap ==
  /\ memorySize /= NULL => memorySize = Mem!ReferenceMemorySize(memoryMap)
  /\ error = "NoUsableMemory" =>
       Mem!ReferenceMemorySize(memoryMap) = Mem!NoUsableMemory

(* A boot loader that reserved a heap block and reports available memory   *)
(* gets a kernel that completes initializeSystem(): no step fails and none *)
(* waits forever.                                                          *)
BootCompletes ==
  (/\ \E i \in DOMAIN blockMap : blockMap[i] = HeapReserved
   /\ Mem!ReferenceMemorySize(memoryMap) /= Mem!NoUsableMemory)
  => <>(phase = "done")
=============================================================================
