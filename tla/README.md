# TLA+ models of the hhuOS kernel core

This directory holds TLA+ models of the parts of hhuOS (`src/src`) whose
correctness depends on interleavings, ordering and boundary values. These are
the parts that unit tests hardly reach. Each module is translated from the
C++ source and cites the lines it models. `PROJECT.json` maps every
definition to its lines and lists the runs, mutants, findings and hazards.

## 1. Inventory of the system

| Part | Source | State | Operations |
|------|--------|-------|------------|
| Interrupt nesting controller | `device/cpu/Cpu.cpp` | `cliCount` (int32, starts at 1), the CPU's IF flag | `disableInterrupts` (fetchAndInc, check, `cli`), `enableInterrupts` (fetchAndDec, `sti` on 1, throw below 1), `halt`; the register helpers (`setSegmentRegister`, CR0/2/3, `loadTaskStateSegment`) |
| FPU lazy context switch | `device/cpu/Fpu.cpp` | `lastFpuThread` (raw pointer to the owner of the registers), CR0.TS, `fxsrAvailable`, each thread's saved context | constructor (`fninit`, save the default context), `plugin`, `trigger` (trap handler), `switchContext`/`switchContextFpuOnly`, `checkTerminatedThread` (CAS to null), `armFpuMonitor`, the probes `isAvailable`/`probeFpu`/`isFxsrAvailable` |
| Service registry | `kernel/system/System.cpp:153-165` | `serviceMap[256]`, `serviceLock` (spinlock) | `registerService`, `isServiceRegistered`, `getService` |
| Bootstrap sequencer | `System.cpp:51-151, 261-295` | `initialized`, `kernelHeapMemoryManager`, the boot-loader's block map and memory map | `initializeSystem` (15 steps), `initializeKernelHeap`, `calculatePhysicalMemorySize`, `allocateEarlyMemory`/`freeEarlyMemory`, `panic` |
| Descriptor tables | `System.cpp:186-252` | system GDT, BIOS GDT, three descriptor-register payloads | `initializeGlobalDescriptorTables`, `createGlobalDescriptorTableEntry` |
| File system | `os/filesystem/FileSystem.cpp` | mount table `mountPoints`, spinlock `fsLock` | `init`, `mount`/`unmount` (two lock sections each), `createFile`/`createDirectory`, `deleteFile`, `getNode`, `getMountedDriver`, `parsePath`, `createFilesystem`, `addVirtualNode`, `onEvent` (storage add/remove) |
| Paint history | `application/pic/History.cpp` | `commands`, the uint32 cursor `currentCommand`, `lines` of a line drawing, `snapshots` of the layers | `addCommand`, `undo`, `redo`, `saveToFile`, `loadFromFileInto`, `reset` |
| IPv4 routing | `network/ip4/Ip4RoutingModule.cpp` | route list, default route | `addRoute`, `removeRoute`, `findRouteTo` |
| Paint settings | `application/pic/Settings.cpp`, `application/kill/kill.cpp` | nine booleans, `/pic/settings`, the `pic` directory | constructor, `resetToDefault`, `loadFromFile`, `saveToFile`; the process killed by `kill` |
| VESA BIOS extensions | `device/graphic/lfb/vesa/VesaBiosExtensions.cpp` | `supportedModes`, the lower-memory buffers of the BIOS calls, the card's mode, the `/device` frame buffer nodes | constructor (mode list to the end marker, `getModeInfo` per mode, the linear-mode filter), `isAvailable`, `initializeLinearFrameBuffer`, `setMode`, `getVbeInfo`, `getModeInfo` |
| CGA text terminal | `device/graphic/terminal/cga/ColorGraphicsArray.cpp` | CGA memory (character and attribute byte per cell), `currentRow`, `currentColumn`, the cursor registers | constructor, `putChar`, `clear`, `setPosition`, `updateCursorPosition`, `scrollUp` |
| Game graphics | `lib/util/game/Graphics.cpp` | the frame buffer's bytes, `backgroundBuffer`, `color`; the scene's camera | constructor (scale and centre), `setColor`, drawing functions, `fillRectangle2D`, `drawImage2D`, `clear`, `saveCurrentStateAsBackground`, `show` |
| Network glue, UI declarations, applications | the rest | none of their own | service registration, packet loop, printing, declarations |

### How the parts interact and what is hard

- `Cpu::cliCount` is shared by every context on the single core: each
  thread, and every interrupt handler stacked on the running thread. Each
  call is two instructions, the atomic update and then `cli`/`sti`. An
  interrupt, and through the timer a thread switch, can come between the two.
- The FPU trap handler `trigger` runs under the scheduler lock. Thread
  teardown calls `checkTerminatedThread`, and the spec says it may do so
  concurrently with the trap. Thread slots are reused, so a stale
  `lastFpuThread` can point at a new thread.
- `initializeSystem` is one thread, but it depends on boot-loader data it
  does not control: the order of the memory map, entries above 4 GiB, and
  whether a heap block and an RTC exist. It also hands the initial interrupt
  count to the controller and fills the registry, which later steps read
  with `getService`.
- `registerService` can be called by several threads. It throws while
  holding the spinlock.
- The file system is used by every application thread and by the event-bus
  thread that delivers storage events to `onEvent`. Each call takes `fsLock`
  for one section, except `mount`, `unmount` and `createFilesystem`: they
  look the path up with `getNode` (its own section) and act on the table in
  a second section, so other calls run between the check and the act.
- The VESA provider hands every BIOS query a buffer in the memory below
  1 MiB (`allocateLowerMemory`) and must free it on every path. Its mode
  list is a BIOS array read up to an end marker, and five conditions decide
  which modes it offers.
- The paint history is single-threaded, but its correctness rests on a
  long sequence of legal calls: `addCommand` truncates the redo tail with a
  uint32 test, `undo` indexes the snapshot list by `currentCommand /
  SNAPSHOT_INTERVAL - 1`, and `loadFromFileInto` calls `reset`, which keeps
  the snapshots of the previous history.
- The paint settings are saved by truncating `/pic/settings` and writing
  one line per option. The process can be killed (the `kill` application)
  between any two of these steps, and the next start reads what reached
  the file. The file may also have been edited by hand.
- The CGA terminal's callers (the `Terminal` base class) are not under
  `src/`; any sequence of its calls is possible. What the screen shows is
  a function of CGA memory, which starts with the BIOS's text.
- `Graphics::show` refills the frame buffer at every frame from the saved
  background, scrolled by the camera: a double converted to a byte offset,
  aligned to the pixel size, then two copies per row.

### What makes each part correct

- Interrupt controller: the count never goes negative for balanced callers.
  Interrupts are armed only when no completed section is open anywhere.
  After balanced pairs, a thread outside its sections runs unmasked (spec
  §8). Handlers run masked (spec §5); see the observations in section 3.
- FPU: a thread that does not own the registers keeps its saved context
  intact. The running thread with the monitor off sees its own registers.
  `trigger` never saves into a null or freed thread.
- Registry: a completed registration stays. Every call returns or halts on a
  duplicate.
- Descriptor tables: every descriptor reads back, field by field, as the
  segment spec §4.4 names, and each payload's limit makes exactly its
  table's entries loadable.
- File system: a mount that returned SUCCESS stays until it is unmounted;
  every call returns; a mount point is a directory of the file system it
  is mounted in; `parsePath` resolves `.` and `..`.
- VESA provider: no lower-memory buffer outlives its query; the offered
  modes are exactly the usable linear modes before the end marker, in the
  BIOS's order; every frame buffer node is a linear mode.
- Paint history: the layers are the replay of the first `currentCommand`
  commands; undo never asks for a snapshot that is not there.
- Paint settings: loading the file gives what the last completed save
  wrote; a restart after a kill gives every option a value somebody chose
  (saved, being saved, or the default).
- CGA terminal: the cursor stays on the screen; what the screen shows
  behaves as the abstract terminal `TextScreen` (clear blanks everything,
  characters appear at the cursor, the screen scrolls up).
- Game graphics: after `show` the buffer is the background rotated by
  whole pixels, by the amount the camera asks for.
- Bootstrap: the boot ends initialized, with every service registered on
  either RTC branch and interrupts armed with count 0, or it halts with the
  right error. The memory size is the highest available end. The boot
  completes whenever its inputs allow it.

## 2. Plan

Modules are listed in the order they are built. Each component module takes
CONSTANTS and is instantiated by an `MC*` module and `.cfg` files.

1. `CpuInterrupts` (done): the nesting controller with preemptible threads
   and nested handlers.
2. `FpuContext` (done): the lazy FPU switch, with thread creation, switch
   and teardown (slot reuse).
3. `MemoryMap` (done): a constant module holding
   `calculatePhysicalMemorySize` as a RECURSIVE scan. It is checked against
   a reference (`ReferenceMemorySize`, the CHOOSE-defined maximum available
   end).
4. `ServiceRegistry` (done): `registerService` with concurrent registrants.
5. `Bootstrap` (done) composes the parts:
   - `INSTANCE CpuInterrupts WITH Threads <- {BootThread}, MaxDepth <- 1,
     MaxNesting <- 0, Preemptive <- FALSE`, since no other thread exists
     during boot;
   - `INSTANCE MemoryMap`;
   - the registry as the same functions `IsServiceRegistered` and
     `RegisterService`.
6. `DescriptorEncoding` and `DescriptorTables` (done):
   `createGlobalDescriptorTableEntry` packs each descriptor with Bitwise over
   16-bit halves (TLC's integers are 32-bit signed). `DescriptorTables`
   is the builder as a pure operator of the placement of the tables and the
   TSS; its results are read back as the processor decodes them.
7. `FileSystem` (done): the mount table under `fsLock`. `fsLock.acquire()`
   is a step of its own; the work of the section and its release on the
   path the code takes out of it is the holder's next step. `mount`,
   `unmount` and `createFilesystem` have two sections each. The
   storage events come from the event-bus thread. `parsePath` is a FoldLeft
   operator, checked against a right-to-left RECURSIVE reference.
8. `PaintHistory` (done): `addCommand`, `undo`, `redo`, `saveToFile` and
   `loadFromFileInto`, with `currentCommand - 1` in `Width`-bit arithmetic.
9. `VesaBiosExtensions` (done): the provider's calls on a machine chosen
   in Init among BIOS answers (no BIOS, VESA or other signature, mode lists
   with modes after the end marker, mode information failing each filter
   condition, refused queries). The mode count is a RECURSIVE loop to the
   end marker, checked against `SelectInSeq`.
10. Two components share a run when they share no state:
   `MCKernelCore` instantiates `CpuInterrupts` and `ServiceRegistry` side by
   side (either halt stops both), and next to them `MCBootstrap`, the boot
   over every machine of `BootMachines`: a variable `focus` chosen in Init
   says whether the boot runs or the booted kernel does. The
   descriptor-table builder is a pure operator; `BootMachines`, a constant
   module, evaluates it over every placement of the tables, so TLC
   computes those checks once, and the boot's invariants read them once
   the boot has built the tables.
11. `CgaTerminal` (done) and the abstract `TextScreen`: CGA memory is a
   function from byte offsets to bytes; `INSTANCE TextScreen WITH screen
   <- VisibleScreen` maps each cell's two bytes to the glyph it displays
   (nothing when foreground and background colour are equal), and
   `ImplementsTextScreen` is `TextScreen`'s specification as a property.
12. `PaintSettings` (done): load, save and kill/restart, with the lines of
   the file as sequences of words and a name without value as undefined
   behaviour (either value, or the process dies).
13. `GameGraphics` (done): the frame buffer as bytes, `show` as its two
   copies per row, `fillRectangle2D` and `drawImage2D` through the
   camera transformation of `GameDrawing`. `GameDrawing` is a constant
   module (the pixel layout, the constructor's scale and centre, the
   transformation with C++'s truncation toward zero, `drawImage2D`'s
   culling and flip), so the image check over every camera and position
   is computed once.
14. `MCComponents` composes the six components that share no state
   (`FpuContext`, `VesaBiosExtensions`, `CgaTerminal`, `PaintHistory`,
   `PaintSettings`, `GameGraphics`) in one run: a variable `focus`, chosen
   in Init, names the one that moves; the others stay in their initial
   state. The state space is the sum of the six, not their product, and
   every property of a component is checked over all its behaviours.
15. Planned for later sittings:
   - An abstract spec `InterruptMask`, the mask as a function of open
     sections, refined by `CpuInterrupts` with the section map as the
     refinement mapping (for the runs without preemption in a window).
   - An abstract registry (a partial function that only grows), refined by
     `ServiceRegistry`, and an abstract mount table refined by `FileSystem`.
   - The device-backed branch of `mount` (lines 265-284). Each of the
     twelve runs asks a distinct question, so a new one must replace or
     merge with an existing one.
   - `drawLine3D` and `drawModel`: the projection divides by depth on
     doubles, which would need a rational model of its own.

## 3. Runs

| Run | cfg | Expect | What it shows |
|-----|-----|--------|---------------|
| kernel_core | `MCKernelCore.cfg` | pass | Two behaviours, chosen in Init. The boot: every block map (with or without a heap block), every memory map of 1-3 entries below 4 GiB with an available entry first (or none available), RTC absent, valid or invalid: `BootOutcome`, `MemorySizeMatchesMap`, and the liveness `BootCompletes` hold. Once the boot has built the descriptor tables, for every placement of the two tables and the TSS: every packed entry reads back its base, limit, access and flags (`EntryLayoutRoundTrip`, over 5 values per 16-bit half); the six system and four BIOS descriptors are the segments of spec §4.4 (`SegmentsAsSpecified`); the payload bases and limits cover exactly the tables (`DescriptorsCoverTables`). The booted kernel: the interrupt controller (2 threads, preemption, pairs up to 2 deep, 2 nested handlers) interleaved with 5 `registerService` calls, 2 of them on one id. Balanced callers never reach the ILLEGAL_STATE checks (`NeverIllegalState`). IF is set only when `cliCount` equals the number of contexts between fetchAndInc and cli (`ArmedOnlyWhenBalanced`). A returned registration stays (`RegistrationsKept`). Each call returns, or the duplicate halts the kernel (the liveness `RegistrationsReturn`). 64,496 states, about 15 s. |
| cpu_preempt_window | `MCCpuPreemptWindow.cfg` | violation | `UnmaskedOutsideSections` (spec §8) fails. Thread t1 does fetchAndInc and is preempted before `cli`. Thread t2's balanced pair then sees pre-value 2 and never executes `sti`, so t2 runs masked. |
| components | `MCComponents.cfg` | pass | Six components, one moving per behaviour (3.2M states, about 2.5 minutes). FPU, with 3 thread slots (creation, teardown, reuse), 3 register values and the trap handler atomic with respect to teardown: `ContextsPreserved`, `OwnRegistersVisible`, `NoDanglingOwnerAccess`. VESA, on machines with no BIOS or one that answers GET_VBE_INFO, any three calls: `LowerMemoryReleased`. CGA, 3 x 2 cells: `CursorInScreen`. Paint history, up to four commands: `SnapshotsInRange`. Paint settings, six initial files: `SavedFileRoundTrips`. Game graphics, 2 x 2 pixels of 24 bits, camera -1 .. 2, lines, outlines, polygons, filled rectangles and images: the action property `ShowRotatesWholePixels`, and `ImageShownWhereVisible`: for every camera, every position from far left to far right and above to below, every image and either flip, `drawImage2D` on a black buffer shows each pixel of the image that falls on the screen at the pixel the camera transformation puts it, and nothing else. |
| fpu_teardown_race | `MCFpuTeardownRace.cfg` | violation | Teardown between `switchContext`'s null test (Fpu.cpp:136) and its `fxsave` (140) makes `trigger` save into null or a freed thread. |
| boot_above_4g | `MCBootAbove4G.cfg` | violation | `<<LowAvailable, Above4G>>`: the uint32 cast wraps the size. |
| fs_locking | `MCFileSystem.cfg` | pass | Two threads mount, unmount, create and delete `/home`, unmount `/dev` and format the storage device while the device is added and removed: `SuccessfulMountsKept`; `LockHeldOnlyInSection`: `fsLock` is held only by a thread inside one of the sections, so no return path out of a section (FileSystem.cpp:224, 300, 307, 335, 345, 349, 362, 381, 399, 417, 425) keeps it; and `ParsePathNormalises` (every path of up to four tokens over a name, `.` and `..`). |
| fs_storage_remove | `MCFsStorageRemove.cfg` | violation | `RemovedDevicesUnlisted` fails in 7 states. The event bus delivers the storage device's add event, then its remove event; `onEvent` (FileSystem.cpp:442) tests `StorageAddEvent::TYPE` in both branches, so the remove is ignored and `/dev/storage/<name>` stays. |
| fs_mount_toctou | `MCFsMountRace.cfg` | violation | `MountPointsExist` fails. Thread t1's `getNode` finds `/home`; t2 deletes it; t1's second section mounts on the deleted directory and returns SUCCESS. |
| history_undo_all | `MCHistoryUndoAll.cfg` | violation | `CanvasMatchesHistory` fails. Draw c1, undo, draw c1: `currentCommand - 1` wraps at 0, the undone command is kept, the history reads `<<c1, c1>>` with cursor 2 while the canvas shows one c1. |
| vbe_lower_memory_leak | `MCVbeLowerMemoryLeak.cfg` | violation | `LowerMemoryReleased` fails. On a BIOS that refuses GET_VBE_INFO, one `isAvailable()` returns false on line 74 and leaves its buffer allocated. |
| cga_clear | `MCCgaClear.cfg` | violation | `ImplementsTextScreen` fails at the first step. The constructor's `clear()` writes `0x000f` Rows x Columns times at offset 0 (ColorGraphicsArray.cpp:49), so the BIOS's text stays on every cell but the first, where the abstract terminal is blank. With a clear that advances through the cells the refinement holds (checked while building the model). |
| graphics_negative_camera | `MCGraphicsNegativeCamera.cfg` | violation | `ShowFollowsCamera` fails. With three 32-bit pixels per row (pitch 12) and the camera at -1, `show()` computes `static_cast<uint32_t>(-3) % 12`: with the wrap by 2^32 that is 1, aligned to 0, so the background is not moved where two pixels are due. |

The findings behind the violation runs are in `PROJECT.json`. Each pass
property has a mutant: a plausible bug in a mapped definition (off-by-one
test, save into the wrong thread, skipped compare-and-set, unguarded scan,
missing wait on the lock...) that TLC shows breaks it.

### Bounds

- `MaxDepth = 2` and `MaxNesting = 2`: a nested pair and a handler
  interrupting a handler, the smallest values where an inner `enable()`
  meets an outer section.
- Two threads are enough for one to be preempted in a window while the other
  runs.
- FPU: three slots let a thread be torn down and its slot reused while a
  third owns the registers. Three values (default plus two) tell apart
  whose registers are loaded.
- Memory: addresses are in 256 MiB units with `AddrBits = 4`, so 16 units
  make 4 GiB and the cast is `% 2^AddrBits`. Entries are placed below, at
  and above that boundary.
- Registry: four ids, with one requested twice.
- VESA: two mode numbers, mode lists `<<End>>`, `<<m1, End>>`, `<<m2, m1,
  End>>` and `<<m1, End, m2>>` (empty, one, two modes, a mode past the
  marker), seven mode informations (one usable and one failing each filter
  condition at its boundary, e.g. 14 bits per pixel), and three calls: enough
  for the constructor, an `initializeLinearFrameBuffer` and a later
  `setMode` or `isAvailable`.
- Descriptor tables: table addresses below and above `KERNEL_START`'s
  wrap, and halves 0, 0xFF, 0x1234, 0xAB00, 0xFFFF for
  the field round trip, which reach every mask and shift boundary.
- File system: two threads (enough for one to act between the other's two
  sections), one name under the root, the `/dev/storage` device, a FAT root
  that already holds `/home` or none, events add then remove. The requests
  reach every return code of the modelled calls.
- Paint history: `SNAPSHOT_INTERVAL = 2`, up to four commands, line drawings
  of up to two segments, up to three snapshots, `Width = 8`. Four commands
  give two snapshots and an undo that restores one; the snapshot bound is
  needed because the list grows without bound in the code (see the hazards).
  The violation run uses three commands and two snapshots.
- CGA: 3 columns, 2 rows, one printable character, colours 0 and 7. Three
  columns make a wrap, two rows a scroll; equal colours (an invisible
  glyph) and different ones both occur. The BIOS screen holds the
  character in colour 7 on every cell.
- Paint settings: three options, one on and two off by default, because
  the code treats every option alike. The initial files reach every branch
  of `loadFromFile`: missing, directory, empty, blank line, unknown name,
  a value other than `true`, a repeated name, a name without value. The
  working directory is `/` or another, and `/pic` may be missing.
- Game graphics: 2 x 2 pixels of 24 bits with pitch 6, two colours, the
  camera at -1 .. 2 and y 0 or 1. Three-byte pixels make the alignment of
  the offset matter; pitch 6 does not divide 2^32, so camera -1 reaches
  the wrapped conversion, where the rotation is still by whole pixels.
  The violation run uses pitch 12, which is divisible by 4, so the expected
  offset has no rounding question. Images are 2 x 1, 1 x 2 and 1 x 1
  (the first two tell a flip and the row order apart); positions range
  over twice the screen's extent on each side, so images entirely off
  screen, partly on screen at each edge, and fully on screen all occur.
- Boot and kernel share `MCKernelCore`; the kernel half starts from the
  machine with one available entry, the boot half from every machine.

### Fairness

- `Bootstrap` has weak fairness on the boot thread's step. After
  `enableInterrupts` nothing preempts it in the model, and the real
  scheduler runs it.
- `ServiceRegistry` has weak fairness per registrant. The spinlock holder is
  never descheduled forever, and a spinning registrant keeps its step
  enabled.
- `MCKernelCore` keeps the registry's fairness and the boot thread's,
  each only in the behaviour where that part moves (the fairness
  conjunct includes the `focus` test), and assumes none of the interrupt
  controller's contexts. Its liveness properties are stated as
  `focus = "kernel" => ...` and `focus = "boot" => ...`.
- `FileSystem`, `CpuInterrupts`, `FpuContext`, `PaintHistory`, `VesaBiosExtensions`,
  `CgaTerminal`, `PaintSettings` and `GameGraphics` check safety only, with
  no fairness: their callers (threads, the user interface, the game loop)
  are not obliged to call anything. `DescriptorTables` has no state.

### Deadlock checking

`CHECK_DEADLOCK FALSE` is set only where the system really stops: after
`initializeSystem` returns or the kernel halts, and after every registrant
has returned or the kernel halted on a duplicate (`MCKernelCore`), and
after the VESA provider's calls are used up or an exception halted the
kernel, and when the paint history reaches its bounds (`MCComponents`).
`fs_locking` checks deadlock: threads can always start a call, so a
deadlock there would be every thread spinning on a lock nobody releases
(or the kernel halted by the null driver of `addVirtualNode`, which the
run's requests do not reach).

### Abstractions

- The work of a `fsLock` section is one step of its holder, taken after
  the acquire step, because the lock excludes every other section. The drivers (RamFs, Tar, FAT) are not under `src/`. Each
  one is its set of nodes: a node is created in an existing directory and
  deleted when it has no children. `createFs` succeeds or fails.
- Paths are sequences of names. The mount key's trailing separator makes
  string prefix tests into sequence prefix tests, except in `deleteFile`,
  whose string prefix test is modelled with the constant `NamePrefix`.
- Paint layers are the sequence of drawing effects since their last reset.
  A line drawing ends with `prepareNextDrawing` before the user does
  anything else, which is how the application's UI calls it.

### Observations recorded as hazards, not runs

The run budget keeps these defects out of the runs (the `onEvent`
defect has its run, `fs_storage_remove`). The model shows each
one, and `PROJECT.json` lists each as a hazard:

- `deleteFile` (416) compares a key that has a trailing separator with a
  path that has none, so `/de` is refused because `/dev/` is mounted.
- `addVirtualNode` (223) dereferences a null driver when nothing is mounted
  at `/dev/storage`. The model sets `halted`.
- `calculatePhysicalMemorySize` (System.cpp:263) starts from entry 0
  whatever its type (covered by `MemorySizeMatchesMap`, but the boot
  machines put available memory first).
- `Graphics::show` rotates whole rows of `pitch` bytes. With a padded pitch
  (2 pixels of 24 bits in 8 bytes) `ShowRotatesWholePixels` fails: the
  padding scrolls into view and pixels are split. VBE's bytes per scan
  line may be padded; the components run uses unpadded pitches.
- `ColorGraphicsArray::setPosition` does not update the cursor registers;
  the cursor shows the old position until the next `putChar`.
- `Settings::saveToFile` creates `pic` relative to the working directory
  but opens the absolute `/pic/settings`; started elsewhere than `/`, it
  creates the wrong directory and every save fails. A name without a value
  in the file indexes past the end of `split`'s result.
- `fopen(path, "w")` (Settings.cpp:115) truncates the file before the
  options are written; a kill in between leaves the later options to
  their defaults at the next start. `SavedFileRoundTrips` covers
  completed saves only.
- `drawPolygon2D` (Graphics.cpp:79) loops to `length() - 1` in `uint32_t`,
  which wraps for an empty array.

## 4. Not modelled

- The CR and segment register helpers of `Cpu.cpp`, and the FPU probes:
  each is a single privileged instruction or a CPUID read, with no program
  state.
- What runs under the scheduler lock, and the PIT/RTC handlers. Their code
  is not under `src/`, so the FPU-trap-under-scheduler-lock deadlock and
  the PIT-before-TimeService window are listed as hazards without a
  property.
- The string functions of `Graphics` (`drawString`, `drawString2D`) and
  the 3D projection: what they draw is decided by `StringDrawer`, which
  is not under `src/`,
  and the projection divides doubles. `drawLine2D`, the polygon and the
  rectangle outlines are modelled through the camera transformation; of
  `LineDrawer` the model fixes what any line drawer draws: every pixel of
  a line along a row or a column, the two ends of a slanted one. The
  text functions and the 3D ones are not modelled. Positions are halves,
  where the code takes any double.
- `LinearFrameBuffer.h`, `NetworkDevice.h`, `UdpHeader.h`, `MemoryNode.h`,
  `Management.h`, `GraphicsResolutionsNode.h`, `Button.h`, `Renderer.h`,
  `helper.h`: class declarations whose code is not under `src/`.
- `LinearFrameBufferNode` uses the static VBE interface, which is not under
  `src/`. `NetworkService` only registers the ARP and IPv4 modules;
  `PacketReader` loops on `readPacket` of a module not under `src/`.
- `DataWrapper`'s constructor creates the history, layers and settings and
  sets UI fields. `ip` and `view3d` read files and print or run a game
  loop. `interface.cpp` forwards system calls; `Prototype.cpp` is empty
  registration.
- The CGA cursor shape registers and destructor: writes to ports and a
  `delete`, no state the terminal reads.
- The VESA provider's vendor and device names and memory size: data that no
  property tells apart. The names are real-mode pointers plus
  `KERNEL_START`, so their `nullptr` fallback (VesaBiosExtensions.cpp:18-22)
  can never be taken. Who calls `setMode` after
  a frame buffer node exists is decided outside `src/`, so the stale node
  this would leave is a hazard without a property.
- `Ip4RoutingModule::findRouteTo`: it ranks routes with
  `Ip4Address::compareTo` and `Ip4NetworkMask::extractSubnet`, which are not
  under `src/`. Without them its result cannot be stated. Reading the loop
  shows that `longestPrefix` is never updated, so the last route with a
  positive match wins, not the longest.
- Six of the nine settings options: written and read by the same code as
  the three modelled ones.
- `History`'s destructor and `printCommands`, and `FileSystem`'s constructor
  and destructor: they only free memory, print, or fetch services.
