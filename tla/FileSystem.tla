----------------------------- MODULE FileSystem -----------------------------
(***************************************************************************)
(* The virtual file system of hhuOS (src/os/filesystem/FileSystem.cpp):    *)
(* the mount table mountPoints (mount path -> driver) and the spinlock     *)
(* fsLock, used by application threads and by the event-bus thread that   *)
(* delivers storage events to FileSystem::onEvent.                         *)
(*                                                                         *)
(* A path is the sequence of its names after parsePath; the mount key of   *)
(* a path is the same sequence (the string with a trailing separator).     *)
(* String prefix tests between such strings are sequence prefixes, except  *)
(* deleteFile's, which compares a key with a path that lacks the trailing  *)
(* separator: there the last name may be a string prefix of the key's      *)
(* name, given by the constant NamePrefix.                                 *)
(*                                                                         *)
(* fsLock.acquire() is a step of its own, taken when the lock is free;    *)
(* the work of the section up to its fsLock.release() is the next step of  *)
(* the holder: the lock excludes every other section, so no other thread's *)
(* section can fall inside it.  A call made of two sections (mount,       *)
(* unmount and createFilesystem: getNode, then the update) releases the    *)
(* lock between them, and other calls can run there.  The drivers (RamFsDriver, TarArchiveDriver, FatDriver)   *)
(* are not under src/; a driver is its set of nodes, created in an         *)
(* existing directory and deleted when it has no children.                 *)
(***************************************************************************)
EXTENDS Naturals, Sequences, SequencesExt, TLC

CONSTANTS
  Threads,     \* application threads using the FileSystem API
  Requests,    \* the calls they make: [op |-> ..., path |-> <<names>>]
  Events,      \* the storage events the event bus delivers, in order
  Dev, Storage, Initrd,   \* the names init() creates
  Device,      \* the name of the storage device the events are about
  NamePrefix,  \* pairs <<a, b>>: the name a is a proper string prefix of b
  RootDisk,    \* the nodes of the FAT root partition, if there is one
  Paths,       \* unparsed paths, sequences of names, "." and "..", that
               \* parsePath is checked on
  NULL

Bus == "eventBus"

VARIABLES
  mountPoints,  \* mount key -> [type, owner, nodes] of the mounted driver
  fsLock,       \* holder of fsLock, or NULL
  initialized,  \* FileSystem::init() has run
  pc,           \* per thread and for the bus: where its current call is
  target,       \* the path of a thread's mount/unmount between sections
  ret,          \* per thread: [op, path, code] of its last call
  mine,         \* per thread: the key its last successful mount created
  evIdx,        \* number of events the bus has taken
  present,      \* the storage service has the device
  halted        \* a null driver was dereferenced

vars == <<mountPoints, fsLock, initialized, pc, target, ret, mine, evIdx,
          present, halted>>
-----------------------------------------------------------------------------
(* The driver of a node set; node paths are relative to the mount point.   *)
Driver(type, owner, nodes) == [type |-> type, owner |-> owner, nodes |-> nodes]

Exists(d, rel) == rel = << >> \/ \E n \in d.nodes : n.path = rel
IsDir(d, rel) == rel = << >> \/ [path |-> rel, dir |-> TRUE] \in d.nodes
CanCreate(d, rel) ==
  /\ d.type /= "Tar"
  /\ rel /= << >> /\ ~Exists(d, rel) /\ IsDir(d, Front(rel))
CanDelete(d, rel) ==
  /\ d.type /= "Tar"
  /\ rel /= << >> /\ Exists(d, rel)
  /\ ~\E n \in d.nodes : IsStrictPrefix(rel, n.path)
WithoutNode(d, rel) == [d EXCEPT !.nodes = {n \in @ : n.path /= rel}]

(* Mutant of ParsePath: "." is kept as a name.                             *)
ParsePathKeepsDot(tokens) ==
  FoldLeft(LAMBDA acc, s : IF s = ".." THEN IF acc = << >> THEN acc ELSE Front(acc)
                           ELSE Append(acc, s),
           << >>, tokens)

(* parsePath (FileSystem.cpp:55-78): the path's tokens left to right; "."  *)
(* is skipped, ".." removes the last name kept so far (none at the root),  *)
(* any other token is kept.                                                *)
ParsePath(tokens) ==
  FoldLeft(LAMBDA acc, s : CASE s = "." -> acc
                             [] s = ".." -> IF acc = << >> THEN acc ELSE Front(acc)
                             [] OTHER -> Append(acc, s),
           << >>, tokens)

(* getMountedDriver (FileSystem.cpp:80-101): the longest mount key that    *)
(* is a prefix of path + "/", and the rest of the path, or NULL.           *)
GetMountedDriver(mp, p) ==
  LET keys == {k \in DOMAIN mp : IsPrefix(k, p)}
  IN IF keys = {} THEN NULL
     ELSE LET k == CHOOSE k \in keys : \A j \in keys : Len(j) <= Len(k)
          IN [key |-> k, rel |-> SubSeq(p, Len(k) + 1, Len(p))]

(* getNode (FileSystem.cpp:354-371): a node object, or nullptr.            *)
GetNode(mp, p) ==
  LET r == GetMountedDriver(mp, p)
  IN r /= NULL /\ Exists(mp[r.key], r.rel)

(* key.beginsWith(parsedPath) in deleteFile: the key string has a          *)
(* trailing separator, the path string has none.                           *)
KeyBeginsWith(k, p) ==
  \/ p = << >>
  \/ /\ Len(p) <= Len(k)
     /\ SubSeq(k, 1, Len(p) - 1) = Front(p)
     /\ k[Len(p)] = Last(p) \/ <<Last(p), k[Len(p)]>> \in NamePrefix

(* createFile / createDirectory (FileSystem.cpp:373-408) on a table.       *)
CreateNode(mp, p, dir) ==
  LET r == GetMountedDriver(mp, p)
      failed == IF dir THEN "CREATING_DIRECTORY_FAILED" ELSE "CREATING_FILE_FAILED"
  IN CASE r = NULL -> [mp |-> mp, code |-> "FILE_NOT_FOUND"]
       [] CanCreate(mp[r.key], r.rel) ->
            [mp |-> [mp EXCEPT ![r.key].nodes = @ \cup {[path |-> r.rel, dir |-> dir]}],
             code |-> "SUCCESS"]
       [] OTHER -> [mp |-> mp, code |-> failed]

(* deleteFile (FileSystem.cpp:410-434) on a table.                         *)
DeleteNode(mp, p) ==
  LET r == GetMountedDriver(mp, p)
  IN CASE \E k \in DOMAIN mp : KeyBeginsWith(k, p) ->
            [mp |-> mp, code |-> "SUBDIRECTORY_CONTAINS_MOUNT_POINT"]
       [] r = NULL -> [mp |-> mp, code |-> "FILE_NOT_FOUND"]
       [] CanDelete(mp[r.key], r.rel) ->
            [mp |-> [mp EXCEPT ![r.key] = WithoutNode(@, r.rel)], code |-> "SUCCESS"]
       [] OTHER -> [mp |-> mp, code |-> "DELETING_FILE_FAILED"]

(* The state FileSystem::init() leaves (FileSystem.cpp:103-197): the       *)
(* initial ramdisk unmounted, "/" on the FAT root partition or, without    *)
(* one or when it does not mount, on a RamFs; /initrd created and the      *)
(* ramdisk remounted there without a check; /dev created if missing and a  *)
(* RamFs mounted on it; /dev/storage created.  The other nodes init()      *)
(* creates (video, memory, ports, network, pci, syslog, std streams) are   *)
(* not named by any property and are left out.                             *)
AfterInit(root) ==
  LET m1 == << >> :> root
      m2 == CreateNode(m1, <<Initrd>>, TRUE).mp
      m3 == (<<Initrd>> :> Driver("Tar", "init", {})) @@ m2
      m4 == IF GetNode(m3, <<Dev>>) THEN m3
            ELSE CreateNode(m3, <<Dev>>, TRUE).mp
      m5 == (<<Dev>> :> Driver("RamFs", "init", {})) @@ m4
  IN CreateNode(m5, <<Dev, Storage>>, TRUE).mp
-----------------------------------------------------------------------------
(* Before init() the initial ramdisk is mounted at "/".                    *)
Init ==
  /\ mountPoints = << >> :> Driver("Tar", "init", {})
  /\ fsLock = NULL
  /\ initialized = FALSE
  /\ pc = [t \in Threads \cup {Bus} |-> "idle"]
  /\ target = [t \in Threads |-> NULL]
  /\ ret = [t \in Threads |-> NULL]
  /\ mine = [t \in Threads |-> NULL]
  /\ evIdx = 0
  /\ present = FALSE
  /\ halted = FALSE

(* FileSystem::init(), run once by the kernel before any other caller; the *)
(* root partition is absent, mounts, or fails to mount.                    *)
FsInit ==
  /\ ~initialized
  /\ \E root \in {Driver("RamFs", "init", {}), Driver("Fat", "init", RootDisk)} :
       mountPoints' = AfterInit(root)
  /\ initialized' = TRUE
  /\ UNCHANGED <<fsLock, pc, target, ret, mine, evIdx, present, halted>>

(* fsLock.acquire(), a spinlock: a thread between calls starts a call's   *)
(* first section, a thread between the two parts of mount, unmount or      *)
(* createFilesystem its second, the event bus the section of the call      *)
(* onEvent makes.  The lock's holder is the only thread inside a section. *)
Inside == [idle |-> "section", mount |-> "mountIn", unmount |-> "unmountIn",
           format |-> "formatIn", add |-> "addIn", addNode |-> "addNodeIn"]

Acquire(t) ==
  /\ initialized /\ ~halted /\ fsLock = NULL
  /\ pc[t] \in DOMAIN Inside /\ (t = Bus => pc[t] /= "idle")
  /\ fsLock' = t
  /\ pc' = [pc EXCEPT ![t] = Inside[pc[t]]]
  /\ UNCHANGED <<mountPoints, initialized, target, ret, mine, evIdx, present, halted>>

(* Thread t holds fsLock in the section `label' of its call.               *)
InSection(t, label) == ~halted /\ fsLock = t /\ pc[t] = label

(* fsLock.release() on a path out of a section; t goes on at `next'.       *)
Release(t, next) == fsLock' = NULL /\ pc' = [pc EXCEPT ![t] = next]

(* createFile / createDirectory (FileSystem.cpp:373-408).                  *)
Create(t) ==
  /\ InSection(t, "section")
  /\ \E q \in Requests :
       /\ q.op \in {"createFile", "createDirectory"}
       /\ LET res == CreateNode(mountPoints, ParsePath(q.path), q.op = "createDirectory")
          IN /\ mountPoints' = res.mp
             /\ ret' = [ret EXCEPT ![t] = [op |-> q.op, path |-> q.path, code |-> res.code]]
  /\ Release(t, "idle")
  /\ UNCHANGED <<initialized, target, mine, evIdx, present, halted>>

(* deleteFile (FileSystem.cpp:410-434).                                    *)
Delete(t) ==
  /\ InSection(t, "section")
  /\ \E q \in Requests :
       /\ q.op = "deleteFile"
       /\ LET res == DeleteNode(mountPoints, ParsePath(q.path))
          IN /\ mountPoints' = res.mp
             /\ ret' = [ret EXCEPT ![t] = [op |-> q.op, path |-> q.path, code |-> res.code]]
  /\ Release(t, "idle")
  /\ UNCHANGED <<initialized, target, mine, evIdx, present, halted>>

(* mount(), first section (FileSystem.cpp:286-295): getNode(target); a     *)
(* missing target is refused unless nothing at all is mounted.  Threads    *)
(* mount a RamFs, which needs no device (lines 267-284 are skipped).       *)
MountCheck(t) ==
  /\ InSection(t, "section")
  /\ \E q \in Requests :
       /\ q.op = "mount"
       /\ LET p == ParsePath(q.path) IN
          IF ~GetNode(mountPoints, p) /\ DOMAIN mountPoints /= {}
          THEN /\ ret' = [ret EXCEPT ![t] = [op |-> "mount", path |-> p,
                                             code |-> "FILE_NOT_FOUND"]]
               /\ Release(t, "idle")
               /\ UNCHANGED target
          ELSE /\ Release(t, "mount")
               /\ target' = [target EXCEPT ![t] = p]
               /\ UNCHANGED ret
  /\ UNCHANGED <<mountPoints, initialized, mine, evIdx, present, halted>>

(* Mutant of MountInstall: the containsKey test is missing.                *)
MountInstallUnchecked(t) ==
  /\ InSection(t, "mountIn")
  /\ mountPoints' = (target[t] :> Driver("RamFs", t, {})) @@ mountPoints
  /\ mine' = [mine EXCEPT ![t] = target[t]]
  /\ ret' = [ret EXCEPT ![t] = [op |-> "mount", path |-> target[t], code |-> "SUCCESS"]]
  /\ Release(t, "idle")
  /\ target' = [target EXCEPT ![t] = NULL]
  /\ UNCHANGED <<initialized, evIdx, present, halted>>

(* Mutant of MountInstall: the MOUNT_TARGET_ALREADY_USED return does not  *)
(* release fsLock.                                                         *)
MountInstallUsedKeepsLock(t) ==
  /\ InSection(t, "mountIn")
  /\ IF target[t] \in DOMAIN mountPoints
     THEN /\ UNCHANGED <<mountPoints, mine, fsLock>>
          /\ pc' = [pc EXCEPT ![t] = "idle"]
          /\ ret' = [ret EXCEPT ![t] = [op |-> "mount", path |-> target[t],
                                        code |-> "MOUNT_TARGET_ALREADY_USED"]]
     ELSE /\ mountPoints' = (target[t] :> Driver("RamFs", t, {})) @@ mountPoints
          /\ mine' = [mine EXCEPT ![t] = target[t]]
          /\ ret' = [ret EXCEPT ![t] = [op |-> "mount", path |-> target[t], code |-> "SUCCESS"]]
          /\ Release(t, "idle")
  /\ target' = [target EXCEPT ![t] = NULL]
  /\ UNCHANGED <<initialized, evIdx, present, halted>>

(* mount(), second section (FileSystem.cpp:297-315): refuse a used target, *)
(* else create the driver, mount it and put it into the table; the lock is *)
(* released on both paths.                                                 *)
MountInstall(t) ==
  /\ InSection(t, "mountIn")
  /\ IF target[t] \in DOMAIN mountPoints
     THEN /\ UNCHANGED <<mountPoints, mine>>
          /\ ret' = [ret EXCEPT ![t] = [op |-> "mount", path |-> target[t],
                                        code |-> "MOUNT_TARGET_ALREADY_USED"]]
     ELSE /\ mountPoints' = (target[t] :> Driver("RamFs", t, {})) @@ mountPoints
          /\ mine' = [mine EXCEPT ![t] = target[t]]
          /\ ret' = [ret EXCEPT ![t] = [op |-> "mount", path |-> target[t], code |-> "SUCCESS"]]
  /\ Release(t, "idle")
  /\ target' = [target EXCEPT ![t] = NULL]
  /\ UNCHANGED <<initialized, evIdx, present, halted>>

(* unmount(), first section (FileSystem.cpp:319-328): getNode(target); a   *)
(* missing target other than "/" is refused.                               *)
UnmountCheck(t) ==
  /\ InSection(t, "section")
  /\ \E q \in Requests :
       /\ q.op = "unmount"
       /\ LET p == ParsePath(q.path) IN
          IF ~GetNode(mountPoints, p) /\ p /= << >>
          THEN /\ ret' = [ret EXCEPT ![t] = [op |-> "unmount", path |-> p,
                                             code |-> "FILE_NOT_FOUND"]]
               /\ Release(t, "idle")
               /\ UNCHANGED target
          ELSE /\ Release(t, "unmount")
               /\ target' = [target EXCEPT ![t] = p]
               /\ UNCHANGED ret
  /\ UNCHANGED <<mountPoints, initialized, mine, evIdx, present, halted>>

(* unmount(), second section (FileSystem.cpp:330-351): refuse while a key  *)
(* below the target is mounted, else delete the driver and its key; each  *)
(* of the three returns releases the lock.                                 *)
UnmountRemove(t) ==
  /\ InSection(t, "unmountIn")
  /\ LET p == target[t]
         code == CASE \E k \in DOMAIN mountPoints : IsStrictPrefix(p, k)
                        -> "SUBDIRECTORY_CONTAINS_MOUNT_POINT"
                   [] p \in DOMAIN mountPoints -> "SUCCESS"
                   [] OTHER -> "NOTHING_MOUNTED_AT_PATH"
     IN /\ IF code = "SUCCESS"
           THEN /\ mountPoints' = [k \in DOMAIN mountPoints \ {p} |-> mountPoints[k]]
                /\ mine' = [u \in Threads |-> IF mine[u] = p THEN NULL ELSE mine[u]]
           ELSE UNCHANGED <<mountPoints, mine>>
        /\ ret' = [ret EXCEPT ![t] = [op |-> "unmount", path |-> p, code |-> code]]
  /\ Release(t, "idle")
  /\ target' = [target EXCEPT ![t] = NULL]
  /\ UNCHANGED <<initialized, evIdx, present, halted>>

(* createFilesystem(), first part (FileSystem.cpp:237-246): getNode of the *)
(* device path (one fsLock section), then the storage service's device;    *)
(* either missing is DEVICE_NOT_FOUND.                                     *)
FormatCheck(t) ==
  /\ InSection(t, "section")
  /\ \E q \in Requests :
       /\ q.op = "createFilesystem"
       /\ IF GetNode(mountPoints, ParsePath(q.path)) /\ present
          THEN /\ Release(t, "format")
               /\ target' = [target EXCEPT ![t] = q.path]
               /\ UNCHANGED ret
          ELSE /\ ret' = [ret EXCEPT ![t] = [op |-> q.op, path |-> q.path,
                                             code |-> "DEVICE_NOT_FOUND"]]
               /\ Release(t, "idle")
               /\ UNCHANGED target
  /\ UNCHANGED <<mountPoints, initialized, mine, evIdx, present, halted>>

(* createFilesystem(), fsLock section (FileSystem.cpp:249-261): a driver  *)
(* of the type formats the device; createFs (not under src/) succeeds or   *)
(* fails.  Nothing in the mount table changes.                             *)
FormatRun(t) ==
  /\ InSection(t, "formatIn")
  /\ \E ok \in BOOLEAN :
       ret' = [ret EXCEPT ![t] = [op |-> "createFilesystem", path |-> target[t],
                                  code |-> IF ok THEN "SUCCESS" ELSE "FORMATTING_FAILED"]]
  /\ Release(t, "idle")
  /\ target' = [target EXCEPT ![t] = NULL]
  /\ UNCHANGED <<mountPoints, initialized, mine, evIdx, present, halted>>

(* The storage service adds or removes the device and the event bus takes  *)
(* the event for FileSystem::onEvent.                                      *)
Publish ==
  /\ initialized /\ ~halted
  /\ pc[Bus] = "idle" /\ evIdx < Len(Events)
  /\ present' = (Events[evIdx + 1] = "add")
  /\ pc' = [pc EXCEPT ![Bus] = Events[evIdx + 1]]
  /\ evIdx' = evIdx + 1
  /\ UNCHANGED <<mountPoints, fsLock, initialized, target, ret, mine, halted>>

(* onEvent, StorageAddEvent, first call (FileSystem.cpp:437-440):          *)
(* deleteFile("/dev/storage/" + name).                                     *)
OnStorageAddDelete ==
  /\ InSection(Bus, "addIn")
  /\ mountPoints' = DeleteNode(mountPoints, <<Dev, Storage, Device>>).mp
  /\ Release(Bus, "addNode")
  /\ UNCHANGED <<initialized, target, ret, mine, evIdx, present, halted>>

(* onEvent, StorageAddEvent, second call (FileSystem.cpp:441):             *)
(* addVirtualNode("/dev/storage/", node) (FileSystem.cpp:215-234), which   *)
(* dereferences the driver getMountedDriver returned without a null test, *)
(* holding fsLock.                                                         *)
OnStorageAddNode ==
  /\ InSection(Bus, "addNodeIn")
  /\ LET r == GetMountedDriver(mountPoints, <<Dev, Storage>>)
         node == [path |-> Append(r.rel, Device), dir |-> FALSE]
     IN IF r = NULL
        THEN /\ halted' = TRUE
             /\ UNCHANGED <<mountPoints, fsLock, pc>>
        ELSE /\ IF /\ mountPoints[r.key].type = "RamFs"
                   /\ CanCreate(mountPoints[r.key], node.path)
                THEN mountPoints' = [mountPoints EXCEPT ![r.key].nodes = @ \cup {node}]
                ELSE UNCHANGED mountPoints
             /\ Release(Bus, "idle")
             /\ UNCHANGED halted
  /\ UNCHANGED <<initialized, target, ret, mine, evIdx, present>>

(* onEvent, StorageRemoveEvent (FileSystem.cpp:442-446): the branch tests  *)
(* StorageAddEvent::TYPE again, so a remove event changes nothing.         *)
OnStorageRemove ==
  /\ pc[Bus] = "remove" /\ ~halted
  /\ pc' = [pc EXCEPT ![Bus] = "idle"]
  /\ UNCHANGED <<mountPoints, fsLock, initialized, target, ret, mine, evIdx,
                 present, halted>>

Call(t) == Create(t) \/ Delete(t) \/ MountCheck(t) \/ MountInstall(t)
             \/ UnmountCheck(t) \/ UnmountRemove(t) \/ FormatCheck(t) \/ FormatRun(t)

Deliver == Publish \/ OnStorageAddDelete \/ OnStorageAddNode \/ OnStorageRemove

Next ==
  \/ FsInit \/ Deliver
  \/ \E t \in Threads \cup {Bus} : Acquire(t)
  \/ \E t \in Threads : Call(t)

Spec == Init /\ [][Next]_vars
-----------------------------------------------------------------------------
(* A mount that returned SUCCESS stays in the table with its own driver    *)
(* until an unmount of its key succeeds: the containsKey test and the put *)
(* of mount() are one fsLock section, so two mounts of one target never    *)
(* both succeed and neither replaces the other's driver.                   *)
SuccessfulMountsKept ==
  \A t \in Threads :
    mine[t] /= NULL =>
      /\ mine[t] \in DOMAIN mountPoints
      /\ mountPoints[mine[t]].owner = t

(* Every return out of an fsLock section releases the spinlock: whenever  *)
(* fsLock is held, its holder is inside one of the sections of mount,      *)
(* unmount, createFilesystem, createFile, createDirectory, deleteFile,     *)
(* getNode or addVirtualNode (the early returns of FileSystem.cpp:224,     *)
(* 300, 307, 335, 345, 349, 362, 381, 399, 417, 425 included).  A thread   *)
(* that returned holding it would leave every other caller spinning.       *)
LockHeldOnlyInSection ==
  fsLock /= NULL => pc[fsLock] \in {Inside[l] : l \in DOMAIN Inside}

(* mount() refuses a target that getNode does not find (FileSystem.cpp:    *)
(* 287-292): every mount point other than "/" is a directory of the file  *)
(* system it is mounted in.                                                *)
MountPointsExist ==
  \A k \in DOMAIN mountPoints \ {<< >>} :
    LET others == [j \in DOMAIN mountPoints \ {k} |-> mountPoints[j]]
        r == GetMountedDriver(others, k)
    IN r /= NULL /\ IsDir(others[r.key], r.rel)

(* A device the storage service no longer has is not listed: once the     *)
(* event bus has handled the remove event, /dev/storage holds no node for  *)
(* the device, which the StorageRemoveEvent branch of onEvent deletes      *)
(* (FileSystem.cpp:442-446).                                               *)
RemovedDevicesUnlisted ==
  pc[Bus] = "idle" /\ ~present => ~GetNode(mountPoints, <<Dev, Storage, Device>>)

RECURSIVE NormalisedPath(_, _)
(* Reference for parsePath, read right to left: `up' counts the ".." not   *)
(* yet matched by a name to their left.                                    *)
NormalisedPath(tokens, up) ==
  IF tokens = << >> THEN << >>
  ELSE LET s == Last(tokens)
           rest == Front(tokens)
       IN CASE s = "." -> NormalisedPath(rest, up)
            [] s = ".." -> NormalisedPath(rest, up + 1)
            [] up > 0 -> NormalisedPath(rest, up - 1)
            [] OTHER -> Append(NormalisedPath(rest, 0), s)

(* parsePath and the reference agree on every path of Paths.              *)
ParsePathAgrees == \A p \in Paths : ParsePath(p) = NormalisedPath(p, 0)

(* parsePath, which every call applies to its path before the mount table *)
(* is searched, resolves "." and ".." the way the reference does: a ".."   *)
(* cancels the nearest name before it and nothing above the root.  Checked *)
(* in every state once init() has run and calls are made.                  *)
ParsePathNormalises ==
  initialized => ParsePathAgrees
=============================================================================
