-------------------------- MODULE ServiceRegistry --------------------------
(***************************************************************************)
(* System::registerService (System.cpp:153-161) called by several kernel   *)
(* threads at once.  The registry is System::serviceMap, guarded by        *)
(* System::serviceLock, a spinlock; registration is append-only and a      *)
(* second registration of an id throws INVALID_ARGUMENT, which halts the   *)
(* kernel with the lock still held.  Each registrant registers its own     *)
(* service instance (the registrant stands for it) under Request[r].       *)
(***************************************************************************)
EXTENDS Naturals, TLC

CONSTANTS
  Registrants,   \* threads calling registerService once each
  Ids,           \* service ids
  Request,       \* the id each registrant registers its service under
  NULL

ASSUME Request \in [Registrants -> Ids] /\ NULL \notin Registrants

VARIABLES
  serviceMap,    \* System::serviceMap
  serviceLock,   \* the holder of System::serviceLock, or NULL
  pc,            \* where each registrant is in registerService
  halted         \* the INVALID_ARGUMENT exception stopped the kernel

vars == <<serviceMap, serviceLock, pc, halted>>

Init ==
  /\ serviceMap = [id \in Ids |-> NULL]
  /\ serviceLock = NULL
  /\ pc = [r \in Registrants |-> "acquire"]
  /\ halted = FALSE

(* Mutant of Acquire: the lock is taken without waiting for it.            *)
AcquireWithoutWaiting(r) ==
  /\ ~halted
  /\ pc[r] = "acquire"
  /\ serviceLock' = r
  /\ pc' = [pc EXCEPT ![r] = "test"]
  /\ UNCHANGED <<serviceMap, halted>>

(* serviceLock.acquire() (System.cpp:154): spin until the lock is free.    *)
Acquire(r) ==
  /\ ~halted
  /\ pc[r] = "acquire"
  /\ serviceLock = NULL
  /\ serviceLock' = r
  /\ pc' = [pc EXCEPT ![r] = "test"]
  /\ UNCHANGED <<serviceMap, halted>>

(* isServiceRegistered(serviceId) and the exception (System.cpp:155-157,   *)
(* 163-165); the kernel halts without releasing the lock.                  *)
Test(r) ==
  /\ ~halted
  /\ pc[r] = "test"
  /\ IF serviceMap[Request[r]] /= NULL
     THEN /\ halted' = TRUE
          /\ UNCHANGED <<serviceMap, serviceLock, pc>>
     ELSE /\ pc' = [pc EXCEPT ![r] = "store"]
          /\ UNCHANGED <<serviceMap, serviceLock, halted>>

(* serviceMap[serviceId] = kernelService (System.cpp:159).                 *)
Store(r) ==
  /\ ~halted
  /\ pc[r] = "store"
  /\ serviceMap' = [serviceMap EXCEPT ![Request[r]] = r]
  /\ pc' = [pc EXCEPT ![r] = "release"]
  /\ UNCHANGED <<serviceLock, halted>>

(* Mutant of Release: the lock is kept.                                    *)
ReleaseForgotten(r) ==
  /\ ~halted
  /\ pc[r] = "release"
  /\ pc' = [pc EXCEPT ![r] = "done"]
  /\ UNCHANGED <<serviceMap, serviceLock, halted>>

(* serviceLock.release() (System.cpp:160).                                 *)
Release(r) ==
  /\ ~halted
  /\ pc[r] = "release"
  /\ serviceLock' = NULL
  /\ pc' = [pc EXCEPT ![r] = "done"]
  /\ UNCHANGED <<serviceMap, halted>>

Register(r) == Acquire(r) \/ Test(r) \/ Store(r) \/ Release(r)

Next == \E r \in Registrants : Register(r)

(* Every registrant keeps running its call.                                *)
Spec == Init /\ [][Next]_vars /\ \A r \in Registrants : WF_vars(Register(r))

-----------------------------------------------------------------------------
TypeOK ==
  /\ serviceMap \in [Ids -> Registrants \cup {NULL}]
  /\ serviceLock \in Registrants \cup {NULL}
  /\ pc \in [Registrants -> {"acquire", "test", "store", "release", "done"}]
  /\ halted \in BOOLEAN

(* Append-only registration: a registerService call that returned has its  *)
(* service in the slot, whatever other threads registered meanwhile; no    *)
(* later call replaces it.                                                 *)
RegistrationsKept ==
  \A r \in Registrants : pc[r] = "done" => serviceMap[Request[r]] = r

(* Every registerService call returns, unless a duplicate id halted the    *)
(* kernel: the spinlock is always released again.                          *)
RegistrationsReturn ==
  \A r \in Registrants : <>(pc[r] = "done" \/ halted)
=============================================================================
