------------------------------- MODULE JobLock -------------------------------
(***************************************************************************)
(* One resource of the job service's locks (core/services/job-service.ts,  *)
(* the Community edition): an entry with an expiry date.  A lock that has  *)
(* expired is there for the taking, and unlock deletes the entry whoever   *)
(* owns it: it does not look.                                              *)
(***************************************************************************)
EXTENDS Naturals

CONSTANT Holders   \* who may acquire the lock: natural numbers, from 1 on

ASSUME LockAssumption == Holders \subseteq Nat \ {0}

VARIABLE lock

NoHolder == 0
Unlocked == [by |-> NoHolder, expired |-> FALSE]

LockTypeOK == lock \in [by : Holders \cup {NoHolder}, expired : BOOLEAN]

MayAcquire == lock.by = NoHolder \/ lock.expired

Acquire(h) == lock' = [by |-> h, expired |-> FALSE]
Unlock == lock' = Unlocked
ClearLock == lock' = Unlocked

\* The date passes.
ExpireLock ==
  /\ lock.by # NoHolder
  /\ ~ lock.expired
  /\ lock' = [lock EXCEPT !.expired = TRUE]
=============================================================================
