------------------------------- MODULE RWLock -------------------------------
(***************************************************************************)
(* skynet-src/rwlock.h: the spinning readers-writer lock that protects the *)
(* handle storage.  A reader announces itself in `read` and then looks for *)
(* a writer; a writer takes `write` and then waits for the readers to      *)
(* leave.  Every load, store and atomic operation is one step, in program  *)
(* order (the __sync builtins are full barriers on the supported targets). *)
(***************************************************************************)
EXTENDS Integers, FiniteSets

CONSTANT Thread

ASSUME ThreadAssumption == IsFiniteSet(Thread)

VARIABLES
  write,    \* lock->write
  read,     \* lock->read
  at        \* where each thread is

lockVars == <<write, read, at>>

(* rwlock_init *)
LockInit ==
  /\ write = 0
  /\ read = 0
  /\ at = [t \in Thread |-> "idle"]

Go(t, from, to) == at[t] = from /\ at' = [at EXCEPT ![t] = to]

(* A thread decides to read, or to write. *)
Enter(t) ==
  /\ Go(t, "idle", "r_spin") \/ Go(t, "idle", "w_set")
  /\ UNCHANGED <<write, read>>

(* Mutant: the reader announces itself without waiting for write to fall. *)
RSpinSkipped(t) ==
  /\ Go(t, "r_spin", "r_add")
  /\ UNCHANGED <<write, read>>

(* rwlock_rlock: while (lock->write) spin *)
RSpin(t) ==
  /\ Go(t, "r_spin", "r_add")
  /\ write = 0
  /\ UNCHANGED <<write, read>>

(* __sync_add_and_fetch(&lock->read, 1) *)
RAdd(t) ==
  /\ Go(t, "r_add", "r_check")
  /\ read' = read + 1
  /\ UNCHANGED write

(* Mutant: the reader does not look at write again. *)
RCheckBlind(t) ==
  /\ Go(t, "r_check", "reading")
  /\ UNCHANGED <<write, read>>

(* if (lock->write) undo and start over, else the lock is held *)
RCheck(t) ==
  /\ \/ write # 0 /\ Go(t, "r_check", "r_undo")
     \/ write = 0 /\ Go(t, "r_check", "reading")
  /\ UNCHANGED <<write, read>>

RUndo(t) ==
  /\ Go(t, "r_undo", "r_spin")
  /\ read' = read - 1
  /\ UNCHANGED write

rwlock_runlock(t) ==
  /\ Go(t, "reading", "idle")
  /\ read' = read - 1
  /\ UNCHANGED write

(* rwlock_wlock: while (test_and_set(&lock->write, 1)) spin *)
WSet(t) ==
  /\ Go(t, "w_set", "w_drain")
  /\ write = 0
  /\ write' = 1
  /\ UNCHANGED read

(* while (lock->read) spin *)
WDrain(t) ==
  /\ Go(t, "w_drain", "writing")
  /\ read = 0
  /\ UNCHANGED <<write, read>>

rwlock_wunlock(t) ==
  /\ Go(t, "writing", "idle")
  /\ write' = 0
  /\ UNCHANGED read

(* What a thread that is not idle does next. *)
Step(t) ==
  \/ RSpin(t)
  \/ RAdd(t)
  \/ RCheck(t)
  \/ RUndo(t)
  \/ rwlock_runlock(t)
  \/ WSet(t)
  \/ WDrain(t)
  \/ rwlock_wunlock(t)

LockNext == \E t \in Thread : Enter(t) \/ Step(t)

LockSpec == LockInit /\ [][LockNext]_lockVars

(* Every thread that is inside the lock's code keeps running, critical     *)
(* sections included: none of skynet_handle.c's blocks.                    *)
FairSpec == LockSpec /\ \A t \in Thread : WF_lockVars(Step(t))

-----------------------------------------------------------------------------
(* The lock and its threads are well formed; the reader count is exact.    *)
LockTypeOK ==
  /\ write \in {0, 1}
  /\ read \in Nat
  /\ at \in [Thread -> {"idle", "r_spin", "r_add", "r_check", "r_undo",
                        "reading", "w_set", "w_drain", "writing"}]

(* While a thread writes, no other thread writes and none reads, although  *)
(* readers may be announced and about to withdraw.                         *)
Exclusion ==
  \A t, u \in Thread :
    at[t] = "writing" /\ u # t => at[u] \notin {"reading", "writing"}

(* The threads counted in lock->read. *)
Counted == {t \in Thread : at[t] \in {"r_check", "r_undo", "reading"}}

(* The threads that own lock->write. *)
Writers == {t \in Thread : at[t] \in {"w_drain", "writing"}}

(* The strengthening that makes Exclusion inductive: read counts the       *)
(* announced readers exactly, write has exactly one owner, and nobody      *)
(* reads while the owner writes.                                           *)
LockInv ==
  /\ LockTypeOK
  /\ read = Cardinality(Counted)
  /\ write = 1 <=> Writers # {}
  /\ \A t, u \in Writers : t = u
  /\ \A t, u \in Thread : at[t] = "writing" => at[u] # "reading"

(* A writer that has claimed the lock gets it: readers that announce       *)
(* themselves meanwhile withdraw and cannot keep it waiting for ever.      *)
WriterProceeds ==
  \A t \in Thread : at[t] = "w_drain" ~> at[t] = "writing"
=============================================================================
