------------------------------ MODULE LockSet ------------------------------
(***************************************************************************)
(* The locks held at an event (Analysis/LockSet.cpp).  Held locks are a    *)
(* multiset: a lock that is taken twice is held until it is released       *)
(* twice, and the release of a lock that is not held changes nothing.  The *)
(* cache of the code holds the results of a pure function and is left out. *)
(***************************************************************************)
EXTENDS Naturals, SequencesExt, BagsExt

VARIABLE threads   \* the threads of the program trace

\* Mutant: a release takes away all acquisitions of the lock.
AfterEvent_AllReleased(locks, e) ==
  CASE e.type = "Lock" -> locks (+) SetToBag({e.ir.lock})
    [] e.type = "Unlock" -> [l \in DOMAIN locks \ {e.ir.lock} |-> locks[l]]
    [] OTHER -> locks

AfterEvent(locks, e) ==
  CASE e.type = "Lock" -> locks (+) SetToBag({e.ir.lock})
    [] e.type = "Unlock" -> locks (-) SetToBag({e.ir.lock})
    [] OTHER -> locks

\* The locks taken and not released by the events before n in its thread.
HeldLocks(n) ==
  FoldLeft(AfterEvent, EmptyBag, SubSeq(threads[n[1]].events, 1, n[2] - 1))

SharesLock(m, n) == BagToSet(HeldLocks(m)) \cap BagToSet(HeldLocks(n)) # {}
=============================================================================
