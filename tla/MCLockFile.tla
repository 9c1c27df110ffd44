------------------------------ MODULE MCLockFile ------------------------------
(* LockFile for TLC: a process with two threads and one with a single one.  *)
EXTENDS LockFile

CONSTANTS p1, p2, a1, a2, b1

TwoAndOne == [t \in {a1, a2, b1} |-> IF t \in {a1, a2} THEN p1 ELSE p2]

\* In p1 only one thread ever reads; p2 has one thread and uses everything.
OneReader ==
    [t \in {a1, a2, b1} |->
        IF t = a1 THEN {"try_lock_for", "try_lock_shared_for"}
        ELSE IF t = a2 THEN {"try_lock_for"} ELSE LockOps]

\* The operations of PlainTextDb in every thread.
AllRead == [t \in {a1, a2, b1} |-> {"try_lock_for", "try_lock_shared_for"}]
==============================================================================
