-------------------------- MODULE ReadersWriterLock --------------------------
(****************************************************************************)
(* What every user of a database file expects of miopen::LockFile: one      *)
(* readers-writer lock for all threads of all processes.  A thread holds it *)
(* exclusively when nobody else holds it at all, or shares it with other    *)
(* readers, and gives back no more than its own hold.                       *)
(****************************************************************************)
CONSTANT Thread

VARIABLES writers,   \* the threads inside an exclusive section
          readers    \* the threads inside a shared section

vars == <<writers, readers>>

Init == writers = {} /\ readers = {}

AcquireExclusive(t) ==
    /\ writers = {} /\ readers = {}
    /\ writers' = {t}
    /\ UNCHANGED readers

AcquireShared(t) ==
    /\ writers = {}
    /\ t \notin readers
    /\ readers' = readers \cup {t}
    /\ UNCHANGED writers

\* Any group of threads leaves: one thread that unlocks, or all the threads of
\* a process that dies.
Leave(T) ==
    /\ writers' = writers \ T
    /\ readers' = readers \ T

Next ==
    \/ \E t \in Thread : AcquireExclusive(t) \/ AcquireShared(t)
    \/ \E T \in SUBSET Thread : Leave(T)

Spec == Init /\ [][Next]_vars
=============================================================================
