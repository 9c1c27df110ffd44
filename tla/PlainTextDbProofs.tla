-------------------------- MODULE PlainTextDbProofs --------------------------
(* What holds of PlainTextDb for any threads, processes, keys and records,  *)
(* and whatever fails.  The one thing it needs of its lock is that writers  *)
(* exclude each other, which LockFileProofs shows for the timed functions.  *)
EXTENDS PlainTextDb, FiniteSetTheorems, WellFoundedInduction, SequenceTheorems, TLAPS

LP == INSTANCE LockFileProofs WITH
          UsedOps <- [t \in Thread |-> {"try_lock_for", "try_lock_shared_for"}]

\* The operations use the timed functions of the lock, and these only.
LEMMA LockUse == LP!LockAssumption /\ LP!TimedUse
  BY PlainTextDbAssumption DEF LP!LockAssumption, LP!LockOps, LP!TimedUse

\* The step of the lock that a step of the database makes.
LEMMA LockSteps == [Next]_vars => [LP!Next]_(LP!lockVars)
  <1> USE DEF Lock!Goto, LP!Goto, LP!Next, LP!lockVars, lockVars
  <1>1. ASSUME NEW t \in Thread, LockShared(t) PROVE LP!Shared(t)
    BY <1>1 DEF LockShared, LP!Shared,
       Lock!TryLockSharedFor, LP!TryLockSharedFor, Lock!SharedMutexAcquired, LP!SharedMutexAcquired,
       Lock!SharedMutexTimeout, LP!SharedMutexTimeout, Lock!SharedFlockAcquired, LP!SharedFlockAcquired,
       Lock!SharedFlockFailed, LP!SharedFlockFailed, Lock!ShareMutex, LP!ShareMutex,
       Lock!UnshareMutex, LP!UnshareMutex, Lock!SetFlock, LP!SetFlock,
       Lock!MutexShareable, LP!MutexShareable, Lock!FlockShareable, LP!FlockShareable
  <1>2. ASSUME NEW t \in Thread, LockExclusive(t) PROVE LP!Exclusive(t)
    BY <1>2 DEF LockExclusive, LP!Exclusive,
       Lock!TryLockFor, LP!TryLockFor, Lock!MutexAcquired, LP!MutexAcquired,
       Lock!MutexTimeout, LP!MutexTimeout, Lock!FlockAcquired, LP!FlockAcquired,
       Lock!FlockFailed, LP!FlockFailed, Lock!TakeMutex, LP!TakeMutex, Lock!DropMutex, LP!DropMutex,
       Lock!SetFlock, LP!SetFlock, Lock!MutexFree, LP!MutexFree, Lock!FlockFree, LP!FlockFree
  <1>3. ASSUME NEW t \in Thread, Lock!UnlockMutex(t) \/ Lock!UnlockFlock(t) PROVE LP!Exclusive(t)
    BY <1>3 DEF LP!Exclusive, Lock!UnlockMutex, LP!UnlockMutex, Lock!UnlockFlock, LP!UnlockFlock,
       Lock!DropMutex, LP!DropMutex, Lock!SetFlock, LP!SetFlock
  <1>4. ASSUME NEW t \in Thread, Lock!UnlockSharedMutex(t) \/ Lock!UnlockSharedFlock(t)
        PROVE  LP!Shared(t)
    BY <1>4 DEF LP!Shared, Lock!UnlockSharedMutex, LP!UnlockSharedMutex,
       Lock!UnlockSharedFlock, LP!UnlockSharedFlock,
       Lock!UnshareMutex, LP!UnshareMutex, Lock!SetFlock, LP!SetFlock
  <1>5. ASSUME NEW t \in Thread, Operation(t) PROVE UNCHANGED lockVars
    BY <1>5 DEF Operation, FindRecord, StoreRecord, UpdateRecord, RemoveRecord, Remove
  <1>6. ASSUME NEW t \in Thread, FlushUnsafe(t) PROVE UNCHANGED lockVars
    BY <1>6 DEF FlushUnsafe, AppendLine, WriteTemp, RemoveFile, RenameTemp, Unwritable
  <1>7. ASSUME NEW p \in Process, Crash(p) PROVE LP!Crash(p)
    BY <1>7 DEF Crash, Lock!Crash, LP!Crash
  <1>8. CASE UNCHANGED vars
    BY <1>8 DEF vars
  <1> QED
    BY <1>1, <1>2, <1>3, <1>4, <1>5, <1>6, <1>7, <1>8 DEF Next, LockStep, Leave

\* The invariant of the lock, and with it one writer at a time.
LEMMA LockInv == Spec => [](LP!TimedInv /\ LP!WritersExclusion)
  <1>1. Init => LP!TimedInv
    BY LockUse, LP!TimedInit DEF Init, Lock!Init, LP!Init
  <1>2. LP!TimedInv /\ [Next]_vars => LP!TimedInv'
    BY LockUse, LockSteps, LP!TimedStep
  <1>3. LP!TimedInv => LP!WritersExclusion
    BY LockUse, LP!WritersFromInv
  <1> QED
    BY <1>1, <1>2, <1>3, PTL DEF Spec

------------------------------------------------------------------------------
(* The lines of a file.                                                     *)

\* No line of f has key k; at most one has; line n is the first that has.
NoLine(f, k)   == \A n \in DOMAIN f : f[n].key # k
OneLine(f, k)  == \A m, n \in DOMAIN f : f[m].key = k /\ f[n].key = k => m = n
First(f, k, n) ==
    /\ n \in DOMAIN f /\ f[n].key = k
    /\ \A m \in DOMAIN f : f[m].key = k => n <= m

\* A set of numbers has a least one.
LEMMA Least ==
    ASSUME NEW S \in SUBSET Nat, S # {}
    PROVE  \E n \in S : \A m \in S : n <= m
  <1> DEFINE T == {1 .. n : n \in S}
             R == StrictSubsetOrdering(Nat)
  <1>1. IsWellFoundedOn(R, FiniteSubsetsOf(Nat))
    BY FS_StrictSubsetOrderingWellFounded
  <1>2. T \subseteq FiniteSubsetsOf(Nat) /\ T # {}
    <2>1. ASSUME NEW n \in S PROVE 1 .. n \in SUBSET Nat /\ IsFiniteSet(1 .. n)
      BY FS_Interval
    <2> QED
      BY <2>1 DEF FiniteSubsetsOf
  <1>3. PICK s \in T : \A u \in T : <<u, s>> \notin R
    <2> HIDE DEF R, T
    <2> QED
      BY <1>1, <1>2, WFMin
  <1>4. PICK n \in S : s = 1 .. n
    BY <1>3
  <1>5. ASSUME NEW m \in S, m < n PROVE FALSE
    <2>1. 1 .. m \in T /\ 1 .. m \in SUBSET Nat /\ 1 .. n \in SUBSET Nat
      OBVIOUS
    <2>2. 1 .. m \subseteq 1 .. n /\ n \in 1 .. n /\ n \notin 1 .. m
      BY <1>5
    <2>3. <<1 .. m, 1 .. n>> \in R
      BY <2>1, <2>2 DEF StrictSubsetOrdering
    <2> QED
      BY <1>3, <1>4, <2>1, <2>3
  <1> QED
    BY <1>5

\* The line of a record is one line or none.
LEMMA LineOfType ==
    ASSUME NEW k \in Key, NEW r \in Record
    PROVE  /\ LineOf(k, r) \in Seq(Line)
           /\ r = EmptyRecord => LineOf(k, r) = <<>>
           /\ r # EmptyRecord => LineOf(k, r) = <<[key |-> k, record |-> r]>>
  <1>1. <<>> \in Seq(Line)
    BY EmptySeq
  <1>2. [key |-> k, record |-> r] \in Line
    BY DEF Line
  <1>3. <<[key |-> k, record |-> r]>> \in Seq(Line)
    BY <1>2
  <1> QED
    BY <1>1, <1>3 DEF LineOf

\* What becomes of each line of f when one is appended.
LinesAppended(f, k, r, g) ==
    /\ g \in Seq(Line)
    /\ r = EmptyRecord => g = f
    /\ r # EmptyRecord =>
          /\ Len(g) = Len(f) + 1
          /\ \A m \in 1 .. Len(f) : g[m] = f[m]
          /\ g[Len(f) + 1] = [key |-> k, record |-> r]

\* Appending a line, which is no second one of its key if that had none.
LEMMA Appended ==
    ASSUME NEW f \in Seq(Line), NEW k \in Key, NEW r \in Record
    PROVE  /\ LinesAppended(f, k, r, f \o LineOf(k, r))
           /\ \A l \in Key : OneLine(f, l) /\ (l = k => NoLine(f, k))
                              => OneLine(f \o LineOf(k, r), l)
  <1> DEFINE g == f \o LineOf(k, r)
  <1>1. CASE r = EmptyRecord
    <2>1. g = f
      BY <1>1, LineOfType
    <2> QED
      BY <1>1, <2>1 DEF LinesAppended
  <1>2. CASE r # EmptyRecord
    <2> DEFINE line == [key |-> k, record |-> r]
    <2>1. LineOf(k, r) = <<line>> /\ line \in Line
      BY <1>2, LineOfType DEF Line
    <2> HIDE DEF line
    <2>2. /\ f \o <<line>> \in Seq(Line) /\ Len(f \o <<line>>) = Len(f) + 1
          /\ \A n \in 1 .. Len(f) : (f \o <<line>>)[n] = f[n]
          /\ (f \o <<line>>)[Len(f) + 1] = line
      BY <2>1
    <2>3. LinesAppended(f, k, r, g)
      BY <1>2, <2>1, <2>2 DEF LinesAppended, line
    <2>4. ASSUME NEW l \in Key, OneLine(f, l), l = k => NoLine(f, k) PROVE OneLine(g, l)
      BY <2>1, <2>2, <2>4 DEF OneLine, NoLine, line
    <2> QED
      BY <2>3, <2>4
  <1> QED
    BY <1>1, <1>2

\* What becomes of each line of f when line n is replaced.
LinesReplaced(f, n, k, r, g) ==
    /\ g \in Seq(Line)
    /\ r = EmptyRecord =>
          /\ Len(g) = Len(f) - 1
          /\ \A m \in 1 .. n - 1 : g[m] = f[m]
          /\ \A m \in n .. Len(f) - 1 : g[m] = f[m + 1]
    /\ r # EmptyRecord =>
          /\ Len(g) = Len(f)
          /\ \A m \in 1 .. Len(f) : m # n => g[m] = f[m]
          /\ g[n] = [key |-> k, record |-> r]

\* That is what the temporary file holds.
LEMMA ReplacedLines ==
    ASSUME NEW f \in Seq(Line), NEW n \in DOMAIN f, NEW k \in Key, NEW r \in Record
    PROVE  LinesReplaced(f, n, k, r, Replaced(f, n, k, r))
  <1> SUFFICES ASSUME NEW g, g = Replaced(f, n, k, r)
               PROVE  LinesReplaced(f, n, k, r, g)
    OBVIOUS
  <1> USE DEF LinesReplaced
  <1> DEFINE a == SubSeq(f, 1, n - 1)
             b == SubSeq(f, n + 1, Len(f))
  <1>1. /\ a \in Seq(Line) /\ Len(a) = n - 1
        /\ \A m \in 1 .. n - 1 : a[m] = f[m]
    OBVIOUS
  <1>2. /\ b \in Seq(Line) /\ Len(b) = Len(f) - n
        /\ \A m \in 1 .. Len(f) - n : b[m] = f[n + m]
    OBVIOUS
  <1> HIDE DEF a, b
  <1>3. g = a \o LineOf(k, r) \o b
    BY DEF Replaced, a, b
  <1>4. CASE r = EmptyRecord
    <2>1. a \o LineOf(k, r) = a
      BY <1>1, <1>4, LineOfType, ConcatEmptySeq
    <2>2. g = a \o b
      BY <1>3, <2>1
    <2>3. /\ a \o b \in Seq(Line) /\ Len(a \o b) = Len(f) - 1
          /\ \A m \in 1 .. n - 1 : (a \o b)[m] = f[m]
      BY <1>1, <1>2
    <2>4. ASSUME NEW m \in n .. Len(f) - 1 PROVE (a \o b)[m] = f[m + 1]
      <3>1. (a \o b)[m] = b[m - (n - 1)]
        BY <1>1, <1>2
      <3> QED
        BY <1>2, <3>1
    <2> QED
      BY <1>4, <2>2, <2>3, <2>4
  <1>5. CASE r # EmptyRecord
    <2> DEFINE line == [key |-> k, record |-> r]
               c    == a \o <<line>>
    <2>1. LineOf(k, r) = <<line>> /\ line \in Line
      BY <1>5, LineOfType DEF Line
    <2> HIDE DEF line
    <2>2. /\ c \in Seq(Line) /\ Len(c) = n /\ c[n] = line
          /\ \A m \in 1 .. n - 1 : c[m] = f[m]
      BY <1>1, <2>1
    <2>3. g = c \o b
      BY <1>3, <2>1
    <2> HIDE DEF c
    <2>4. /\ c \o b \in Seq(Line) /\ Len(c \o b) = Len(f)
          /\ \A m \in 1 .. n : (c \o b)[m] = c[m]
      BY <1>2, <2>2
    <2>5. ASSUME NEW m \in n + 1 .. Len(f) PROVE (c \o b)[m] = f[m]
      <3>1. (c \o b)[m] = b[m - n]
        BY <1>2, <2>2
      <3> QED
        BY <1>2, <3>1
    <2>6. \A m \in 1 .. Len(f) : m # n => (c \o b)[m] = f[m]
      BY <2>2, <2>4, <2>5
    <2> QED
      BY <1>5, <2>2, <2>3, <2>4, <2>6 DEF line
  <1> QED
    BY <1>4, <1>5

\* The lines of the replacement in terms of those of the file: without line n
\* the others follow in their order; or line n alone is another.
LineDropped(f, n, g) ==
    /\ \A m \in DOMAIN g :
          \/ m < n /\ m \in DOMAIN f /\ g[m] = f[m]
          \/ m >= n /\ m + 1 \in DOMAIN f /\ g[m] = f[m + 1]
    /\ \A i \in DOMAIN f :
          /\ i < n => i \in DOMAIN g /\ g[i] = f[i]
          /\ i > n => i - 1 \in DOMAIN g /\ g[i - 1] = f[i]

LineChanged(f, n, line, g) ==
    /\ DOMAIN g = DOMAIN f /\ g[n] = line
    /\ \A m \in DOMAIN f : m # n => g[m] = f[m]

\* That is what becomes of the lines.
LEMMA ReplacedOrder ==
    ASSUME NEW f \in Seq(Line), NEW n \in DOMAIN f, NEW k \in Key, NEW r \in Record,
           NEW g, LinesReplaced(f, n, k, r, g)
    PROVE  /\ DOMAIN f = 1 .. Len(f) /\ Len(f) \in Nat
           /\ DOMAIN g = 1 .. Len(g) /\ Len(g) \in Nat
           /\ r = EmptyRecord => LineDropped(f, n, g)
           /\ r # EmptyRecord => LineChanged(f, n, [key |-> k, record |-> r], g)
  <1>1. g \in Seq(Line)
    BY DEF LinesReplaced
  <1>2. DOMAIN f = 1 .. Len(f) /\ Len(f) \in Nat /\ DOMAIN g = 1 .. Len(g) /\ Len(g) \in Nat
    BY <1>1, LenProperties
  <1>3. CASE r = EmptyRecord
    <2>1. /\ Len(g) = Len(f) - 1
          /\ \A m \in 1 .. n - 1 : g[m] = f[m]
          /\ \A m \in n .. Len(f) - 1 : g[m] = f[m + 1]
      BY <1>3 DEF LinesReplaced
    <2>2. ASSUME NEW m \in DOMAIN g
          PROVE  \/ m < n /\ m \in DOMAIN f /\ g[m] = f[m]
                 \/ m >= n /\ m + 1 \in DOMAIN f /\ g[m] = f[m + 1]
      <3>1. CASE m < n
        BY <1>2, <2>1, <3>1
      <3>2. CASE m >= n
        BY <1>2, <2>1, <3>2
      <3> QED
        BY <1>2, <3>1, <3>2
    <2>3. ASSUME NEW i \in DOMAIN f, i < n PROVE i \in DOMAIN g /\ g[i] = f[i]
      BY <1>2, <2>1, <2>3
    <2>4. ASSUME NEW i \in DOMAIN f, i > n PROVE i - 1 \in DOMAIN g /\ g[i - 1] = f[i]
      <3>1. i - 1 \in n .. Len(f) - 1 /\ (i - 1) + 1 = i
        BY <1>2, <2>4
      <3> QED
        BY <1>2, <2>1, <3>1
    <2> QED
      BY <1>2, <1>3, <2>2, <2>3, <2>4 DEF LineDropped
  <1>4. CASE r # EmptyRecord
    BY <1>2, <1>4 DEF LinesReplaced, LineChanged
  <1> QED
    BY <1>2, <1>3, <1>4

\* Replacing the line of a key makes no second line of a key.
LEMMA ReplacedUnique ==
    ASSUME NEW f \in Seq(Line), NEW n \in DOMAIN f, NEW k \in Key, NEW r \in Record,
           f[n].key = k, NEW g, g = Replaced(f, n, k, r), NEW l \in Key, OneLine(f, l)
    PROVE  OneLine(g, l)
  <1>1. LinesReplaced(f, n, k, r, g)
    BY ReplacedLines
  <1>2. CASE r = EmptyRecord
    <2> SUFFICES ASSUME NEW i \in DOMAIN g, NEW j \in DOMAIN g, g[i].key = l, g[j].key = l
                 PROVE  i = j
      BY DEF OneLine
    <2>0. LineDropped(f, n, g)
      BY <1>1, <1>2, ReplacedOrder
    <2>1. DOMAIN f = 1 .. Len(f) /\ Len(f) \in Nat /\ DOMAIN g = 1 .. Len(g) /\ Len(g) \in Nat
      BY <1>1, ReplacedOrder
    <2>2. \/ i < n /\ i \in DOMAIN f /\ f[i].key = l
          \/ i >= n /\ i + 1 \in DOMAIN f /\ f[i + 1].key = l
      BY <2>0 DEF LineDropped
    <2>3. \/ j < n /\ j \in DOMAIN f /\ f[j].key = l
          \/ j >= n /\ j + 1 \in DOMAIN f /\ f[j + 1].key = l
      BY <2>0 DEF LineDropped
    <2>4. \A a, b \in DOMAIN f : f[a].key = l /\ f[b].key = l => a = b
      BY DEF OneLine
    <2> QED
      BY <2>1, <2>2, <2>3, <2>4
  <1>3. CASE r # EmptyRecord
    <2>0. LineChanged(f, n, [key |-> k, record |-> r], g)
      BY <1>1, <1>3, ReplacedOrder
    <2>1. DOMAIN g = DOMAIN f /\ \A m \in DOMAIN f : g[m].key = f[m].key
      BY <2>0 DEF LineChanged
    <2> QED
      BY <2>1 DEF OneLine
  <1> QED
    BY <1>2, <1>3

\* A lookup finds the first line that has the key.
LEMMA LookupIs ==
    ASSUME NEW f \in Seq(Line), f # Missing, NEW k \in Key
    PROVE  /\ \A n \in DOMAIN f :
                 First(f, k, n) => Position(f, k) = n /\ Lookup(f, k) = f[n].record
           /\ NoLine(f, k) => Position(f, k) = 0 /\ Lookup(f, k) = EmptyRecord
           /\ NoLine(f, k) \/ \E n \in DOMAIN f : First(f, k, n)
  <1>1. Matches(f, k) = {n \in DOMAIN f : f[n].key = k}
    BY DEF Matches, Content
  <1>2. DOMAIN f \subseteq Nat \ {0}
    BY LenProperties
  <1>3. ASSUME NEW n \in DOMAIN f, First(f, k, n)
        PROVE  Position(f, k) = n /\ Lookup(f, k) = f[n].record
    <2>1. n \in Matches(f, k) /\ \A m \in Matches(f, k) : n <= m
      BY <1>1, <1>3 DEF First
    <2>2. Position(f, k) = CHOOSE p \in Matches(f, k) : \A m \in Matches(f, k) : p <= m
      BY <2>1 DEF Position
    <2>3. \A p \in Matches(f, k) : (\A m \in Matches(f, k) : p <= m) => p = n
      BY <1>1, <1>2, <2>1
    <2>4. Position(f, k) = n
      BY <2>1, <2>2, <2>3
    <2> QED
      BY <1>2, <2>4 DEF Lookup, RecordAt
  <1>4. ASSUME NoLine(f, k) PROVE Position(f, k) = 0 /\ Lookup(f, k) = EmptyRecord
    BY <1>1, <1>4 DEF NoLine, Position, Lookup, RecordAt
  <1>5. ASSUME ~ NoLine(f, k) PROVE \E n \in DOMAIN f : First(f, k, n)
    <2>1. Matches(f, k) \in SUBSET Nat /\ Matches(f, k) # {}
      BY <1>1, <1>2, <1>5 DEF NoLine
    <2>2. PICK n \in Matches(f, k) : \A m \in Matches(f, k) : n <= m
      BY <2>1, Least
    <2> QED
      BY <1>1, <2>2 DEF First
  <1> QED
    BY <1>3, <1>4, <1>5

\* What FindRecordUnsafe returns, of a file that may be missing: from position
\* 0, the record of no line.
LEMMA LookupType ==
    ASSUME NEW f \in {Missing} \cup Seq(Line), NEW k \in Key
    PROVE  /\ Lookup(f, k) \in Record /\ Position(f, k) \in Nat
           /\ Content(f) \in Seq(Line) /\ Content(f) # Missing
           /\ Lookup(Content(f), k) = Lookup(f, k)
           /\ Lookup(f, k) = RecordAt(f, Position(f, k)) /\ RecordAt(f, 0) = EmptyRecord
           /\ Position(f, k) = 0 => NoLine(Content(f), k) /\ Lookup(f, k) = EmptyRecord
           /\ Position(f, k) # 0 =>
                 /\ f # Missing /\ f \in Seq(Line) /\ Content(f) = f
                 /\ Position(f, k) \in DOMAIN f
                 /\ First(f, k, Position(f, k))
                 /\ Lookup(f, k) = f[Position(f, k)].record
  <1>0. EmptyRecord \in Record /\ Lookup(f, k) = RecordAt(f, Position(f, k))
        /\ RecordAt(f, 0) = EmptyRecord
    BY DEF EmptyRecord, Record, Lookup, RecordAt
  <1>c. Content(f) \in Seq(Line) /\ Content(f) # Missing
    <2>1. Content(f) \in Seq(Line)
      BY EmptySeq DEF Content
    <2> QED
      BY <2>1, PlainTextDbAssumption
  <1>1. CASE f = Missing
    <2>1. Content(f) = <<>> /\ Matches(f, k) = {} /\ NoLine(Content(f), k)
      BY <1>1, EmptySeq DEF Content, Matches, NoLine
    <2>2. Position(f, k) = 0
      BY <2>1 DEF Position
    <2>3. Lookup(Content(f), k) = EmptyRecord
      BY <1>c, <2>1, LookupIs
    <2> QED
      BY <1>0, <1>c, <2>1, <2>2, <2>3 DEF Lookup, RecordAt
  <1>2. CASE f # Missing
    <2>1. f \in Seq(Line) /\ Content(f) = f
      BY <1>2 DEF Content
    <2>2. CASE \E n \in DOMAIN f : First(f, k, n)
      <3>1. PICK n \in DOMAIN f : First(f, k, n)
        BY <2>2
      <3>2. Position(f, k) = n /\ Lookup(f, k) = f[n].record
        BY <1>2, <2>1, <3>1, LookupIs
      <3>3. n \in Nat \ {0} /\ f[n] \in Line
        BY <2>1, <3>1
      <3> QED
        BY <1>0, <1>c, <1>2, <2>1, <3>1, <3>2, <3>3 DEF Line
    <2>3. CASE NoLine(f, k)
      BY <1>0, <1>c, <1>2, <2>1, <2>3, LookupIs
    <2> QED
      BY <1>2, <2>1, <2>2, <2>3, LookupIs
  <1> QED
    BY <1>1, <1>2

\* Appending a line changes what is found under its key, if that had none, and
\* under no other.
LEMMA AppendedLookup ==
    ASSUME NEW f \in {Missing} \cup Seq(Line), NEW k \in Key, NEW r \in Record, NEW l \in Key
    PROVE  Lookup(Content(f) \o LineOf(k, r), l) =
               IF l = k /\ NoLine(Content(f), k) THEN r ELSE Lookup(f, l)
  <1> DEFINE c == Content(f)
             g == c \o LineOf(k, r)
  <1> SUFFICES Lookup(g, l) = IF l = k /\ NoLine(c, k) THEN r ELSE Lookup(f, l)
    OBVIOUS
  <1>1. c \in Seq(Line) /\ c # Missing /\ Lookup(c, l) = Lookup(f, l)
    BY LookupType
  <1>2. LinesAppended(c, k, r, g)
    BY <1>1, Appended
  <1>3. g \in Seq(Line) /\ g # Missing
    BY <1>2, PlainTextDbAssumption DEF LinesAppended
  <1> HIDE DEF c, g
  <1>4. CASE r = EmptyRecord
    <2>1. g = c
      BY <1>2, <1>4 DEF LinesAppended
    <2>2. NoLine(c, k) => Lookup(c, k) = EmptyRecord
      BY <1>1, LookupIs
    <2> QED
      BY <1>1, <1>4, <2>1, <2>2
  <1>5. CASE r # EmptyRecord
    <2>1. /\ DOMAIN c = 1 .. Len(c) /\ DOMAIN g = 1 .. Len(c) + 1 /\ Len(c) \in Nat
          /\ \A n \in 1 .. Len(c) : g[n] = c[n]
          /\ g[Len(c) + 1] = [key |-> k, record |-> r]
      BY <1>1, <1>2, <1>3, <1>5, LenProperties DEF LinesAppended
    <2>2. CASE \E n \in DOMAIN c : First(c, l, n)
      <3>1. PICK n \in DOMAIN c : First(c, l, n)
        BY <2>2
      <3>2. n \in DOMAIN g /\ g[n] = c[n] /\ First(g, l, n)
        <4>1. /\ n \in 1 .. Len(c) /\ c[n].key = l
              /\ \A m \in 1 .. Len(c) : c[m].key = l => n <= m
          BY <2>1, <3>1 DEF First
        <4>2. n \in DOMAIN g /\ g[n] = c[n]
          BY <2>1, <4>1
        <4>3. \A m \in 1 .. Len(c) + 1 : g[m].key = l => n <= m
          BY <2>1, <4>1
        <4> QED
          BY <2>1, <4>1, <4>2, <4>3 DEF First
      <3>3. Lookup(g, l) = g[n].record /\ Lookup(c, l) = c[n].record
        BY <1>1, <1>3, <3>1, <3>2, LookupIs
      <3>4. ~ NoLine(c, l)
        BY <3>1 DEF NoLine, First
      <3> QED
        BY <1>1, <3>2, <3>3, <3>4
    <2>3. CASE NoLine(c, l)
      <3>1. Lookup(c, l) = EmptyRecord
        BY <1>1, <2>3, LookupIs
      <3>2. CASE l = k
        <4>1. Len(c) + 1 \in DOMAIN g /\ First(g, l, Len(c) + 1)
          BY <2>1, <2>3, <3>2 DEF First, NoLine
        <4>2. Lookup(g, l) = g[Len(c) + 1].record
          BY <1>3, <4>1, LookupIs
        <4> QED
          BY <2>1, <2>3, <3>2, <4>2
      <3>3. CASE l # k
        <4>1. NoLine(g, l)
          BY <2>1, <2>3, <3>3 DEF NoLine
        <4>2. Lookup(g, l) = EmptyRecord
          BY <1>3, <4>1, LookupIs
        <4> QED
          BY <1>1, <3>1, <3>3, <4>2
      <3> QED
        BY <3>2, <3>3
    <2> QED
      BY <1>1, <2>2, <2>3, LookupIs
  <1> QED
    BY <1>4, <1>5

\* Replacing the first line of a key changes what is found under that key only;
\* taking it away may uncover a second one.
LEMMA ReplacedLookup ==
    ASSUME NEW f \in Seq(Line), f # Missing, NEW k \in Key, NEW n \in DOMAIN f,
           First(f, k, n), NEW r \in Record, NEW g, g = Replaced(f, n, k, r), NEW l \in Key
    PROVE  /\ g \in Seq(Line) /\ g # Missing
           /\ l # k => Lookup(g, l) = Lookup(f, l)
           /\ l = k /\ OneLine(f, k) => Lookup(g, l) = r
  <1>1. LinesReplaced(f, n, k, r, g)
    BY ReplacedLines
  <1>2. g \in Seq(Line) /\ g # Missing
    BY <1>1, PlainTextDbAssumption DEF LinesReplaced
  <1>3. DOMAIN f = 1 .. Len(f) /\ Len(f) \in Nat /\ DOMAIN g = 1 .. Len(g) /\ Len(g) \in Nat
    BY <1>1, ReplacedOrder
  <1>4. f[n].key = k
    BY DEF First
  <1>d. r = EmptyRecord => LineDropped(f, n, g)
    BY <1>1, ReplacedOrder
  <1>e. r # EmptyRecord => LineChanged(f, n, [key |-> k, record |-> r], g)
    BY <1>1, ReplacedOrder
  <1>5. ASSUME l # k, NoLine(f, l) PROVE Lookup(g, l) = Lookup(f, l)
    <2>1. NoLine(g, l)
      <3>1. CASE r = EmptyRecord
        BY <1>d, <1>5, <3>1 DEF NoLine, LineDropped
      <3>2. CASE r # EmptyRecord
        BY <1>e, <1>5, <3>2 DEF NoLine, LineChanged
      <3> QED
        BY <3>1, <3>2
    <2> QED
      BY <1>2, <1>5, <2>1, LookupIs
  <1>6. ASSUME l # k, NEW i \in DOMAIN f, First(f, l, i) PROVE Lookup(g, l) = Lookup(f, l)
    <2>1. i # n /\ f[i].key = l /\ \A j \in DOMAIN f : f[j].key = l => i <= j
      BY <1>4, <1>6 DEF First
    <2>2. PICK m \in DOMAIN g : g[m] = f[i] /\ First(g, l, m)
      <3>1. CASE r = EmptyRecord /\ i < n
        <4>1. i \in DOMAIN g /\ g[i] = f[i]
          BY <1>d, <3>1 DEF LineDropped
        <4>2. ASSUME NEW j \in DOMAIN g, g[j].key = l PROVE i <= j
          <5>1. \/ j < n /\ j \in DOMAIN f /\ g[j] = f[j]
                \/ j >= n /\ j + 1 \in DOMAIN f /\ g[j] = f[j + 1]
            BY <1>d, <3>1 DEF LineDropped
          <5> QED
            BY <1>3, <2>1, <3>1, <4>2, <5>1
        <4> QED
          BY <2>1, <4>1, <4>2 DEF First
      <3>2. CASE r = EmptyRecord /\ i > n
        <4>1. i - 1 \in DOMAIN g /\ g[i - 1] = f[i]
          BY <1>d, <3>2 DEF LineDropped
        <4>2. ASSUME NEW j \in DOMAIN g, g[j].key = l PROVE i - 1 <= j
          <5>1. \/ j < n /\ j \in DOMAIN f /\ g[j] = f[j]
                \/ j >= n /\ j + 1 \in DOMAIN f /\ g[j] = f[j + 1]
            BY <1>d, <3>2 DEF LineDropped
          <5> QED
            BY <1>3, <2>1, <3>2, <4>2, <5>1
        <4> QED
          BY <2>1, <4>1, <4>2 DEF First
      <3>3. CASE r # EmptyRecord
        <4>1. /\ DOMAIN g = DOMAIN f /\ \A j \in DOMAIN f : j # n => g[j] = f[j]
              /\ g[n].key = k
          BY <1>e, <3>3 DEF LineChanged
        <4>2. i \in DOMAIN g /\ g[i] = f[i] /\ First(g, l, i)
          BY <1>6, <2>1, <4>1 DEF First
        <4> QED
          BY <4>2
      <3> QED
        BY <1>3, <2>1, <3>1, <3>2, <3>3
    <2>3. Lookup(g, l) = g[m].record /\ Lookup(f, l) = f[i].record
      BY <1>2, <1>6, <2>2, LookupIs
    <2> QED
      BY <2>2, <2>3
  <1>7. ASSUME l = k, OneLine(f, k) PROVE Lookup(g, l) = r
    <2>1. \A j \in DOMAIN f : j # n => f[j].key # k
      BY <1>4, <1>7 DEF OneLine
    <2>2. CASE r = EmptyRecord
      <3>1. NoLine(g, k)
        <4> SUFFICES ASSUME NEW j \in DOMAIN g PROVE g[j].key # k
          BY DEF NoLine
        <4>1. \/ j < n /\ j \in DOMAIN f /\ g[j] = f[j]
              \/ j >= n /\ j + 1 \in DOMAIN f /\ g[j] = f[j + 1]
          BY <1>d, <2>2 DEF LineDropped
        <4> QED
          BY <1>3, <2>1, <4>1
      <3> QED
        BY <1>2, <1>7, <2>2, <3>1, LookupIs
    <2>3. CASE r # EmptyRecord
      <3>1. /\ DOMAIN g = DOMAIN f /\ \A j \in DOMAIN f : j # n => g[j] = f[j]
            /\ g[n] = [key |-> k, record |-> r]
        BY <1>e, <2>3 DEF LineChanged
      <3>2. n \in DOMAIN g /\ First(g, k, n)
        BY <1>3, <2>1, <3>1 DEF First
      <3>3. Lookup(g, k) = g[n].record
        BY <1>2, <3>2, LookupIs
      <3> QED
        BY <1>7, <3>1, <3>3
    <2> QED
      BY <2>2, <2>3
  <1> QED
    BY <1>2, <1>5, <1>6, <1>7, LookupIs

------------------------------------------------------------------------------
(* The invariant.                                                           *)

\* Thread t has an operation that has still to write.
Unfinished(t) == call[t] # NoCall /\ call[t].at # "return"

\* What the record that UpdateRecord hands back says of the one to be written:
\* it is the same, and no id of the old record is lost that was not overlooked.
ResultOf(t) ==
    \/ call[t].result = EmptyRecord
    \/ /\ call[t].result = call[t].new
       /\ call[t].key \in misread \/ \A i \in Id : ~ Has(call[t].new, i) => ~ Has(Lookup(file, call[t].key), i)

\* What an operation knows of the file goes on being true until it writes: it
\* is in its section, where no other thread writes.
CallInv(t) ==
    /\ call[t] # NoCall => pc[t] \in {"x_held", "s_held"}
    /\ Unfinished(t) => pc[t] = "x_held" /\ answer[t] = NoAnswer
    /\ call[t] = NoCall => answer[t] = NoAnswer
    /\ At(t, "append") => call[t].key \in misread \/ NoLine(Content(file), call[t].key)
    /\ At(t, "temp") \/ At(t, "remove") =>
          file # Missing /\ First(file, call[t].key, call[t].pos)
    /\ At(t, "remove") => temp = Replaced(file, call[t].pos, call[t].key, call[t].new)
    /\ At(t, "rename") => temp # Missing
    /\ Unfinished(t) /\ ~ At(t, "rename") => ResultOf(t)

DbTypes ==
    /\ file \in {Missing} \cup Seq(Line)
    /\ temp \in {Missing} \cup Seq(Line)
    /\ call \in [Thread -> Call \cup {NoCall}]
    /\ answer \in [Thread -> {NoAnswer} \cup [ok : BOOLEAN, record : Record]]
    /\ misread \subseteq Key

\* A key that was not misread has one line or none.
LinesInv(k) == OneLine(Content(file), k) /\ OneLine(Content(temp), k)

DbInv ==
    /\ DbTypes
    /\ \A k \in Key \ misread : LinesInv(k)
    /\ \A t \in Thread : CallInv(t)

\* The lock's part of the invariant, as far as it is needed here.
Locked == pc \in [Thread -> LP!PC] /\ LP!WritersExclusion

\* The records that are written are records.
LEMMA RecordTypes ==
    /\ EmptyRecord \in Record
    /\ \A i \in Id, v \in Value : Single(i, v) \in Record
    /\ \A r, q \in Record : Merge(r, q) \in Record
    /\ \A r \in Record, i \in Id : EraseValues(r, i) \in Record
  BY DEF Record, EmptyRecord, Single, Merge, EraseValues, Has

\* The initial state satisfies the invariant.
LEMMA InitDbInv == Init => DbInv
  <1> SUFFICES ASSUME Init PROVE DbInv
    OBVIOUS
  <1>1. Content(file) = <<>> /\ Content(temp) = <<>> /\ DOMAIN <<>> = {}
    BY EmptySeq DEF Init, Content
  <1>2. \A k \in Key : LinesInv(k)
    BY <1>1 DEF OneLine, LinesInv
  <1> QED
    BY <1>2 DEF Init, DbInv, DbTypes, CallInv, Unfinished, At

\* While a thread is in an exclusive section, no other has something to write.
LEMMA OnlyWriter ==
    ASSUME Locked, NEW t \in Thread, pc[t] = "x_held",
           NEW u \in Thread, u # t, CallInv(u)
    PROVE  ~ Unfinished(u)
  BY DEF Locked, LP!WritersExclusion, LP!InExclusive, CallInv

\* A thread with nothing to write keeps its part of the invariant, whatever
\* becomes of the files.
LEMMA OthersKeep ==
    ASSUME NEW u \in Thread, CallInv(u), ~ Unfinished(u),
           call'[u] = call[u], answer'[u] = answer[u],
           call[u] = NoCall \/ pc'[u] = pc[u]
    PROVE  CallInv(u)'
  BY DEF CallInv, Unfinished, At

\* While the files stay as they are, any thread does.
LEMMA OthersWait ==
    ASSUME NEW u \in Thread, CallInv(u),
           call'[u] = call[u], answer'[u] = answer[u],
           call[u] = NoCall \/ pc'[u] = pc[u], UNCHANGED <<file, temp>>,
           misread \subseteq misread'
    PROVE  CallInv(u)'
  <1>1. /\ Content(file)' = Content(file)
        /\ call[u] # NoCall => Lookup(file, call[u].key)' = Lookup(file, call[u].key)
    BY DEF Lookup, RecordAt, Position, Matches, Content
  <1>2. Unfinished(u)' <=> Unfinished(u)
    BY DEF Unfinished
  <1>3. \A l \in {"append", "temp", "remove", "rename"} : At(u, l)' <=> At(u, l)
    BY DEF At
  <1>4. Unfinished(u) /\ ResultOf(u) => ResultOf(u)'
    BY <1>1 DEF Unfinished, ResultOf
  <1>5. At(u, "append") /\ (call[u].key \in misread \/ NoLine(Content(file), call[u].key))
            => call'[u].key \in misread' \/ NoLine(Content(file)', call'[u].key)
    BY <1>1
  <1>6. CASE call[u] = NoCall
    BY <1>6 DEF CallInv, Unfinished, At
  <1>7. CASE call[u] # NoCall
    <2>1. pc'[u] = pc[u]
      BY <1>7
    <2>2. At(u, "temp") \/ At(u, "remove") =>
              file' # Missing /\ First(file', call'[u].key, call'[u].pos)
      BY DEF CallInv
    <2>3. At(u, "remove") => temp' = Replaced(file', call'[u].pos, call'[u].key, call'[u].new)
      BY DEF CallInv
    <2> QED
      BY <1>2, <1>3, <1>4, <1>5, <2>1, <2>2, <2>3 DEF CallInv
  <1> QED
    BY <1>6, <1>7

\* Lock steps are taken outside the section, by one thread.
LEMMA LockStepEffect ==
    ASSUME NEW t \in Thread, LockStep(t), Locked
    PROVE  /\ pc[t] \notin {"x_held", "s_held"}
           /\ \A u \in Thread \ {t} : pc'[u] = pc[u]
           /\ UNCHANGED dbVars
  <1>1. /\ pc[t] \notin {"x_held", "s_held"}
        /\ \E l : pc' = [pc EXCEPT ![t] = l]
    <2>1. CASE LockShared(t)
      BY <2>1 DEF LockShared, Lock!TryLockSharedFor, Lock!SharedMutexAcquired,
         Lock!SharedMutexTimeout, Lock!SharedFlockAcquired, Lock!SharedFlockFailed, Lock!Goto
    <2>2. CASE LockExclusive(t)
      BY <2>2 DEF LockExclusive, Lock!TryLockFor, Lock!MutexAcquired,
         Lock!MutexTimeout, Lock!FlockAcquired, Lock!FlockFailed, Lock!Goto
    <2>3. CASE Lock!UnlockMutex(t) \/ Lock!UnlockSharedMutex(t)
      BY <2>3 DEF Lock!UnlockMutex, Lock!UnlockSharedMutex, Lock!Goto
    <2> QED
      BY <2>1, <2>2, <2>3 DEF LockStep
  <1> QED
    BY <1>1 DEF Locked, LockStep

\* The beginning of FlushUnsafe: what was read of the file is recorded.
LEMMA FlushKeeps ==
    ASSUME DbInv, Locked, NEW t \in Thread, pc[t] = "x_held", call[t] = NoCall,
           NEW k \in Key, NEW n \in Scans(file, k), NEW new \in Record,
           NEW result \in {EmptyRecord, new},
           result # EmptyRecord /\ n = Position(file, k) =>
               \A i \in Id : ~ Has(new, i) => ~ Has(Lookup(file, k), i),
           Flush(t, k, n, new, result), UNCHANGED <<lockVars, file, temp>>
    PROVE  DbInv'
  <1> DEFINE c == [at |-> IF n = 0 THEN "append" ELSE "temp",
                   key |-> k, new |-> new, pos |-> n, result |-> result]
  <1>0. n = Position(file, k) \/ n = 0
    BY DEF Scans
  <1>1. /\ n \in Nat
        /\ n = 0 => n # Position(file, k) \/ NoLine(Content(file), k)
        /\ n # 0 => file # Missing /\ First(file, k, n)
    BY <1>0, LookupType DEF DbInv, DbTypes
  <1>2. c \in Call
    BY <1>1, RecordTypes DEF Call
  <1>3. /\ call' = [call EXCEPT ![t] = c] /\ call \in [Thread -> Call \cup {NoCall}]
        /\ misread' = IF n = Position(file, k) THEN misread ELSE misread \cup {k}
        /\ misread \subseteq misread' /\ misread' \subseteq Key
        /\ n # Position(file, k) => k \in misread'
        /\ UNCHANGED <<answer, file, temp, pc>>
    BY DEF Flush, DbInv, DbTypes, lockVars
  <1>4. call'[t] = c /\ \A u \in Thread \ {t} : call'[u] = call[u]
    BY <1>3
  <1>5. c.key = k /\ c.new = new /\ c.result = result /\ c.pos = n
        /\ c.at = IF n = 0 THEN "append" ELSE "temp"
    OBVIOUS
  <1> HIDE DEF c
  <1>6. DbTypes'
    BY <1>2, <1>3 DEF DbInv, DbTypes
  <1>7. Content(file)' = Content(file) /\ Content(temp)' = Content(temp)
        /\ Lookup(file, k)' = Lookup(file, k)
    BY <1>3 DEF Content, Lookup, RecordAt, Position, Matches
  <1>8. CallInv(t)'
    <2>1. ResultOf(t)'
      BY <1>3, <1>4, <1>5, <1>7 DEF ResultOf
    <2>2. answer'[t] = NoAnswer /\ pc'[t] = "x_held"
      BY <1>3 DEF DbInv, CallInv
    <2>3. c # NoCall
      BY <1>2, PlainTextDbAssumption
    <2>4. c.at \in {"append", "temp"}
      BY <1>5
    <2>5. At(t, "append")' => call'[t].key \in misread' \/ NoLine(Content(file)', call'[t].key)
      BY <1>1, <1>3, <1>4, <1>5, <1>7 DEF At
    <2>6. At(t, "temp")' => file' # Missing /\ First(file', call'[t].key, call'[t].pos)
      BY <1>1, <1>3, <1>4, <1>5 DEF At
    <2> QED
      BY <1>4, <2>1, <2>2, <2>3, <2>4, <2>5, <2>6 DEF CallInv, Unfinished, At
  <1>9. \A u \in Thread \ {t} : CallInv(u)'
    BY <1>3, <1>4, OthersWait DEF DbInv
  <1> QED
    BY <1>3, <1>6, <1>7, <1>8, <1>9 DEF DbInv, LinesInv

\* The end of an operation: there is nothing more to write.
LEMMA FinishKeeps ==
    ASSUME DbInv, Locked, NEW t \in Thread, pc[t] = "x_held", call[t] # NoCall,
           NEW ok \in BOOLEAN, NEW r \in Record, Finish(t, ok, r), UNCHANGED pc,
           file' \in {Missing} \cup Seq(Line), temp' \in {Missing} \cup Seq(Line),
           misread' = misread, \A k \in Key \ misread : LinesInv(k)'
    PROVE  DbInv'
  <1>1. call[t] \in Call /\ call \in [Thread -> Call \cup {NoCall}]
        /\ answer \in [Thread -> {NoAnswer} \cup [ok : BOOLEAN, record : Record]]
    BY DEF DbInv, DbTypes
  <1>2. /\ call' = [call EXCEPT ![t] = [call[t] EXCEPT !.at = "return"]]
        /\ answer' = [answer EXCEPT ![t] = [ok |-> ok, record |-> r]]
    BY DEF Finish, Answers
  <1>3. [call[t] EXCEPT !.at = "return"] \in Call /\ [call[t] EXCEPT !.at = "return"].at = "return"
    BY <1>1 DEF Call
  <1>4. DbTypes'
    BY <1>1, <1>2, <1>3 DEF DbTypes, DbInv
  <1>5. CallInv(t)'
    <2>1. call'[t] \in Call /\ call'[t].at = "return"
      BY <1>1, <1>2, <1>3
    <2> QED
      BY <2>1, PlainTextDbAssumption DEF CallInv, Unfinished, At
  <1>6. ASSUME NEW u \in Thread \ {t} PROVE CallInv(u)'
    <2>1. call'[u] = call[u] /\ answer'[u] = answer[u] /\ CallInv(u)
      BY <1>1, <1>2 DEF DbInv
    <2>2. ~ Unfinished(u)
      BY <2>1, OnlyWriter
    <2> QED
      BY <2>1, <2>2, OthersKeep
  <1> QED
    BY <1>4, <1>5, <1>6 DEF DbInv

\* An operation that has nothing to write answers at once.
LEMMA AnswerKeeps ==
    ASSUME DbInv, Locked, NEW t \in Thread, pc[t] \in {"x_held", "s_held"},
           NEW k \in Key, NEW ok \in BOOLEAN, NEW r \in Record, Answers(t, ok, r),
           call' = [call EXCEPT ![t] = [at |-> "return", key |-> k, new |-> EmptyRecord,
                                        pos |-> 0, result |-> EmptyRecord]],
           UNCHANGED <<lockVars, file, temp, misread>>
    PROVE  DbInv'
  <1> DEFINE c == [at |-> "return", key |-> k, new |-> EmptyRecord,
                   pos |-> 0, result |-> EmptyRecord]
  <1>1. c \in Call /\ c.at = "return"
    BY RecordTypes DEF Call
  <1>2. /\ call' = [call EXCEPT ![t] = c] /\ call \in [Thread -> Call \cup {NoCall}]
        /\ answer' = [answer EXCEPT ![t] = [ok |-> ok, record |-> r]]
        /\ answer \in [Thread -> {NoAnswer} \cup [ok : BOOLEAN, record : Record]]
        /\ UNCHANGED <<file, temp, pc, misread>>
    BY DEF DbInv, DbTypes, Answers, lockVars
  <1> HIDE DEF c
  <1>3. DbTypes'
    BY <1>1, <1>2 DEF DbInv, DbTypes
  <1>4. Content(file)' = Content(file) /\ Content(temp)' = Content(temp)
    BY <1>2 DEF Content
  <1>5. CallInv(t)'
    <2>1. call'[t] = c /\ c # NoCall
      BY <1>1, <1>2, PlainTextDbAssumption
    <2> QED
      BY <1>1, <1>2, <2>1 DEF CallInv, Unfinished, At
  <1>6. \A u \in Thread \ {t} : CallInv(u)'
    BY <1>2, OthersWait DEF DbInv
  <1> QED
    BY <1>2, <1>3, <1>4, <1>5, <1>6 DEF DbInv, LinesInv

\* Every step of FlushUnsafe keeps the invariant.
LEMMA FlushStepKeeps ==
    ASSUME DbInv, Locked, NEW t \in Thread, FlushUnsafe(t)
    PROVE  DbInv'
  <1>0. Unfinished(t) /\ pc[t] = "x_held" /\ call[t] # NoCall /\ call[t] \in Call
        /\ call[t].key \in Key /\ call[t].new \in Record /\ call[t].result \in Record
        /\ UNCHANGED lockVars /\ misread' = misread /\ CallInv(t)
    BY DEF FlushUnsafe, AppendLine, WriteTemp, RemoveFile, RenameTemp, Unwritable, At,
       Unfinished, DbInv, DbTypes, CallInv, Call
  <1>t. /\ file \in {Missing} \cup Seq(Line) /\ temp \in {Missing} \cup Seq(Line)
        /\ \A k \in Key \ misread : OneLine(Content(file), k) /\ OneLine(Content(temp), k)
        /\ EmptyRecord \in Record
    BY RecordTypes DEF DbInv, DbTypes, LinesInv
  <1>u. UNCHANGED pc
    BY <1>0 DEF lockVars
  <1>1. CASE AppendLine(t)
    <2>1. Content(file) \in Seq(Line)
      BY <1>t, EmptySeq DEF Content
    <2>2. call[t].key \in misread \/ NoLine(Content(file), call[t].key)
      BY <1>0, <1>1 DEF AppendLine, CallInv
    <2>3. /\ file' \in Seq(Line)
          /\ \A k \in Key \ misread : OneLine(file', k)
      <3>1. /\ LinesAppended(Content(file), call[t].key, call[t].new, file')
            /\ \A k \in Key :
                  OneLine(Content(file), k) /\ (k = call[t].key => NoLine(Content(file), call[t].key))
                      => OneLine(file', k)
        BY <1>0, <1>1, <2>1, Appended DEF AppendLine
      <3> QED
        BY <1>t, <2>2, <3>1 DEF LinesAppended
    <2>4. Content(file)' = file' /\ Content(temp)' = Content(temp) /\ temp' = temp
      BY <1>1, <2>3, PlainTextDbAssumption DEF Content, AppendLine
    <2>5. \A k \in Key \ misread : LinesInv(k)'
      BY <1>t, <2>3, <2>4 DEF LinesInv
    <2> QED
      BY <1>0, <1>1, <1>t, <1>u, <2>3, <2>4, <2>5, FinishKeeps DEF AppendLine
  <1>2. CASE WriteTemp(t)
    <2> DEFINE g == Replaced(file, call[t].pos, call[t].key, call[t].new)
    <2>1. /\ file \in Seq(Line) /\ file # Missing /\ Content(file) = file
          /\ First(file, call[t].key, call[t].pos)
          /\ call[t].pos \in DOMAIN file /\ file[call[t].pos].key = call[t].key
      BY <1>0, <1>2, <1>t DEF WriteTemp, CallInv, Content, First
    <2>2. g \in Seq(Line) /\ g # Missing
      BY <1>0, <2>1, ReplacedLookup
    <2>3. \A k \in Key \ misread : OneLine(g, k)
      BY <1>0, <1>t, <2>1, ReplacedUnique
    <2>5. /\ temp' = g /\ UNCHANGED <<file, answer>>
          /\ call' = [call EXCEPT ![t] = [call[t] EXCEPT !.at = "remove"]]
      BY <1>2 DEF WriteTemp
    <2>6. /\ [call[t] EXCEPT !.at = "remove"] \in Call
          /\ [call[t] EXCEPT !.at = "remove"].at = "remove"
          /\ [call[t] EXCEPT !.at = "remove"].key = call[t].key
          /\ [call[t] EXCEPT !.at = "remove"].new = call[t].new
          /\ [call[t] EXCEPT !.at = "remove"].pos = call[t].pos
          /\ [call[t] EXCEPT !.at = "remove"].result = call[t].result
      BY <1>0 DEF Call
    <2>7. Content(file)' = Content(file) /\ Content(temp)' = g
      BY <2>2, <2>5 DEF Content
    <2> HIDE DEF g
    <2>8. DbTypes'
      BY <1>0, <2>2, <2>5, <2>6 DEF DbTypes, DbInv
    <2>9. CallInv(t)'
      <3>1. call'[t] = [call[t] EXCEPT !.at = "remove"]
        BY <2>5 DEF DbInv, DbTypes
      <3>2. ResultOf(t)'
        <4>1. ResultOf(t)
          BY <1>0, <1>2 DEF CallInv, WriteTemp, At
        <4>2. Lookup(file', call'[t].key) = Lookup(file, call[t].key)
          BY <2>5, <2>6, <3>1
        <4> QED
          BY <1>0, <2>5, <2>6, <3>1, <4>1, <4>2 DEF ResultOf
      <3>3. temp' = Replaced(file', call'[t].pos, call'[t].key, call'[t].new)
        BY <2>5, <2>6, <3>1 DEF g
      <3>4. ~ At(t, "append")' /\ ~ At(t, "temp")' /\ ~ At(t, "rename")'
        BY <2>6, <3>1 DEF At
      <3>5. answer'[t] = NoAnswer
        BY <1>0, <2>5 DEF CallInv
      <3>6. pc'[t] = "x_held"
        BY <1>0, <1>u
      <3>7. file' # Missing /\ First(file', call'[t].key, call'[t].pos)
        BY <2>1, <2>5, <2>6, <3>1
      <3> QED
        BY <3>2, <3>3, <3>4, <3>5, <3>6, <3>7 DEF CallInv
    <2>10. ASSUME NEW u \in Thread \ {t} PROVE CallInv(u)'
      <3>1. call'[u] = call[u] /\ answer'[u] = answer[u] /\ CallInv(u)
        BY <2>5 DEF DbInv, DbTypes
      <3> QED
        BY <1>0, <1>u, <3>1, OnlyWriter, OthersKeep
    <2>11. \A k \in Key \ misread : LinesInv(k)'
      BY <1>t, <2>3, <2>7 DEF LinesInv
    <2> QED
      BY <1>0, <2>8, <2>9, <2>10, <2>11 DEF DbInv
  <1>3. CASE RemoveFile(t)
    <2>1. /\ file' = Missing /\ UNCHANGED <<temp, answer>>
          /\ call' = [call EXCEPT ![t] = [call[t] EXCEPT !.at = "rename"]]
      BY <1>3 DEF RemoveFile
    <2>2. /\ [call[t] EXCEPT !.at = "rename"] \in Call
          /\ [call[t] EXCEPT !.at = "rename"].at = "rename"
      BY <1>0 DEF Call
    <2>3. \A k \in Key : OneLine(Content(file)', k) /\ Content(temp)' = Content(temp)
      BY <2>1, EmptySeq DEF Content, OneLine
    <2>4. DbTypes'
      BY <1>0, <2>1, <2>2 DEF DbTypes, DbInv
    <2>5. CallInv(t)'
      <3>1. call'[t] = [call[t] EXCEPT !.at = "rename"]
        BY <2>1 DEF DbInv, DbTypes
      <3>2. temp # Missing
        <4>1. /\ file \in Seq(Line) /\ file # Missing /\ First(file, call[t].key, call[t].pos)
              /\ temp = Replaced(file, call[t].pos, call[t].key, call[t].new)
          BY <1>0, <1>3, <1>t DEF RemoveFile, CallInv
        <4>2. call[t].pos \in DOMAIN file
          BY <4>1 DEF First
        <4> QED
          BY <1>0, <4>1, <4>2, ReplacedLookup
      <3> QED
        BY <1>0, <1>u, <2>1, <2>2, <3>1, <3>2 DEF CallInv, Unfinished, At
    <2>6. ASSUME NEW u \in Thread \ {t} PROVE CallInv(u)'
      <3>1. call'[u] = call[u] /\ answer'[u] = answer[u] /\ CallInv(u)
        BY <2>1 DEF DbInv, DbTypes
      <3> QED
        BY <1>0, <1>u, <3>1, OnlyWriter, OthersKeep
    <2> QED
      BY <1>0, <1>t, <2>3, <2>4, <2>5, <2>6 DEF DbInv, LinesInv
  <1>4. CASE RenameTemp(t)
    <2>1. CASE file' = temp /\ temp' = Missing /\ Finish(t, TRUE, call[t].result)
      <3>1. Content(file)' = Content(temp) /\ \A k \in Key : OneLine(Content(temp)', k)
        BY <2>1, EmptySeq DEF Content, OneLine
      <3>2. \A k \in Key \ misread : LinesInv(k)'
        BY <1>t, <3>1 DEF LinesInv
      <3> QED
        BY <1>0, <1>t, <1>u, <2>1, <3>2, FinishKeeps
    <2>2. CASE UNCHANGED <<file, temp>> /\ Finish(t, FALSE, EmptyRecord)
      <3>1. \A k \in Key \ misread : LinesInv(k)'
        BY <1>t, <2>2 DEF Content, LinesInv
      <3> QED
        BY <1>0, <1>t, <1>u, <2>2, <3>1, FinishKeeps
    <2> QED
      BY <1>4, <2>1, <2>2 DEF RenameTemp
  <1>5. CASE Unwritable(t)
    <2>1. UNCHANGED <<file, temp>> /\ Finish(t, FALSE, EmptyRecord)
      BY <1>5 DEF Unwritable
    <2>2. \A k \in Key \ misread : LinesInv(k)'
      BY <1>t, <2>1 DEF Content, LinesInv
    <2> QED
      BY <1>0, <1>t, <1>u, <2>1, <2>2, FinishKeeps
  <1> QED
    BY <1>1, <1>2, <1>3, <1>4, <1>5 DEF FlushUnsafe

\* So does every operation up to it.
LEMMA OperationKeeps ==
    ASSUME DbInv, Locked, NEW t \in Thread, Operation(t)
    PROVE  DbInv'
  <1> SUFFICES ASSUME NEW k \in Key,
                      \/ FindRecord(t, k)
                      \/ \E r \in Record : StoreRecord(t, k, r)
                      \/ \E i \in Id, v \in Value : UpdateRecord(t, k, Single(i, v))
                      \/ RemoveRecord(t, k)
                      \/ \E i \in Id : Remove(t, k, i)
               PROVE  DbInv'
    BY DEF Operation
  <1>0. ASSUME NEW n \in Scans(file, k)
        PROVE  /\ RecordAt(file, n) \in Record
               /\ n = Position(file, k) => RecordAt(file, n) = Lookup(file, k)
    BY RecordTypes, LookupType DEF DbInv, DbTypes, Scans, RecordAt
  <1>1. CASE FindRecord(t, k)
    <2>1. PICK n \in Scans(file, k) :
              Answers(t, RecordAt(file, n) # EmptyRecord, RecordAt(file, n))
      BY <1>1 DEF FindRecord
    <2>2. pc[t] = "s_held" /\ (RecordAt(file, n) # EmptyRecord) \in BOOLEAN
      BY <1>1 DEF FindRecord, Begins
    <2> QED
      BY <1>0, <1>1, <2>1, <2>2, AnswerKeeps DEF FindRecord
  <1>2. ASSUME NEW r \in Record, StoreRecord(t, k, r) PROVE DbInv'
    BY <1>2, FlushKeeps DEF StoreRecord, Begins
  <1>3. ASSUME NEW i \in Id, NEW v \in Value, UpdateRecord(t, k, Single(i, v)) PROVE DbInv'
    <2>0. PICK n \in Scans(file, k) :
              Flush(t, k, n, Merge(Single(i, v), RecordAt(file, n)),
                    Merge(Single(i, v), RecordAt(file, n)))
      BY <1>3 DEF UpdateRecord
    <2> DEFINE new == Merge(Single(i, v), RecordAt(file, n))
    <2>1. new \in Record
      BY <1>0, RecordTypes
    <2>2. n = Position(file, k) =>
              \A j \in Id : ~ Has(new, j) => ~ Has(Lookup(file, k), j)
      BY <1>0 DEF Merge, Has, Record
    <2>3. /\ Begins(t, "UpdateRecord", "x_held") /\ Flush(t, k, n, new, new)
          /\ UNCHANGED <<lockVars, file, temp>>
      BY <1>3, <2>0 DEF UpdateRecord
    <2> HIDE DEF new
    <2> QED
      BY <2>1, <2>2, <2>3, FlushKeeps DEF Begins
  <1>4. CASE RemoveRecord(t, k)
    BY <1>4, RecordTypes, FlushKeeps DEF RemoveRecord, Begins
  <1>5. ASSUME NEW i \in Id, Remove(t, k, i) PROVE DbInv'
    <2>0. PICK m \in Scans(file, k), n \in Scans(file, k) :
              IF Has(RecordAt(file, m), i)
              THEN Flush(t, k, n, EraseValues(RecordAt(file, m), i), EmptyRecord)
              ELSE /\ call' = [call EXCEPT ![t] = [at |-> "return", key |-> k,
                                  new |-> EmptyRecord, pos |-> 0, result |-> EmptyRecord]]
                   /\ Answers(t, FALSE, EmptyRecord)
                   /\ UNCHANGED misread
      BY <1>5 DEF Remove
    <2>1. CASE Has(RecordAt(file, m), i)
      <3>1. EraseValues(RecordAt(file, m), i) \in Record
        BY <1>0, RecordTypes
      <3> QED
        BY <1>5, <2>0, <2>1, <3>1, FlushKeeps DEF Remove, Begins
    <2>2. CASE ~ Has(RecordAt(file, m), i)
      BY <1>5, <2>0, <2>2, RecordTypes, AnswerKeeps DEF Remove, Begins
    <2> QED
      BY <2>1, <2>2
  <1> QED
    BY <1>1, <1>2, <1>3, <1>4, <1>5

\* So does entering and leaving the section, and the death of a process.
LEMMA OtherStepsKeep ==
    ASSUME DbInv, Locked
    PROVE  /\ \A t \in Thread : LockStep(t) \/ Leave(t) => DbInv'
           /\ \A p \in Process : Crash(p) => DbInv'
           /\ UNCHANGED vars => DbInv'
  <1>1. ASSUME UNCHANGED <<file, temp, misread>>, DbTypes', \A u \in Thread : CallInv(u)'
        PROVE  DbInv'
    BY <1>1 DEF DbInv, LinesInv, Content
  <1>2. ASSUME NEW t \in Thread, LockStep(t) PROVE DbInv'
    <2>1. /\ pc[t] \notin {"x_held", "s_held"} /\ UNCHANGED dbVars
          /\ \A u \in Thread \ {t} : pc'[u] = pc[u]
      BY <1>2, LockStepEffect
    <2>2. call[t] = NoCall
      BY <2>1 DEF DbInv, CallInv
    <2>3. \A u \in Thread : CallInv(u)'
      BY <2>1, <2>2, OthersWait DEF DbInv, dbVars
    <2> QED
      BY <1>1, <2>1, <2>3 DEF DbInv, DbTypes, dbVars
  <1>3. ASSUME NEW t \in Thread, Leave(t) PROVE DbInv'
    <2>1. /\ call' = [call EXCEPT ![t] = NoCall]
          /\ answer' = [answer EXCEPT ![t] = NoAnswer]
          /\ UNCHANGED <<file, temp, misread>>
      BY <1>3 DEF Leave
    <2>2. \A u \in Thread \ {t} : pc'[u] = pc[u]
      BY <1>3 DEF Leave, Lock!UnlockFlock, Lock!UnlockSharedFlock, Lock!Goto, Locked
    <2>3. DbTypes'
      BY <2>1 DEF DbInv, DbTypes
    <2>4. call'[t] = NoCall /\ answer'[t] = NoAnswer
      BY <2>1 DEF DbInv, DbTypes
    <2>5. CallInv(t)'
      BY <2>4 DEF CallInv, Unfinished, At
    <2>6. ASSUME NEW u \in Thread \ {t} PROVE CallInv(u)'
      BY <2>1, <2>2, OthersWait DEF DbInv, DbTypes
    <2> QED
      BY <1>1, <2>1, <2>3, <2>5, <2>6
  <1>4. ASSUME NEW p \in Process, Crash(p) PROVE DbInv'
    <2>1. /\ pc' = [t \in Thread |-> IF home[t] = p THEN "idle" ELSE pc[t]]
          /\ call' = [t \in Thread |-> IF home[t] = p THEN NoCall ELSE call[t]]
          /\ answer' = [t \in Thread |-> IF home[t] = p THEN NoAnswer ELSE answer[t]]
          /\ UNCHANGED <<file, temp, misread>>
      BY <1>4 DEF Crash, Lock!Crash
    <2>2. DbTypes'
      BY <2>1 DEF DbInv, DbTypes
    <2>3. ASSUME NEW u \in Thread PROVE CallInv(u)'
      <3>1. CASE home[u] = p
        <4>1. call'[u] = NoCall /\ answer'[u] = NoAnswer
          BY <2>1, <3>1
        <4> QED
          BY <4>1 DEF CallInv, Unfinished, At
      <3>2. CASE home[u] # p
        BY <2>1, <3>2, OthersWait DEF DbInv
      <3> QED
        BY <3>1, <3>2
    <2> QED
      BY <1>1, <2>1, <2>2, <2>3
  <1>5. ASSUME UNCHANGED vars PROVE DbInv'
    <2>1. \A u \in Thread : CallInv(u)'
      BY <1>5, OthersWait DEF DbInv, vars, dbVars, lockVars
    <2> QED
      BY <1>1, <1>5, <2>1 DEF DbInv, DbTypes, vars, dbVars
  <1> QED
    BY <1>2, <1>3, <1>4, <1>5

\* The invariant holds at all times.
LEMMA Invariance == Spec => [](DbInv /\ Locked /\ LP!TypeOK)
  <1>1. LP!TimedInv /\ LP!WritersExclusion => Locked /\ LP!TypeOK
    BY DEF LP!TimedInv, LP!IInv, LP!TypeOK, Locked
  <1>2. DbInv /\ Locked /\ [Next]_vars => DbInv'
    BY FlushStepKeeps, OperationKeeps, OtherStepsKeep DEF Next
  <1> QED
    BY LockInv, InitDbInv, <1>1, <1>2, PTL DEF Spec

\* Every variable keeps its type.
THEOREM TypeCorrect == Spec => []TypeOK
  <1>1. DbInv /\ LP!TypeOK => TypeOK
    BY DEF DbInv, DbTypes, TypeOK, Lock!TypeOK, LP!TypeOK, Lock!PC, LP!PC,
       Lock!ExclusivePc, LP!ExclusivePc, Lock!SharedPc, LP!SharedPc, Lock!StdLockPc, LP!StdLockPc
  <1> QED
    BY Invariance, <1>1, PTL

\* No key has two lines in the database or its replacement, whatever fails but
\* its own lookup of an operation that writes.
THEOREM KeysStayUnique == Spec => []NoDuplicateKeys
  <1>1. DbInv => NoDuplicateKeys
    <2> SUFFICES ASSUME DbInv, NEW k \in Key \ misread, NEW f \in {file, temp} \ {Missing},
                        NEW m \in Matches(f, k), NEW n \in Matches(f, k)
                 PROVE  m = n
      BY DEF NoDuplicateKeys
    <2>1. OneLine(f, k) /\ Content(f) = f
      BY DEF DbInv, LinesInv, Content
    <2> QED
      BY <2>1 DEF Matches, OneLine
  <1> QED
    BY Invariance, <1>1, PTL

\* The database is only taken away when its replacement is complete.
THEOREM CopiedBeforeRemoved == Spec => RemovedOnlyWithCopy
  <1>1. ASSUME DbInv, Locked, [Next]_vars, file # Missing, file' = Missing
        PROVE  \E t \in Thread :
                  /\ At(t, "remove") /\ temp # Missing
                  /\ \A k \in Key :
                       \/ Lookup(temp, k) = IF k = call[t].key THEN call[t].new
                                            ELSE Lookup(file, k)
                       \/ k = call[t].key /\ k \in misread
    <2>1. PICK t \in Thread : RemoveFile(t)
      <3>1. ASSUME NEW t \in Thread, Operation(t) PROVE FALSE
        BY <1>1, <3>1 DEF Operation, FindRecord, StoreRecord, UpdateRecord, RemoveRecord, Remove
      <3>2. ASSUME NEW t \in Thread, LockStep(t) \/ Leave(t) PROVE FALSE
        BY <1>1, <3>2 DEF LockStep, Leave, dbVars
      <3>3. ASSUME NEW p \in Process, Crash(p) PROVE FALSE
        BY <1>1, <3>3 DEF Crash
      <3>4. ASSUME NEW t \in Thread, AppendLine(t) PROVE FALSE
        <4>1. call[t].key \in Key /\ call[t].new \in Record /\ Content(file) \in Seq(Line)
          BY <1>1, <3>4, EmptySeq DEF AppendLine, At, DbInv, DbTypes, Call, Content
        <4>2. file' \in Seq(Line)
          <5>1. LinesAppended(Content(file), call[t].key, call[t].new, file')
            BY <3>4, <4>1, Appended DEF AppendLine
          <5> QED
            BY <5>1 DEF LinesAppended
        <4> QED
          BY <1>1, <4>2, PlainTextDbAssumption
      <3>5. ASSUME NEW t \in Thread, RenameTemp(t) PROVE FALSE
        BY <1>1, <3>5 DEF RenameTemp, DbInv, CallInv
      <3>6. ASSUME NEW t \in Thread, WriteTemp(t) \/ Unwritable(t) PROVE FALSE
        BY <1>1, <3>6 DEF WriteTemp, Unwritable
      <3>7. ~ UNCHANGED vars
        BY <1>1 DEF vars, dbVars
      <3> QED
        BY <1>1, <3>1, <3>2, <3>3, <3>4, <3>5, <3>6, <3>7 DEF Next, FlushUnsafe
    <2>2. /\ At(t, "remove") /\ call[t].key \in Key /\ call[t].new \in Record
          /\ file \in Seq(Line) /\ First(file, call[t].key, call[t].pos)
          /\ call[t].pos \in DOMAIN file
          /\ call[t].key \in misread \/ OneLine(file, call[t].key)
          /\ temp = Replaced(file, call[t].pos, call[t].key, call[t].new)
      BY <1>1, <2>1
      DEF RemoveFile, At, DbInv, DbTypes, Call, CallInv, Content, First, LinesInv
    <2>3. temp # Missing
      BY <1>1, <2>2, ReplacedLookup
    <2>4. ASSUME NEW k \in Key
          PROVE  \/ Lookup(temp, k) = IF k = call[t].key THEN call[t].new ELSE Lookup(file, k)
                 \/ k = call[t].key /\ k \in misread
      BY <1>1, <2>2, ReplacedLookup
    <2> QED
      BY <2>2, <2>3, <2>4
  <1> QED
    BY Invariance, <1>1, PTL DEF Spec, RemovedOnlyWithCopy

------------------------------------------------------------------------------
(* What a reader sees: the records, and the answers.                        *)

\* The replacement of the database neither fails nor is cut short.
Calm == "replace" \notin Faults

\* The answer a thread has determined, as ImplementsRecordStore takes it.
Pledge(t) == IF At(t, "rename") THEN [ok |-> TRUE, record |-> call[t].result]
             ELSE answer[t]

\* Thread t makes r the record of key k at this step, unless k was misread,
\* and leaves the others.
Changes(k, r) == \A l \in Key : IF l = k THEN k \in misread \/ Stored(l)' = r
                                ELSE Stored(l)' = Stored(l)

\* No step but that of t itself touches what t does.
Others(t) == \A u \in Thread \ {t} : call'[u] = call[u] /\ answer'[u] = answer[u]

\* A writer that is not between std::remove and std::rename keeps all from it.
LEMMA NotReplacing ==
    ASSUME DbInv, Locked, NEW t \in Thread, pc[t] = "x_held", ~ At(t, "rename")
    PROVE  \A u \in Thread : ~ At(u, "rename")
  <1> SUFFICES ASSUME NEW u \in Thread \ {t}, At(u, "rename") PROVE FALSE
    OBVIOUS
  <1>1. Unfinished(u) /\ CallInv(u)
    BY DEF At, Unfinished, DbInv
  <1> QED
    BY <1>1, OnlyWriter

\* While the file stays, and no thread starts or ends a replacement, the
\* records stay.
LEMMA StoredStays ==
    ASSUME UNCHANGED <<file, temp>>, Replacing' <=> Replacing, NEW k \in Key
    PROVE  Stored(k)' = Stored(k)
  BY DEF Stored, Lookup, RecordAt, Position, Matches, Content

\* AppendLine changes the record of its key.
LEMMA AppendChanges ==
    ASSUME DbInv, Locked, NEW t \in Thread, AppendLine(t)
    PROVE  /\ call[t] \in Call /\ Unfinished(t) /\ CallInv(t) /\ ~ Replacing
           /\ Changes(call[t].key, call[t].new) /\ Others(t)
           /\ Pledge(t)' = [ok |-> TRUE, record |-> call[t].result]
           /\ \A u \in Thread : ~ At(u, "rename")'
  <1>1. /\ call[t] \in Call /\ CallInv(t) /\ At(t, "append") /\ pc[t] = "x_held"
        /\ call[t] # NoCall /\ Unfinished(t) /\ ~ At(t, "rename")
    BY DEF AppendLine, At, DbInv, DbTypes, CallInv, Unfinished
  <1>2. \A u \in Thread : ~ At(u, "rename")
    BY <1>1, NotReplacing
  <1>3. /\ call' = [call EXCEPT ![t] = [call[t] EXCEPT !.at = "return"]]
        /\ answer' = [answer EXCEPT ![t] = [ok |-> TRUE, record |-> call[t].result]]
        /\ file' = Content(file) \o LineOf(call[t].key, call[t].new)
    BY DEF AppendLine, Finish, Answers
  <1>4. /\ call'[t].at = "return" /\ Others(t)
        /\ answer'[t] = [ok |-> TRUE, record |-> call[t].result]
    BY <1>1, <1>3 DEF DbInv, DbTypes, Call, Others
  <1>5. \A u \in Thread : ~ At(u, "rename")'
    BY <1>2, <1>4 DEF At, Others
  <1>6. Changes(call[t].key, call[t].new)
    <2> SUFFICES ASSUME NEW l \in Key
                 PROVE  IF l = call[t].key THEN l \in misread \/ Stored(l)' = call[t].new
                        ELSE Stored(l)' = Stored(l)
      BY DEF Changes
    <2>1. Stored(l) = Lookup(file, l)
      BY <1>2 DEF Stored, Replacing
    <2>2. Stored(l)' = Lookup(file', l)
      BY <1>5 DEF Stored, Replacing, Lookup, RecordAt, Position, Matches, Content
    <2>3. /\ call[t].key \in Key /\ call[t].new \in Record
          /\ call[t].key \in misread \/ NoLine(Content(file), call[t].key)
          /\ file \in {Missing} \cup Seq(Line)
      BY <1>1 DEF Call, CallInv, DbInv, DbTypes
    <2>5. Lookup(Content(file) \o LineOf(call[t].key, call[t].new), l) =
              IF l = call[t].key /\ NoLine(Content(file), call[t].key)
              THEN call[t].new ELSE Lookup(file, l)
      BY <2>3, AppendedLookup
    <2> QED
      BY <1>3, <2>1, <2>2, <2>3, <2>5
  <1>7. Pledge(t)' = answer'[t]
    BY <1>5 DEF Pledge
  <1> QED
    BY <1>1, <1>2, <1>4, <1>5, <1>6, <1>7 DEF Replacing

\* So does RemoveFile: from there on the replacement counts.
LEMMA RemoveChanges ==
    ASSUME DbInv, Locked, NEW t \in Thread, RemoveFile(t)
    PROVE  /\ call[t] \in Call /\ Unfinished(t) /\ CallInv(t) /\ ~ Replacing
           /\ Changes(call[t].key, call[t].new) /\ Others(t)
           /\ Pledge(t)' = [ok |-> TRUE, record |-> call[t].result]
           /\ \A u \in Thread \ {t} : ~ At(u, "rename")'
  <1>1. /\ call[t] \in Call /\ CallInv(t) /\ At(t, "remove") /\ pc[t] = "x_held"
        /\ call[t] # NoCall /\ Unfinished(t) /\ ~ At(t, "rename")
    BY DEF RemoveFile, At, DbInv, DbTypes, CallInv, Unfinished
  <1>2. \A u \in Thread : ~ At(u, "rename")
    BY <1>1, NotReplacing
  <1>3. /\ call' = [call EXCEPT ![t] = [call[t] EXCEPT !.at = "rename"]]
        /\ UNCHANGED <<answer, temp>>
    BY DEF RemoveFile
  <1>4. /\ call'[t].at = "rename" /\ call'[t].result = call[t].result
        /\ call'[t] \in Call /\ Others(t)
    BY <1>1, <1>3 DEF DbInv, DbTypes, Call, Others
  <1>5. At(t, "rename")'
    BY <1>4, PlainTextDbAssumption DEF At
  <1>6. \A u \in Thread \ {t} : ~ At(u, "rename")'
    BY <1>2, <1>4 DEF At, Others
  <1>7. Changes(call[t].key, call[t].new)
    <2> SUFFICES ASSUME NEW l \in Key
                 PROVE  IF l = call[t].key THEN l \in misread \/ Stored(l)' = call[t].new
                        ELSE Stored(l)' = Stored(l)
      BY DEF Changes
    <2>1. Stored(l) = Lookup(file, l)
      BY <1>2 DEF Stored, Replacing
    <2>r. Replacing'
      BY <1>5 DEF Replacing
    <2>2. Stored(l)' = Lookup(temp, l)
      BY <1>3, <2>r DEF Stored, Lookup, RecordAt, Position, Matches, Content
    <2>3. /\ call[t].key \in Key /\ call[t].new \in Record
          /\ file \in Seq(Line) /\ file # Missing
          /\ First(file, call[t].key, call[t].pos) /\ call[t].pos \in DOMAIN file
          /\ call[t].key \in misread \/ OneLine(file, call[t].key)
          /\ temp = Replaced(file, call[t].pos, call[t].key, call[t].new)
      BY <1>1 DEF Call, CallInv, DbInv, DbTypes, Content, First, LinesInv
    <2> QED
      BY <2>1, <2>2, <2>3, ReplacedLookup
  <1>8. Pledge(t)' = [ok |-> TRUE, record |-> call[t].result]
    BY <1>4, <1>5 DEF Pledge
  <1> QED
    BY <1>1, <1>2, <1>4, <1>6, <1>7, <1>8 DEF Replacing

\* RenameTemp shows nothing.
LEMMA RenameShowsNothing ==
    ASSUME DbInv, Locked, Calm, NEW t \in Thread, RenameTemp(t)
    PROVE  /\ \A l \in Key : Stored(l)' = Stored(l)
           /\ \A u \in Thread : Pledge(u)' = Pledge(u)
  <1>1. /\ call[t] \in Call /\ CallInv(t) /\ At(t, "rename") /\ pc[t] = "x_held" /\ call[t] # NoCall
    BY DEF RenameTemp, At, DbInv, DbTypes, CallInv, Unfinished
  <1>2. /\ call' = [call EXCEPT ![t] = [call[t] EXCEPT !.at = "return"]]
        /\ answer' = [answer EXCEPT ![t] = [ok |-> TRUE, record |-> call[t].result]]
        /\ file' = temp
    BY DEF RenameTemp, Calm, Finish, Answers
  <1>3. /\ call'[t].at = "return" /\ Others(t)
        /\ answer'[t] = [ok |-> TRUE, record |-> call[t].result]
    BY <1>1, <1>2 DEF DbInv, DbTypes, Call, Others
  <1>4. \A u \in Thread \ {t} : ~ At(u, "rename")
    BY <1>1, OnlyWriter DEF DbInv, At, Unfinished
  <1>5. \A u \in Thread : ~ At(u, "rename")'
    BY <1>3, <1>4 DEF At, Others
  <1>6. ASSUME NEW l \in Key PROVE Stored(l)' = Stored(l)
    <2>1. Stored(l) = Lookup(temp, l)
      BY <1>1 DEF Stored, Replacing
    <2>2. Stored(l)' = Lookup(file', l)
      BY <1>5 DEF Stored, Replacing, Lookup, RecordAt, Position, Matches, Content
    <2> QED
      BY <1>2, <2>1, <2>2
  <1>7. ASSUME NEW u \in Thread PROVE Pledge(u)' = Pledge(u)
    <2>1. Pledge(u)' = answer'[u]
      BY <1>5 DEF Pledge
    <2>2. CASE u = t
      BY <1>1, <1>3, <2>1, <2>2 DEF Pledge
    <2>3. CASE u # t
      BY <1>3, <1>4, <2>1, <2>3 DEF Pledge, Others
    <2> QED
      BY <2>2, <2>3
  <1> QED
    BY <1>6, <1>7

\* The replacement goes on, or does not, as before, and so do the records.
Quiet ==
    /\ UNCHANGED <<file>> /\ \A k \in Key : Stored(k)' = Stored(k)
    /\ \A u \in Thread : At(u, "rename")' <=> At(u, "rename")

\* The other steps are quiet.
LEMMA QuietSteps ==
    ASSUME DbInv, Locked
    PROVE  /\ \A t \in Thread : LockStep(t) \/ Leave(t) \/ Operation(t) => Quiet
           /\ \A t \in Thread : WriteTemp(t) \/ Unwritable(t) => Quiet
           /\ Calm => \A p \in Process : Crash(p) => Quiet
           /\ UNCHANGED vars => Quiet
  <1>c. call \in [Thread -> Call \cup {NoCall}]
    BY DEF DbInv, DbTypes
  <1>1. ASSUME UNCHANGED <<file, temp>>,
               \A u \in Thread : At(u, "rename")' <=> At(u, "rename")
        PROVE  Quiet
    <2>1. Replacing' <=> Replacing
      BY <1>1 DEF Replacing
    <2> QED
      BY <1>1, <2>1, StoredStays DEF Quiet
  <1>2. ASSUME NEW t \in Thread, LockStep(t) PROVE Quiet
    BY <1>1, <1>2 DEF LockStep, dbVars, At
  <1>3. ASSUME NEW t \in Thread, Leave(t) PROVE Quiet
    <2>1. /\ call' = [call EXCEPT ![t] = NoCall] /\ ~ At(t, "rename")
          /\ UNCHANGED <<file, temp>>
      BY <1>3 DEF Leave, At
    <2>2. \A u \in Thread : At(u, "rename")' <=> At(u, "rename")
      BY <1>c, <2>1 DEF At
    <2> QED
      BY <1>1, <2>1, <2>2
  <1>4. ASSUME NEW t \in Thread, Operation(t) PROVE Quiet
    <2>1. /\ call[t] = NoCall /\ UNCHANGED <<file, temp>>
          /\ \E c : call' = [call EXCEPT ![t] = c] /\ c.at # "rename"
      <3>1. ASSUME NEW k, NEW n, NEW new, NEW result, Flush(t, k, n, new, result)
            PROVE  \E c : call' = [call EXCEPT ![t] = c] /\ c.at # "rename"
        <4> DEFINE c == [at |-> IF n = 0 THEN "append" ELSE "temp",
                         key |-> k, new |-> new, pos |-> n, result |-> result]
        <4>1. call' = [call EXCEPT ![t] = c]
          BY <3>1 DEF Flush
        <4>2. c.at # "rename"
          OBVIOUS
        <4> QED
          BY <4>1, <4>2
      <3>2. ASSUME NEW k,
                   call' = [call EXCEPT ![t] = [at |-> "return", key |-> k, new |-> EmptyRecord,
                                                pos |-> 0, result |-> EmptyRecord]]
            PROVE  \E c : call' = [call EXCEPT ![t] = c] /\ c.at # "rename"
        <4> DEFINE c == [at |-> "return", key |-> k, new |-> EmptyRecord,
                         pos |-> 0, result |-> EmptyRecord]
        <4>1. call' = [call EXCEPT ![t] = c] /\ c.at # "rename"
          BY <3>2
        <4> QED
          BY <4>1
      <3> QED
        BY <1>4, <3>1, <3>2
        DEF Operation, FindRecord, StoreRecord, UpdateRecord, RemoveRecord, Remove, Begins
    <2>2. \A u \in Thread : At(u, "rename")' <=> At(u, "rename")
      BY <1>c, <2>1 DEF At
    <2> QED
      BY <1>1, <2>1, <2>2
  <1>5. ASSUME NEW t \in Thread, Unwritable(t) PROVE Quiet
    <2>1. /\ call' = [call EXCEPT ![t].at = "return"] /\ ~ At(t, "rename")
          /\ call[t] # NoCall /\ UNCHANGED <<file, temp>>
      BY <1>5 DEF Unwritable, Finish, At
    <2>2. call'[t].at = "return"
      BY <1>c, <2>1 DEF Call
    <2>3. \A u \in Thread : At(u, "rename")' <=> At(u, "rename")
      BY <1>c, <2>1, <2>2 DEF At
    <2> QED
      BY <1>1, <2>1, <2>3
  <1>6. ASSUME NEW t \in Thread, WriteTemp(t) PROVE Quiet
    <2>1. /\ call' = [call EXCEPT ![t].at = "remove"] /\ ~ At(t, "rename")
          /\ call[t] # NoCall /\ file' = file /\ Unfinished(t)
      BY <1>6 DEF WriteTemp, At, Unfinished
    <2>2. call'[t].at = "remove"
      BY <1>c, <2>1 DEF Call
    <2>3. pc[t] = "x_held"
      BY <2>1 DEF DbInv, CallInv
    <2>4. \A u \in Thread : ~ At(u, "rename")
      BY <2>1, <2>3, NotReplacing
    <2>5. \A u \in Thread : ~ At(u, "rename")'
      BY <1>c, <2>1, <2>2, <2>4 DEF At
    <2>6. ~ Replacing /\ ~ Replacing'
      BY <2>4, <2>5 DEF Replacing
    <2>7. \A k \in Key : Stored(k)' = Stored(k)
      BY <2>1, <2>6 DEF Stored, Lookup, RecordAt, Position, Matches, Content
    <2> QED
      BY <2>1, <2>4, <2>5, <2>7 DEF Quiet
  <1>7. ASSUME Calm, NEW p \in Process, Crash(p) PROVE Quiet
    <2>1. /\ \A t \in Thread : home[t] = p => ~ At(t, "rename")
          /\ call' = [t \in Thread |-> IF home[t] = p THEN NoCall ELSE call[t]]
          /\ UNCHANGED <<file, temp>>
      BY <1>7 DEF Crash, Calm
    <2>2. \A u \in Thread : At(u, "rename")' <=> At(u, "rename")
      BY <2>1 DEF At
    <2> QED
      BY <1>1, <2>1, <2>2
  <1>8. ASSUME UNCHANGED vars PROVE Quiet
    BY <1>1, <1>8 DEF vars, dbVars, At
  <1> QED
    BY <1>2, <1>3, <1>4, <1>5, <1>6, <1>7, <1>8

\* While replacing the database does not fail, a record changes only by an
\* operation on its own key.
THEOREM OthersAreUntouched == ASSUME Calm PROVE Spec => OthersUntouched
  <1>1. ASSUME DbInv, Locked, [Next]_vars, NEW k \in Key, Stored(k)' # Stored(k)
        PROVE  Touches(k)
    <2>1. PICK t \in Thread : AppendLine(t) \/ RemoveFile(t)
      BY <1>1, QuietSteps, RenameShowsNothing DEF Quiet, Next, FlushUnsafe
    <2>2. Changes(call[t].key, call[t].new) /\ call[t] # NoCall
      BY <1>1, <2>1, AppendChanges, RemoveChanges DEF Unfinished
    <2> QED
      BY <1>1, <2>2 DEF Changes, Touches
  <1>2. DbInv /\ Locked /\ [Next]_vars
            => [\A k \in Key : Stored(k)' # Stored(k) => Touches(k)]_vars
    BY <1>1
  <1> QED
    BY Invariance, <1>2, PTL DEF Spec, OthersUntouched

------------------------------------------------------------------------------
(* Refinement.  Readers have to be kept from a writer, for a reader between *)
(* std::remove and std::rename would find nothing: LockFile promises that   *)
(* when no process reads with two threads.                                  *)

OneReaderEach == \A t, u \in Thread : home[t] = home[u] => t = u

\* Then a thread in a shared section sees the file.
LEMMA ReadersApart == OneReaderEach => (Spec => []LP!Exclusion)
  <1> SUFFICES ASSUME OneReaderEach PROVE Spec => []LP!Exclusion
    OBVIOUS
  <1>1. LP!SafeUse
    BY DEF OneReaderEach, LP!SafeUse
  <1>2. LP!LockAssumption
    BY LockUse
  <1>3. LP!Spec => []LP!Exclusion
    BY <1>1, <1>2, LP!ExclusiveSections
  <1>4. Init => LP!Init
    BY DEF Init, Lock!Init, LP!Init
  <1> QED
    BY LockSteps, <1>3, <1>4, PTL DEF Spec, LP!Spec

\* The store of RecordStore and the answers, as functions.
LEMMA StoreSet ==
    ASSUME NEW k \in Key, NEW r, Changes(k, r), k \notin misread
    PROVE  Store!Set(k, r)
  BY DEF Changes, Store!Set

LEMMA StoreAnswers ==
    ASSUME NEW t \in Thread, Pledge(t) = NoAnswer, NEW a, Pledge(t)' = a,
           \A u \in Thread \ {t} : Pledge(u)' = Pledge(u)
    PROVE  Store!Answers(t, a)
  BY DEF Store!Answers, Pledge

LEMMA StoreUnchanged ==
    ASSUME \A k \in Key : Stored(k)' = Stored(k), \A u \in Thread : Pledge(u)' = Pledge(u)
    PROVE  UNCHANGED Store!vars
  BY DEF Store!vars, Pledge

\* The writing step of an operation is a step of the abstract store.
LEMMA WriteRefines ==
    ASSUME DbInv, NEW t \in Thread, call[t] \in Call, Unfinished(t), CallInv(t),
           NEW k \in Key, NEW new \in Record, NEW result,
           call[t].key = k, call[t].new = new, call[t].result = result,
           ~ Replacing, Changes(k, new), k \notin misread, Pledge(t)' = [ok |-> TRUE, record |-> result],
           \A u \in Thread \ {t} : Pledge(u)' = Pledge(u)
    PROVE  Store!Next
  <1>r. Store!Record = Record /\ Store!EmptyRecord = EmptyRecord
    BY DEF Record, EmptyRecord, Store!Record, Store!EmptyRecord
  <1>2. ~ At(t, "rename") /\ answer[t] = NoAnswer
    BY DEF Replacing, CallInv
  <1>3. Pledge(t) = NoAnswer
    BY <1>2 DEF Pledge
  <1>4. Store!Set(k, new)
    BY StoreSet
  <1>5. Store!Answers(t, [ok |-> TRUE, record |-> result])
    BY <1>3, StoreAnswers
  <1>6. \/ result = EmptyRecord
        \/ result = new /\ \A i \in Id : ~ Has(new, i) => ~ Has(Lookup(file, k), i)
    BY <1>2 DEF CallInv, ResultOf
  <1>7. CASE result = EmptyRecord
    <2>1. Store!Answers(t, Store!Answer(TRUE, Store!EmptyRecord))
      BY <1>r, <1>5, <1>7 DEF Store!Answer
    <2>2. Store!StoreRecord(t, k, new)
      BY <1>4, <2>1 DEF Store!StoreRecord
    <2> QED
      BY <1>r, <2>2 DEF Store!Next
  <1>8. CASE /\ result = new
             /\ \A i \in Id : ~ Has(new, i) => ~ Has(Lookup(file, k), i)
    <2>1. Stored(k) = Lookup(file, k)
      BY DEF Stored
    <2>2. \A i \in Id : new[i] = NoValue => Stored(k)[i] = NoValue
      BY <1>8, <2>1 DEF Has
    <2>3. [l \in Key |-> Stored(l)][k] = Stored(k)
      OBVIOUS
    <2>4. [i \in Id |-> IF new[i] = NoValue THEN [l \in Key |-> Stored(l)][k][i] ELSE new[i]] = new
      BY <2>2, <2>3 DEF Record
    <2>5. Store!Answers(t, Store!Answer(TRUE, new))
      BY <1>5, <1>8 DEF Store!Answer
    <2>6. Store!UpdateRecord(t, k, new)
      BY <1>4, <2>4, <2>5 DEF Store!UpdateRecord, Store!Answers, Store!Answer, Store!Set
    <2> QED
      BY <1>r, <2>6 DEF Store!Next
  <1> QED
    BY <1>6, <1>7, <1>8

\* The operations that answer without writing.
LEMMA OperationRefines ==
    ASSUME DbInv, Locked, LP!Exclusion, NEW t \in Thread, Operation(t)
    PROVE  Store!Next \/ UNCHANGED Store!vars
  <1>r. Store!Record = Record /\ Store!EmptyRecord = EmptyRecord
    BY DEF Record, EmptyRecord, Store!Record, Store!EmptyRecord
  <1>q. Quiet
    BY QuietSteps
  <1>1. PICK k \in Key :
            \/ FindRecord(t, k)
            \/ \E r \in Record : StoreRecord(t, k, r)
            \/ \E i \in Id, v \in Value : UpdateRecord(t, k, Single(i, v))
            \/ RemoveRecord(t, k)
            \/ \E i \in Id : Remove(t, k, i)
    BY DEF Operation
  <1>0. /\ call[t] = NoCall /\ answer[t] = NoAnswer /\ ~ At(t, "rename")
        /\ answer \in [Thread -> {NoAnswer} \cup [ok : BOOLEAN, record : Record]]
        /\ pc[t] \in {"x_held", "s_held"} /\ UNCHANGED <<pc, file, temp>>
    BY <1>1 DEF FindRecord, StoreRecord, UpdateRecord, RemoveRecord, Remove, Begins,
       DbInv, DbTypes, CallInv, At, lockVars
  <1>2. ASSUME NEW n, NEW new, NEW result, Flush(t, k, n, new, result)
        PROVE  UNCHANGED Store!vars
    <2>1. \A u \in Thread : Pledge(u)' = Pledge(u)
      <3> SUFFICES ASSUME NEW u \in Thread PROVE Pledge(u)' = Pledge(u)
        OBVIOUS
      <3>1. answer' = answer
        BY <1>2 DEF Flush
      <3>2. CASE At(u, "rename")
        <4>1. u # t
          BY <1>0, <3>2
        <4>2. call'[u] = call[u]
          BY <1>2, <4>1 DEF Flush, DbInv, DbTypes
        <4> QED
          BY <1>q, <3>2, <4>2 DEF Pledge, Quiet
      <3>3. CASE ~ At(u, "rename")
        BY <1>q, <3>1, <3>3 DEF Pledge, Quiet
      <3> QED
        BY <3>2, <3>3
    <2> QED
      BY <1>q, <2>1, StoreUnchanged DEF Quiet
  <1>3. \A u \in Thread : u # t => ~ At(u, "rename")
    <2> SUFFICES ASSUME NEW u \in Thread, u # t, At(u, "rename") PROVE FALSE
      OBVIOUS
    <2>1. Unfinished(u) /\ pc[u] = "x_held"
      BY DEF At, Unfinished, DbInv, CallInv
    <2> QED
      BY <1>0, <2>1 DEF LP!Exclusion, LP!InExclusive, LP!InShared
  <1>4. ~ Replacing
    BY <1>0, <1>3 DEF Replacing
  <1>5. \A l \in Key : Stored(l) = Lookup(file, l)
    BY <1>4 DEF Stored
  <1>6. ASSUME NEW ok, NEW r, Answers(t, ok, r)
        PROVE  Store!Answers(t, [ok |-> ok, record |-> r])
    <2>1. Pledge(t) = NoAnswer /\ Pledge(t)' = [ok |-> ok, record |-> r]
      BY <1>0, <1>6, <1>q DEF Pledge, Answers, Quiet
    <2>2. \A u \in Thread \ {t} : Pledge(u)' = Pledge(u)
      BY <1>0, <1>3, <1>6, <1>q DEF Pledge, Answers, Quiet
    <2> QED
      BY <2>1, <2>2, StoreAnswers
  <1>n. ASSUME Answers(t, FALSE, EmptyRecord) PROVE Store!Next
    <2>1. Store!Answers(t, [ok |-> FALSE, record |-> EmptyRecord])
      BY <1>6, <1>n
    <2>2. [l \in Key |-> Stored(l)]' = [l \in Key |-> Stored(l)]
      BY <1>q DEF Quiet
    <2>3. Store!Fail(t)
      BY <1>r, <2>1, <2>2 DEF Store!Fail, Store!Answer, Store!Answers
    <2> QED
      BY <2>3 DEF Store!Next
  <1>7. CASE FindRecord(t, k)
    <2>1. PICK n \in Scans(file, k) :
              Answers(t, RecordAt(file, n) # EmptyRecord, RecordAt(file, n))
      BY <1>7 DEF FindRecord
    <2>2. CASE n = 0
      <3>1. RecordAt(file, n) = EmptyRecord
        BY <2>2 DEF RecordAt
      <3>2. Answers(t, FALSE, EmptyRecord)
        BY <2>1, <3>1 DEF Answers
      <3> QED
        BY <1>n, <3>2
    <2>3. CASE n = Position(file, k)
      <3>0. RecordAt(file, n) = Stored(k)
        BY <1>5, <2>3 DEF Lookup
      <3>1. Answers(t, Stored(k) # EmptyRecord, Stored(k))
        BY <2>1, <3>0
      <3>2. PICK ok, r : ok = (Stored(k) # EmptyRecord) /\ r = Stored(k)
        OBVIOUS
      <3>3. Store!Answers(t, [ok |-> ok, record |-> r])
        BY <1>6, <3>1, <3>2 DEF Answers
      <3>4. [l \in Key |-> Stored(l)][k] = r
        BY <3>2
      <3>5. [l \in Key |-> Stored(l)]' = [l \in Key |-> Stored(l)]
        BY <1>q DEF Quiet
      <3>6. Store!FindRecord(t, k)
        BY <1>r, <3>2, <3>3, <3>4, <3>5 DEF Store!FindRecord, Store!Answers, Store!Answer
      <3> QED
        BY <1>r, <3>6 DEF Store!Next
    <2> QED
      BY <2>2, <2>3 DEF Scans
  <1>8. CASE \/ \E r \in Record : StoreRecord(t, k, r)
             \/ \E i \in Id, v \in Value : UpdateRecord(t, k, Single(i, v))
             \/ RemoveRecord(t, k)
    BY <1>2, <1>8 DEF StoreRecord, UpdateRecord, RemoveRecord
  <1>9. ASSUME NEW i \in Id, Remove(t, k, i) PROVE Store!Next \/ UNCHANGED Store!vars
    <2>1. PICK m \in Scans(file, k), n \in Scans(file, k) :
              IF Has(RecordAt(file, m), i)
              THEN Flush(t, k, n, EraseValues(RecordAt(file, m), i), EmptyRecord)
              ELSE /\ call' = [call EXCEPT ![t] = [at |-> "return", key |-> k,
                                  new |-> EmptyRecord, pos |-> 0, result |-> EmptyRecord]]
                   /\ Answers(t, FALSE, EmptyRecord)
                   /\ UNCHANGED misread
      BY <1>9 DEF Remove
    <2>2. CASE Has(RecordAt(file, m), i)
      BY <1>2, <2>1, <2>2
    <2>3. CASE ~ Has(RecordAt(file, m), i)
      BY <1>n, <2>1, <2>3
    <2> QED
      BY <2>2, <2>3
  <1> QED
    BY <1>1, <1>7, <1>8, <1>9

\* The steps of a thread outside FlushUnsafe and the death of a process end
\* operations, or show nothing.
LEMMA ReturnRefines ==
    ASSUME DbInv, Locked, Calm
    PROVE  /\ \A t \in Thread : LockStep(t) => UNCHANGED Store!vars
           /\ \A t \in Thread : Leave(t) => Store!Next
           /\ \A p \in Process : Crash(p) => Store!Next
           /\ UNCHANGED vars => UNCHANGED Store!vars
  <1>0. ASSUME Quiet, NEW C \in SUBSET Thread,
               \A u \in Thread : Pledge(u)' = IF u \in C THEN NoAnswer ELSE Pledge(u)
        PROVE  Store!Next
    <2>1. Store!Return(C)
      BY <1>0 DEF Store!Return, Quiet, Pledge
    <2> QED
      BY <2>1 DEF Store!Next
  <1>1. ASSUME UNCHANGED dbVars, Quiet PROVE UNCHANGED Store!vars
    BY <1>1, StoreUnchanged DEF dbVars, Quiet, Pledge, At
  <1>2. ASSUME NEW t \in Thread, LockStep(t) PROVE UNCHANGED Store!vars
    BY <1>1, <1>2, QuietSteps DEF LockStep
  <1>3. ASSUME NEW t \in Thread, Leave(t) PROVE Store!Next
    <2>1. Quiet /\ ~ At(t, "rename")
      BY <1>3, QuietSteps DEF Leave, At
    <2>2. /\ answer' = [answer EXCEPT ![t] = NoAnswer] /\ call' = [call EXCEPT ![t] = NoCall]
          /\ DbTypes
      BY <1>3 DEF Leave, DbInv
    <2>3. ASSUME NEW u \in Thread
          PROVE  Pledge(u)' = IF u \in {t} THEN NoAnswer ELSE Pledge(u)
      BY <2>1, <2>2 DEF Pledge, Quiet, DbTypes
    <2> QED
      BY <1>0, <2>1, <2>3
  <1>4. ASSUME NEW p \in Process, Crash(p) PROVE Store!Next
    <2> DEFINE C == {u \in Thread : home[u] = p}
    <2>1. Quiet /\ \A u \in C : ~ At(u, "rename")
      BY <1>4, QuietSteps DEF Crash, Calm
    <2>2. /\ answer' = [t \in Thread |-> IF home[t] = p THEN NoAnswer ELSE answer[t]]
          /\ call' = [t \in Thread |-> IF home[t] = p THEN NoCall ELSE call[t]]
      BY <1>4 DEF Crash
    <2>3. ASSUME NEW u \in Thread
          PROVE  Pledge(u)' = IF u \in C THEN NoAnswer ELSE Pledge(u)
      BY <2>1, <2>2 DEF Pledge, Quiet
    <2> QED
      BY <1>0, <2>1, <2>3
  <1>5. ASSUME UNCHANGED vars PROVE UNCHANGED Store!vars
    BY <1>1, <1>5, QuietSteps DEF vars
  <1> QED
    BY <1>2, <1>3, <1>4, <1>5

\* A failure to open a file for writing is a failed operation.
LEMMA UnwritableRefines ==
    ASSUME DbInv, Locked, NEW t \in Thread, Unwritable(t)
    PROVE  Store!Next
  <1>1. /\ Quiet /\ ~ At(t, "rename") /\ Unfinished(t) /\ answer[t] = NoAnswer
        /\ answer' = [answer EXCEPT ![t] = [ok |-> FALSE, record |-> EmptyRecord]]
        /\ call' = [call EXCEPT ![t].at = "return"] /\ DbTypes
    BY QuietSteps DEF Unwritable, At, Unfinished, Finish, Answers, DbInv, CallInv
  <1>2. Pledge(t) = NoAnswer /\ Pledge(t)' = [ok |-> FALSE, record |-> EmptyRecord]
    BY <1>1 DEF Pledge, Quiet, DbTypes
  <1>3. \A u \in Thread \ {t} : Pledge(u)' = Pledge(u)
    BY <1>1 DEF Pledge, Quiet, DbTypes
  <1>4. Store!Answers(t, [ok |-> FALSE, record |-> EmptyRecord])
    BY <1>2, <1>3, StoreAnswers
  <1>5. [l \in Key |-> Stored(l)]' = [l \in Key |-> Stored(l)]
    BY <1>1 DEF Quiet
  <1>6. Store!Fail(t)
    BY <1>4, <1>5 DEF Store!Fail, Store!Answer, Store!Answers, EmptyRecord, Store!EmptyRecord
  <1> QED
    BY <1>6 DEF Store!Next

\* FlushUnsafe changes the store in one step, and shows nothing in the others.
LEMMA FlushRefines ==
    ASSUME DbInv, Locked, Calm, NEW t \in Thread, FlushUnsafe(t), ~ OnMisread
    PROVE  Store!Next \/ UNCHANGED Store!vars
  <1>1. CASE AppendLine(t) \/ RemoveFile(t)
    <2>1. /\ call[t] \in Call /\ Unfinished(t) /\ CallInv(t) /\ ~ Replacing
          /\ Changes(call[t].key, call[t].new) /\ Others(t)
          /\ Pledge(t)' = [ok |-> TRUE, record |-> call[t].result]
          /\ \A u \in Thread \ {t} : ~ At(u, "rename")'
      BY <1>1, AppendChanges, RemoveChanges
    <2>2. PICK k \in Key, new \in Record, result \in Record :
              call[t].key = k /\ call[t].new = new /\ call[t].result = result
      BY <2>1 DEF Call
    <2>3. Changes(k, new) /\ k \notin misread
      <3>1. /\ call'[t] = [call[t] EXCEPT !.at = IF AppendLine(t) THEN "return" ELSE "rename"]
            /\ misread' = misread /\ call[t].at \in {"append", "remove"}
        BY <1>1 DEF AppendLine, RemoveFile, Finish, At, DbInv, DbTypes
      <3>2. /\ call'[t].key = k /\ call'[t].at \in {"return", "rename"}
            /\ call'[t] \in Call
        BY <2>1, <2>2, <3>1 DEF Call
      <3>3. call'[t] \notin {call[t], NoCall}
        BY <3>1, <3>2, PlainTextDbAssumption
      <3> QED
        BY <2>1, <2>2, <3>1, <3>2, <3>3 DEF OnMisread
    <2>4. \A u \in Thread \ {t} : Pledge(u)' = Pledge(u)
      BY <2>1 DEF Pledge, Replacing, Others
    <2> QED
      BY <2>1, <2>2, <2>3, <2>4, WriteRefines
  <1>2. CASE WriteTemp(t)
    <2>1. Quiet /\ answer' = answer /\ ~ At(t, "rename")
          /\ call' = [call EXCEPT ![t].at = "remove"] /\ DbTypes
      BY <1>2, QuietSteps DEF WriteTemp, At, DbInv
    <2>2. \A u \in Thread : Pledge(u)' = Pledge(u)
      BY <2>1 DEF Pledge, Quiet, DbTypes
    <2> QED
      BY <2>1, <2>2, StoreUnchanged DEF Quiet
  <1>3. CASE RenameTemp(t)
    BY <1>3, RenameShowsNothing, StoreUnchanged
  <1> QED
    BY <1>1, <1>2, <1>3, UnwritableRefines DEF FlushUnsafe

\* The database is the abstract store for every key whose line no operation has
\* overlooked, as long as replacing the database does not fail and readers are
\* kept from writers.
THEOREM Refinement ==
    ASSUME Calm, OneReaderEach PROVE Spec => ImplementsRecordStore
  <1>1. Init => Store!Init
    <2> SUFFICES ASSUME Init PROVE Store!Init
      OBVIOUS
    <2>1. \A t \in Thread : ~ At(t, "rename") /\ answer[t] = NoAnswer
      BY DEF Init, At
    <2>2. ~ Replacing
      BY <2>1 DEF Replacing
    <2>3. ASSUME NEW k \in Key PROVE Stored(k) = EmptyRecord
      BY <2>2, EmptySeq DEF Init, Stored, RecordAt, Lookup, Position, Matches, Content
    <2> QED
      BY <2>1, <2>3 DEF Store!Init, EmptyRecord, Store!EmptyRecord
  <1>2. DbInv /\ Locked /\ LP!Exclusion /\ [Next]_vars
            => [~ OnMisread => Store!Next]_(Store!vars)
    BY OperationRefines, ReturnRefines, FlushRefines DEF Next
  <1>3. Spec => []LP!Exclusion
    BY ReadersApart
  <1> QED
    BY Invariance, <1>1, <1>2, <1>3, PTL DEF Spec, ImplementsRecordStore
=============================================================================
