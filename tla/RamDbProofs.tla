------------------------------ MODULE RamDbProofs ------------------------------
(* What holds of RamDb for any number of processes, keys, ids and values,    *)
(* and for any bound on the clock.                                           *)
EXTENDS RamDb, TLAPS

------------------------------------------------------------------------------
(* The data.                                                                *)

\* Records and texts: what the operators of DbRecord and RamDb return.
LEMMA RecordTypes ==
    /\ EmptyRecord \in Record
    /\ NoText \in Text
    /\ \A r \in Record : Clean(r) \in Text
    /\ \A r, s \in Record : Merge(r, s) \in Record
    /\ \A r \in Record, i \in Id : EraseValues(r, i) \in Record
    /\ \A i \in Id, v \in Value : Single(i, v) \in Record
    /\ \A r \in Record, S \in SUBSET Id : Only(r, S) \in Record
  <1>1. EmptyRecord \in Record
    BY DEF EmptyRecord, Record
  <1>2. \A r \in Record : Clean(r) \in Text
    BY DEF Clean, Text
  <1>3. NoText \in Text
    BY <1>1, <1>2 DEF NoText
  <1>4. \A r, s \in Record : Merge(r, s) \in Record
    BY DEF Merge, Record, Has
  <1>5. \A r \in Record, i \in Id : EraseValues(r, i) \in Record
    BY DEF EraseValues, Record
  <1>6. \A i \in Id, v \in Value : Single(i, v) \in Record
    BY DEF Single, EmptyRecord, Record
  <1>7. \A r \in Record, S \in SUBSET Id : Only(r, S) \in Record
    BY DEF Only, Record
  <1> QED
    BY <1>1, <1>2, <1>3, <1>4, <1>5, <1>6, <1>7

\* The database as a map, whether the file is there or not.
LEMMA ContentType ==
    ASSUME NEW f \in {Missing} \cup [Key -> Record]
    PROVE  Content(f) \in [Key -> Record]
  BY RecordTypes DEF Content

\* What the write-through puts into a copy is a text.
LEMMA RewrittenType ==
    ASSUME NEW text \in Text
    PROVE  Rewritten(text) \subseteq Text
  BY RecordTypes DEF Rewritten, Text, Ids

------------------------------------------------------------------------------
(* Types.                                                                   *)

\* The age of a copy is a yes or a no.
LEMMA ValidBool == \A p : Valid(p) \in BOOLEAN
  <1> TAKE p
  <1>1. CacheEmpty(p) \in BOOLEAN
    BY Zenon DEF CacheEmpty
  <1>2. (time < readTime[p]) \in BOOLEAN
    OBVIOUS
  <1> QED
    BY <1>1, <1>2, Zenon DEF Valid

\* A copy taken for valid may pass for it; one that may, and is not, is read
\* again from a file that is there.
LEMMA ValidityValid ==
    ASSUME TypeOK, NEW p \in Process, NEW valid \in Validity(p)
    PROVE  /\ valid \in BOOLEAN
           /\ valid => Valid(p)
           /\ ~ valid => ~ Valid(p) \/ file # Missing
  <1>1. CASE file # Missing /\ time = Emptied
    <2>1. time < readTime[p]
      BY <1>1 DEF Emptied, TypeOK
    <2> QED
      BY <1>1, <2>1 DEF Validity, Valid
  <1>2. CASE ~ (file # Missing /\ time = Emptied)
    <2>1. valid = Valid(p)
      BY <1>2 DEF Validity
    <2> QED
      BY <2>1, ValidBool
  <1> QED
    BY <1>1, <1>2

\* Reading the file into a copy keeps the types.
LEMMA PrefetchType ==
    ASSUME TypeOK, NEW p \in Process, Prefetch(p)
    PROVE  /\ clock' \in 1..MaxTime
           /\ cache' \in [Process -> [Key -> Text]]
           /\ readTime' \in [Process -> 0..MaxTime]
           /\ rewritten' \in SUBSET Process
  <1>1. CASE file = Missing
    BY <1>1 DEF Prefetch, TypeOK
  <1>2. CASE file # Missing
    <2>1. clock' \in 1..MaxTime
      BY <1>2, RamDbAssumption DEF Prefetch, TypeOK, Now
    <2>2. [k \in Key |-> Clean(file[k])] \in [Key -> Text]
      BY <1>2, RecordTypes DEF TypeOK
    <2> QED
      BY <1>2, <2>1, <2>2 DEF Prefetch, TypeOK
  <1> QED
    BY <1>1, <1>2

\* An operation that begins with a well-formed call keeps the types of all it
\* does not mention.
LEMMA BeginType ==
    ASSUME TypeOK, NEW p \in Process, NEW op \in Calls, NEW k \in Key, NEW at \in Stages,
           NEW new \in Text, NEW valid \in BOOLEAN, NEW ok \in BOOLEAN, NEW found \in Text,
           Begin(p, op, k, at, new, valid, Answer(ok, found))
    PROVE  holder' \in Process /\ call' \in Call /\ opened' \in SUBSET Process
  BY DEF Begin, Answer, Call, TypeOK

\* Writing the file keeps the types.
LEMMA WriteType ==
    ASSUME TypeOK, NEW k \in Key, NEW r \in Record, Write(k, r)
    PROVE  /\ file' \in [Key -> Record] /\ stamped' \in BOOLEAN
           /\ UNCHANGED <<time, clock, cache, readTime, rewritten>>
  BY ContentType DEF Write, TypeOK

\* Every step keeps the types.
LEMMA TypeStep == TypeOK /\ [Next]_vars => TypeOK'
  <1> SUFFICES ASSUME TypeOK, [Next]_vars PROVE TypeOK'
    OBVIOUS
  <1> USE DEF dbVars, auxVars
  <1>1. ASSUME NEW p \in Process, GetCached(p) PROVE TypeOK'
    <2>1. Prefetch(p)
      BY <1>1 DEF GetCached
    <2> QED
      BY <1>1, <2>1, PrefetchType DEF GetCached, TypeOK
  <1>2. ASSUME NEW p \in Process, GetCachedTimeout(p) PROVE TypeOK'
    BY <1>2 DEF GetCachedTimeout, TypeOK
  <1>3. ASSUME NEW p \in Process, NEW k \in Key, FindRecord(p, k) PROVE TypeOK'
    <2>1. /\ clock' \in 1..MaxTime /\ cache' \in [Process -> [Key -> Text]]
          /\ readTime' \in [Process -> 0..MaxTime] /\ rewritten' \in SUBSET Process
      <3>1. CASE UNCHANGED <<clock, cache, readTime, rewritten>>
        BY <3>1 DEF TypeOK
      <3>2. CASE Prefetch(p)
        BY <3>2, PrefetchType
      <3> QED
        BY <1>3, <3>1, <3>2 DEF FindRecord
    <2>2. holder' \in Process /\ call' \in Call /\ opened' \in SUBSET Process
      BY <1>3, <2>1, BeginType, RecordTypes DEF FindRecord, Calls, Stages
    <2> QED
      BY <1>3, <2>1, <2>2 DEF FindRecord, TypeOK
  <1>4. ASSUME NEW p \in Process, NEW k \in Key, NEW op \in Calls, WriteFails(p, op, k)
        PROVE  TypeOK'
    <2>1. holder' \in Process /\ call' \in Call /\ opened' \in SUBSET Process
      BY <1>4, BeginType, RecordTypes DEF WriteFails, Stages
    <2> QED
      BY <1>4, <2>1 DEF WriteFails, TypeOK
  <1>5. ASSUME NEW p \in Process, NEW k \in Key, NEW op \in Calls, NEW new \in Text,
               NEW valid \in BOOLEAN, NEW found \in Text, NEW r \in Record,
               Begin(p, op, k, "touch", new, valid, Answer(TRUE, found)), Write(k, r)
        PROVE  TypeOK'
    <2>1. holder' \in Process /\ call' \in Call /\ opened' \in SUBSET Process
      BY <1>5, BeginType DEF Stages
    <2> QED
      BY <1>5, <2>1, WriteType DEF TypeOK
  <1>6. ASSUME NEW p \in Process, NEW k \in Key, NEW r \in Record, StoreRecord(p, k, r)
        PROVE  TypeOK'
    BY <1>6, <1>4, <1>5, RecordTypes DEF StoreRecord, Calls
  <1>7. ASSUME NEW p \in Process, NEW k \in Key, NEW i \in Id, NEW v \in Value,
               UpdateRecord(p, k, Single(i, v))
        PROVE  TypeOK'
    <2> DEFINE new == Merge(Single(i, v), Content(file)[k])
    <2>1. new \in Record /\ Clean(new) \in Text
      BY RecordTypes, ContentType DEF TypeOK
    <2> QED
      BY <1>7, <1>4, <1>5, <2>1 DEF UpdateRecord, Calls
  <1>8. ASSUME NEW p \in Process, NEW k \in Key, RemoveRecord(p, k) PROVE TypeOK'
    <2>1. Validity(p) \subseteq BOOLEAN
      BY ValidityValid
    <2> QED
      BY <1>8, <1>4, <1>5, <2>1, RecordTypes DEF RemoveRecord, Calls
  <1>9. ASSUME NEW p \in Process, NEW k \in Key, NEW i \in Id, Remove(p, k, i) PROVE TypeOK'
    <2> DEFINE old == cache[p][k]
               new == [record |-> EraseValues(old.record, i), eol |-> old.eol \ {i}]
    <2>1. Validity(p) \subseteq BOOLEAN
      BY ValidityValid
    <2>2. old \in Text
      BY DEF TypeOK
    <2>3. new \in Text /\ new.record \in Record
      BY <2>2, RecordTypes DEF Text
    <2>4. LineIds(new) \subseteq SUBSET Id
      BY DEF LineIds, Ids
    <2>5. CASE /\ Begin(p, "Remove", k, "return", NoText, FALSE, Answer(FALSE, NoText))
               /\ UNCHANGED <<file, time, clock, cache, readTime, auxVars>>
      <3>1. holder' \in Process /\ call' \in Call /\ opened' \in SUBSET Process
        BY <2>5, BeginType, RecordTypes DEF Calls, Stages
      <3> QED
        BY <2>5, <3>1 DEF TypeOK
    <2>6. CASE /\ \E valid \in Validity(p) :
                     Begin(p, "Remove", k, "touch", new, valid, Answer(TRUE, NoText))
               /\ \E S \in LineIds(new) : Write(k, Only(new.record, S))
      <3>1. PICK S \in LineIds(new) : Write(k, Only(new.record, S))
        BY <2>6
      <3>2. Only(new.record, S) \in Record
        BY <2>3, <2>4, RecordTypes
      <3> QED
        BY <2>6, <3>1, <3>2, <1>5, <2>1, <2>3, RecordTypes DEF Calls
    <2>7. CASE WriteFails(p, "Remove", k)
      BY <2>7, <1>4 DEF Calls
    <2> QED
      BY <1>9, <2>5, <2>6, <2>7 DEF Remove
  <1>10. ASSUME NEW p \in Process, UpdateDbModificationTime(p) PROVE TypeOK'
    <2> USE DEF At, Goto, Call, Stages
    <2>1. AfterStamp \in Stages
      BY DEF AfterStamp
    <2>2. ASSUME NEW from, NEW to \in Stages, Truncate(p, from, to) PROVE TypeOK'
      <3>1. Emptied \in Emptied..MaxTime
        BY RamDbAssumption DEF Emptied
      <3>2. call' \in Call
        BY <2>2, RamDbAssumption DEF Truncate, TypeOK
      <3> QED
        BY <2>2, <3>1, <3>2 DEF Truncate, TypeOK
    <2>3. ASSUME NEW from, NEW to \in Stages, Stamp(p, from, to) PROVE TypeOK'
      BY <2>3, RamDbAssumption DEF Stamp, Now, TypeOK, Emptied
    <2>4. ASSUME NEW from, NEW to \in Stages, TimeFileFails(p, from, to) PROVE TypeOK'
      BY <2>4 DEF TimeFileFails, TypeOK
    <2> QED
      BY <1>10, <2>1, <2>2, <2>3, <2>4 DEF UpdateDbModificationTime
  <1>11. ASSUME NEW p \in Process, Validate(p) PROVE TypeOK'
    <2>1. call \in Call
      BY <1>11, RamDbAssumption DEF Validate, At, TypeOK
    <2>2. PICK valid \in Validity(p) : call' = [call EXCEPT !.at = "retouch", !.valid = valid]
      BY <1>11 DEF Validate
    <2>3. call' \in Call
      BY <2>1, <2>2, ValidityValid DEF Call, Stages
    <2> QED
      BY <1>11, <2>3 DEF Validate, TypeOK
  <1>12. ASSUME NEW p \in Process, CacheSkipped(p) PROVE TypeOK'
    BY <1>12, RamDbAssumption DEF CacheSkipped, At, Goto, Call, Stages, TypeOK
  <1>13. ASSUME NEW p \in Process, CacheWritten(p) PROVE TypeOK'
    <2>1. call \in Call /\ holder \in Process
      BY <1>13, RamDbAssumption DEF CacheWritten, At, TypeOK
    <2>2. Rewritten(call.new) \subseteq Text /\ call.key \in Key
      BY <2>1, RewrittenType DEF Call
    <2>3. call' \in Call
      BY <1>13, <2>1 DEF CacheWritten, Goto, Call, Stages
    <2>4. cache' \in [Process -> [Key -> Text]]
      BY <1>13, <2>2 DEF CacheWritten, TypeOK
    <2> QED
      BY <1>13, <2>3, <2>4, RamDbAssumption DEF CacheWritten, Now, TypeOK
  <1>14. ASSUME NEW p \in Process, Return(p) PROVE TypeOK'
    BY <1>14 DEF Return, TypeOK
  <1>15. ASSUME NEW p \in Process, Exit(p) PROVE TypeOK'
    <2>1. 0 \in 0..MaxTime
      BY RamDbAssumption
    <2>2. [k \in Key |-> NoText] \in [Key -> Text]
      BY RecordTypes
    <2>3. cache' \in [Process -> [Key -> Text]] /\ readTime' \in [Process -> 0..MaxTime]
      BY <1>15, <2>1, <2>2 DEF Exit, TypeOK
    <2>4. /\ holder' \in Process \cup {None}
          /\ holder' # None => call' \in Call
      BY <1>15 DEF Exit, TypeOK
    <2> QED
      BY <1>15, <2>3, <2>4 DEF Exit, TypeOK
  <1>16. ASSUME NEW p \in Process, LoseFile(p) PROVE TypeOK'
    BY <1>16 DEF LoseFile, TypeOK
  <1>17. CASE UNCHANGED vars
    BY <1>17 DEF vars, TypeOK
  <1> QED
    BY <1>1, <1>2, <1>3, <1>6, <1>7, <1>8, <1>9, <1>10, <1>11, <1>12, <1>13, <1>14, <1>15, <1>16, <1>17
    DEF Next, Operation, Continue

\* The initial state is well typed.
LEMMA InitType == Init => TypeOK
  BY RecordTypes, RamDbAssumption DEF Init, TypeOK, Emptied

\* Whatever operations are used and whatever fails, every variable of the
\* database files, of the copies and of the operation keeps to its type.
THEOREM TypeCorrect == Spec => []TypeOK
  BY InitType, TypeStep, PTL DEF Spec

------------------------------------------------------------------------------
(* Coherence under all operations and all faults.                           *)

\* Nothing is younger than the clock, and a time that is up to date is there; a
\* process that does not have the database open has no copy that could pass for
\* valid, and is in no operation; and an operation past its change has written
\* the file.
ClockInv == /\ time <= clock /\ \A p \in Process : readTime[p] <= clock
            /\ stamped => time \in Nat
FreshInv == \A p \in Process \ opened : readTime[p] = 0 /\ holder # p
FileInv  == holder # None /\ call.at # "return" => file # Missing

IInv == TypeOK /\ ClockInv /\ FreshInv /\ FileInv /\ CacheCoherent

\* An entry of a copy is the record of the file.
Agrees(p, k) == cache[p][k] = Clean(Content(file)[k])

\* No copy is valid right after the time has been written.
LEMMA StampInvalidates ==
    ASSUME IInv, NEW p \in Process, NEW from \in Stages \ {"return"}, NEW to, Stamp(p, from, to)
    PROVE  file' # Missing /\ \A q \in Process : readTime'[q] <= time' /\ ~ Valid(q)'
  <1>1. file # Missing
    BY RamDbAssumption DEF Stamp, At, IInv, FileInv
  <1>2. \A q \in Process : readTime[q] <= clock'
    BY DEF Stamp, Now, IInv, ClockInv, TypeOK
  <1>3. clock' \in Nat /\ \A q \in Process : readTime[q] \in Nat
    BY RamDbAssumption DEF Stamp, Now, IInv, TypeOK
  <1> QED
    BY <1>1, <1>2, <1>3 DEF Stamp, Valid

\* After a process has read the file, or found none, its copy agrees with it if
\* it passes for valid.
LEMMA PrefetchAgrees ==
    ASSUME TypeOK, NEW p \in Process, Prefetch(p), UNCHANGED file, NEW k \in Key, Valid(p)'
    PROVE  Agrees(p, k)'
  <1>1. CASE file = Missing
    BY <1>1 DEF Agrees, Prefetch, Valid, CacheEmpty, Content, NoText
  <1>2. CASE file # Missing
    BY <1>2 DEF Agrees, Prefetch, Content, TypeOK
  <1> QED
    BY <1>1, <1>2

\* Reading the file leaves the copies of the others alone.
LEMMA PrefetchOthers ==
    ASSUME TypeOK, NEW p \in Process, Prefetch(p), NEW q \in Process, q # p
    PROVE  cache'[q] = cache[q] /\ readTime'[q] = readTime[q]
           /\ (q \in rewritten' <=> q \in rewritten)
  BY DEF Prefetch, TypeOK

\* So coherence survives the reading of the file.
LEMMA PrefetchCoherent ==
    ASSUME TypeOK, CacheCoherent, NEW p \in Process, Prefetch(p),
           UNCHANGED <<file, time, stamped>>, opened' \subseteq opened \cup {p}
    PROVE  CacheCoherent'
  <1> SUFFICES ASSUME stamped, NEW q \in opened' \ rewritten', NEW k \in Key, Valid(q)'
               PROVE  cache'[q][k] = Clean(Content(file)[k])
    BY DEF CacheCoherent
  <1>1. q \in Process
    BY DEF TypeOK
  <1>2. CASE q = p
    BY <1>2, PrefetchAgrees DEF Agrees
  <1>3. CASE q # p
    <2>1. cache'[q] = cache[q] /\ readTime'[q] = readTime[q] /\ q \in opened \ rewritten
      BY <1>1, <1>3, PrefetchOthers
    <2>2. Valid(q)
      BY <2>1 DEF Valid, CacheEmpty
    <2> QED
      BY <2>1, <2>2 DEF CacheCoherent
  <1> QED
    BY <1>2, <1>3

\* A step that touches neither file, time nor copies, and opens no database,
\* keeps coherence.
LEMMA UntouchedCoherent ==
    ASSUME CacheCoherent, UNCHANGED <<file, time, cache, readTime, opened, auxVars>>
    PROVE  CacheCoherent'
  BY DEF CacheCoherent, Valid, CacheEmpty, auxVars

\* Opening the database without a copy keeps coherence.
LEMMA TimeoutCoherent ==
    ASSUME IInv, NEW p \in Process, GetCachedTimeout(p), NEW q \in Process, NEW k \in Key,
           q \in opened /\ Valid(q) => Agrees(q, k), q \in opened', Valid(q)', stamped
    PROVE  Agrees(q, k)'
  <1> USE DEF GetCachedTimeout, auxVars
  <1>1. CASE q \in opened
    BY <1>1 DEF Agrees, Valid, CacheEmpty
  <1>2. CASE q \notin opened /\ file = Missing
    BY <1>2 DEF Agrees, Valid, CacheEmpty, Content, NoText
  <1>3. CASE q \notin opened /\ file # Missing
    <2>1. readTime[q] = 0 /\ time \in Nat
      BY <1>3 DEF IInv, FreshInv, ClockInv, TypeOK
    <2> QED
      BY <1>3, <2>1 DEF Valid
  <1> QED
    BY <1>1, <1>2, <1>3

\* What the first step of an operation does: it finds its answer in the copy, or
\* reads the file into the copy first, or writes the file, or fails to.
LEMMA OperationForms ==
    ASSUME TypeOK, NEW p \in Process, Operation(p)
    PROVE  /\ p \in opened /\ holder = None /\ holder' = p /\ UNCHANGED <<opened, time>>
           /\ \/ call'.at = "return" /\ UNCHANGED <<file, clock, cache, readTime, auxVars>>
              \/ call'.at = "return" /\ Prefetch(p) /\ UNCHANGED <<file, stamped>>
              \/ /\ file' \in [Key -> Record] /\ stamped' = FALSE
                 /\ UNCHANGED <<clock, cache, readTime, rewritten>>
  <1> DEFINE Goal ==
        /\ p \in opened /\ holder = None /\ holder' = p /\ UNCHANGED <<opened, time>>
        /\ \/ call'.at = "return" /\ UNCHANGED <<file, clock, cache, readTime, auxVars>>
           \/ call'.at = "return" /\ Prefetch(p) /\ UNCHANGED <<file, stamped>>
           \/ /\ file' \in [Key -> Record] /\ stamped' = FALSE
              /\ UNCHANGED <<clock, cache, readTime, rewritten>>
  <1>1. ASSUME NEW op, NEW k \in Key, WriteFails(p, op, k) PROVE Goal
    BY <1>1 DEF WriteFails, Begin
  <1>2. ASSUME NEW op, NEW k \in Key, NEW new, NEW valid, NEW a, NEW r \in Record,
               Begin(p, op, k, "touch", new, valid, a), Write(k, r)
        PROVE  Goal
    BY <1>2, WriteType DEF Begin, Write
  <1>3. PICK k \in Key :
          \/ FindRecord(p, k)
          \/ \E r \in Record : StoreRecord(p, k, r)
          \/ \E i \in Id, v \in Value : UpdateRecord(p, k, Single(i, v))
          \/ RemoveRecord(p, k)
          \/ \E i \in Id : Remove(p, k, i)
    BY DEF Operation
  <1>4. CASE FindRecord(p, k)
    BY <1>4 DEF FindRecord, Begin, auxVars
  <1>5. CASE \E r \in Record : StoreRecord(p, k, r)
    BY <1>5, <1>1, <1>2 DEF StoreRecord
  <1>6. CASE \E i \in Id, v \in Value : UpdateRecord(p, k, Single(i, v))
    <2>1. PICK i \in Id, v \in Value : UpdateRecord(p, k, Single(i, v))
      BY <1>6
    <2>2. Merge(Single(i, v), Content(file)[k]) \in Record
      BY RecordTypes, ContentType DEF TypeOK
    <2> QED
      BY <2>1, <2>2, <1>1, <1>2 DEF UpdateRecord
  <1>7. CASE RemoveRecord(p, k)
    BY <1>7, <1>1, <1>2, RecordTypes DEF RemoveRecord
  <1>8. CASE \E i \in Id : Remove(p, k, i)
    <2>1. PICK i \in Id : Remove(p, k, i)
      BY <1>8
    <2> DEFINE old == cache[p][k]
               new == [record |-> EraseValues(old.record, i), eol |-> old.eol \ {i}]
    <2>2. EraseValues(old.record, i) \in Record
      BY RecordTypes DEF TypeOK, Text
    <2>3. \A S \in LineIds(new) : Only(new.record, S) \in Record
      BY <2>2, RecordTypes DEF LineIds, Ids
    <2>4. \/ /\ Begin(p, "Remove", k, "return", NoText, FALSE, Answer(FALSE, NoText))
             /\ UNCHANGED <<file, time, clock, cache, readTime, auxVars>>
          \/ /\ \E valid \in Validity(p) :
                   Begin(p, "Remove", k, "touch", new, valid, Answer(TRUE, NoText))
             /\ \E S \in LineIds(new) : Write(k, Only(new.record, S))
          \/ WriteFails(p, "Remove", k)
      BY <2>1 DEF Remove
    <2>5. CASE /\ Begin(p, "Remove", k, "return", NoText, FALSE, Answer(FALSE, NoText))
               /\ UNCHANGED <<file, time, clock, cache, readTime, auxVars>>
      BY <2>5 DEF Begin
    <2>6. CASE /\ \E valid \in Validity(p) :
                     Begin(p, "Remove", k, "touch", new, valid, Answer(TRUE, NoText))
               /\ \E S \in LineIds(new) : Write(k, Only(new.record, S))
      BY <2>6, <2>3, <1>2
    <2> QED
      BY <2>4, <2>5, <2>6, <1>1
  <1> QED
    BY <1>3, <1>4, <1>5, <1>6, <1>7, <1>8

\* Every step of UpdateDbModificationTime is one of three.
LEMMA TouchForms ==
    ASSUME NEW p \in Process, UpdateDbModificationTime(p)
    PROVE  \E from, to \in Stages \ {"return"} :
               Truncate(p, from, to) \/ Stamp(p, from, to) \/ TimeFileFails(p, from, to)
  BY DEF UpdateDbModificationTime, AfterStamp, Stages

\* Every step keeps the clock ahead, the unopened without a copy, and the file
\* written while an operation is past its change.
LEMMA AuxStep ==
    ASSUME TypeOK, ClockInv, FreshInv, FileInv, Next
    PROVE  ClockInv' /\ FreshInv' /\ FileInv'
  <1> USE RamDbAssumption DEF TypeOK, ClockInv, FreshInv, FileInv
  <1>1. ASSUME NEW p \in Process, Prefetch(p) PROVE
          /\ clock' \in Nat /\ \A q \in Process : readTime'[q] \in Nat
          /\ clock <= clock' /\ readTime'[p] <= clock'
          /\ \A q \in Process \ {p} : readTime'[q] = readTime[q]
    BY <1>1, PrefetchType DEF Prefetch, Now
  <1>2. ASSUME NEW p \in Process, GetCached(p) \/ GetCachedTimeout(p)
        PROVE ClockInv' /\ FreshInv' /\ FileInv'
    <2>1. CASE GetCached(p)
      <3>1. /\ Prefetch(p) /\ holder = None
            /\ UNCHANGED <<time, holder, stamped>> /\ opened' = opened \cup {p}
        BY <2>1 DEF GetCached
      <3> QED
        BY <3>1, <1>1
    <2>2. CASE GetCachedTimeout(p)
      BY <2>2 DEF GetCachedTimeout, auxVars
    <2> QED
      BY <1>2, <2>1, <2>2
  <1>3. ASSUME NEW p \in Process, Operation(p) PROVE ClockInv' /\ FreshInv' /\ FileInv'
    <2>1. CASE call'.at = "return" /\ UNCHANGED <<file, clock, cache, readTime, auxVars>>
      BY <2>1, <1>3, OperationForms DEF auxVars
    <2>2. CASE call'.at = "return" /\ Prefetch(p) /\ UNCHANGED <<file, stamped>>
      <3>1. p \in opened /\ holder' = p /\ UNCHANGED <<opened, time>>
        BY <1>3, OperationForms
      <3> QED
        BY <3>1, <2>2, <1>1
    <2>3. CASE /\ file' \in [Key -> Record] /\ stamped' = FALSE
               /\ UNCHANGED <<clock, cache, readTime, rewritten>>
      BY <2>3, <1>3, OperationForms
    <2> QED
      BY <1>3, <2>1, <2>2, <2>3, OperationForms
  <1>4. ASSUME NEW p \in Process, UpdateDbModificationTime(p)
        PROVE ClockInv' /\ FreshInv' /\ FileInv'
    <2>1. PICK from \in Stages \ {"return"}, to \in Stages \ {"return"} :
            Truncate(p, from, to) \/ Stamp(p, from, to) \/ TimeFileFails(p, from, to)
      BY <1>4, TouchForms
    <2>2. CASE Truncate(p, from, to)
      BY <2>2 DEF Truncate, At, Emptied
    <2>3. CASE Stamp(p, from, to)
      BY <2>3 DEF Stamp, At, Now
    <2>4. CASE TimeFileFails(p, from, to)
      BY <2>4 DEF TimeFileFails, At, auxVars
    <2> QED
      BY <2>1, <2>2, <2>3, <2>4
  <1>5. ASSUME NEW p \in Process, Validate(p) \/ CacheSkipped(p)
        PROVE ClockInv' /\ FreshInv' /\ FileInv'
    <2>1. /\ holder = p /\ call.at # "return"
          /\ UNCHANGED <<file, time, clock, opened, readTime, holder, stamped>>
      BY <1>5 DEF Validate, CacheSkipped, At, auxVars
    <2> QED
      BY <2>1
  <1>6. ASSUME NEW p \in Process, CacheWritten(p) PROVE ClockInv' /\ FreshInv' /\ FileInv'
    <2>1. call' = [call EXCEPT !.at = "return"] /\ call \in Call
      BY <1>6 DEF CacheWritten, At, Goto
    <2>2. call'.at = "return"
      BY <2>1 DEF Call
    <2>3. FreshInv'
      BY <1>6 DEF CacheWritten, At
    <2>4. ClockInv'
      BY <1>6 DEF CacheWritten, Now
    <2> QED
      BY <2>2, <2>3, <2>4
  <1>7. ASSUME NEW p \in Process, Return(p) PROVE ClockInv' /\ FreshInv' /\ FileInv'
    BY <1>7 DEF Return, auxVars
  <1>8. ASSUME NEW p \in Process, LoseFile(p) \/ Exit(p)
        PROVE  ClockInv' /\ FreshInv' /\ FileInv'
    <2>1. CASE LoseFile(p)
      BY <2>1 DEF LoseFile
    <2>2. CASE Exit(p)
      BY <2>2 DEF Exit
    <2> QED
      BY <1>8, <2>1, <2>2
  <1> QED
    BY <1>2, <1>3, <1>4, <1>5, <1>6, <1>7, <1>8 DEF Next, Continue

\* Every step keeps the copies coherent.
LEMMA CoherentStep ==
    ASSUME IInv, Next
    PROVE  CacheCoherent'
  <1>0. TypeOK /\ CacheCoherent
    BY DEF IInv
  <1>1. ASSUME NEW p \in Process, GetCached(p) PROVE CacheCoherent'
    BY <1>0, <1>1, PrefetchCoherent DEF GetCached
  <1>2. ASSUME NEW p \in Process, GetCachedTimeout(p) PROVE CacheCoherent'
    <2> SUFFICES ASSUME stamped, NEW q \in opened' \ rewritten', NEW k \in Key, Valid(q)'
                 PROVE  Agrees(q, k)'
      BY <1>2 DEF CacheCoherent, GetCachedTimeout, auxVars, Agrees
    <2>1. q \in Process /\ q \notin rewritten
      BY <1>0, <1>2 DEF GetCachedTimeout, auxVars, TypeOK
    <2>2. q \in opened /\ Valid(q) => Agrees(q, k)
      BY <1>0, <2>1 DEF CacheCoherent, Agrees
    <2> QED
      BY <1>2, <2>1, <2>2, TimeoutCoherent
  <1>3. ASSUME NEW p \in Process, Operation(p) PROVE CacheCoherent'
    <2>1. p \in opened /\ UNCHANGED <<opened, time>>
      BY <1>0, <1>3, OperationForms
    <2>2. CASE UNCHANGED <<file, clock, cache, readTime, auxVars>>
      BY <2>1, <2>2, <1>0, UntouchedCoherent
    <2>3. CASE Prefetch(p) /\ UNCHANGED <<file, stamped>>
      BY <2>1, <2>3, <1>0, PrefetchCoherent
    <2>4. CASE stamped' = FALSE
      BY <2>4 DEF CacheCoherent
    <2> QED
      BY <1>0, <1>3, <2>2, <2>3, <2>4, OperationForms
  <1>4. ASSUME NEW p \in Process, UpdateDbModificationTime(p) PROVE CacheCoherent'
    <2>1. PICK from \in Stages \ {"return"}, to \in Stages \ {"return"} :
            Truncate(p, from, to) \/ Stamp(p, from, to) \/ TimeFileFails(p, from, to)
      BY <1>4, TouchForms
    <2>2. CASE Truncate(p, from, to)
      BY <2>2 DEF Truncate, CacheCoherent
    <2>3. CASE Stamp(p, from, to)
      <3>1. \A q \in Process : ~ Valid(q)'
        BY <2>3, StampInvalidates
      <3>2. opened' \subseteq Process
        BY <1>0, <2>3 DEF Stamp, TypeOK
      <3> QED
        BY <3>1, <3>2 DEF CacheCoherent
    <2>4. CASE TimeFileFails(p, from, to)
      BY <2>4, <1>0, UntouchedCoherent DEF TimeFileFails
    <2> QED
      BY <2>1, <2>2, <2>3, <2>4
  <1>5. ASSUME NEW p \in Process, Validate(p) \/ CacheSkipped(p) \/ Return(p)
        PROVE  CacheCoherent'
    BY <1>5, <1>0, UntouchedCoherent DEF Validate, CacheSkipped, Return
  <1>6. ASSUME NEW p \in Process, CacheWritten(p) PROVE CacheCoherent'
    <2>1. \A q \in opened' \ rewritten' :
            q \in opened \ rewritten /\ cache'[q] = cache[q] /\ readTime'[q] = readTime[q]
      BY <1>0, <1>6 DEF CacheWritten, TypeOK
    <2> QED
      BY <1>0, <1>6, <2>1 DEF CacheWritten, CacheCoherent, Valid, CacheEmpty
  <1>7. ASSUME NEW p \in Process, Exit(p) PROVE CacheCoherent'
    <2>1. \A q \in opened' \ rewritten' :
            q \in opened \ rewritten /\ cache'[q] = cache[q] /\ readTime'[q] = readTime[q]
      BY <1>0, <1>7 DEF Exit, TypeOK
    <2> QED
      BY <1>0, <1>7, <2>1 DEF Exit, CacheCoherent, Valid, CacheEmpty
  <1>8. ASSUME NEW p \in Process, LoseFile(p) PROVE CacheCoherent'
    BY <1>8 DEF LoseFile, CacheCoherent
  <1> QED
    BY <1>1, <1>2, <1>3, <1>4, <1>5, <1>6, <1>7, <1>8 DEF Next, Continue

\* The inductive invariant.
THEOREM Invariant == Spec => []IInv
  <1>1. Init => IInv
    <2> SUFFICES ASSUME Init PROVE ClockInv /\ FreshInv /\ FileInv /\ CacheCoherent
      BY InitType DEF IInv
    <2>1. ClockInv /\ FileInv
      BY DEF Init, ClockInv, FileInv
    <2>2. FreshInv /\ CacheCoherent
      BY RamDbAssumption DEF Init, FreshInv, CacheCoherent
    <2> QED
      BY <2>1, <2>2
  <1>2. IInv /\ [Next]_vars => IInv'
    <2> SUFFICES ASSUME IInv, [Next]_vars PROVE IInv'
      OBVIOUS
    <2>1. TypeOK'
      BY TypeStep DEF IInv
    <2>2. CASE Next
      BY <2>1, <2>2, AuxStep, CoherentStep DEF IInv
    <2>3. CASE UNCHANGED vars
      BY <2>3 DEF vars, dbVars, auxVars, IInv, TypeOK, ClockInv, FreshInv, FileInv, CacheCoherent,
                  Valid, CacheEmpty
    <2> QED
      BY <2>2, <2>3
  <1> QED
    BY <1>1, <1>2, PTL DEF Spec

\* Whatever fails, whoever dies and whatever operations are used: once the time
\* has been written after the last change, a process that takes the copy it has
\* read for valid has exactly what the file holds.
THEOREM Coherence == Spec => []CacheCoherent
  BY Invariant, PTL DEF IInv

------------------------------------------------------------------------------
(* While <database>.time can be written, nobody dies inside an operation    *)
(* and Remove is not used.                                                  *)

Calm == "Remove" \notin UsedCalls /\ Faults \subseteq {"db_file"}

InOperation(l) == holder # None /\ call.at = l

\* The time is behind the file only between the change and the writing of the
\* time.
StampInv ==
    ~ stamped => \E l \in {"touch", "stamp", "retouch", "restamp"} : InOperation(l)

\* When UpdateCacheEntryUnsafe looks, every copy is too old.
OldInv == InOperation("validate") => \A p \in Process : readTime[p] <= time

\* A write-through that is going to happen is that of a RemoveRecord, and the
\* rest of the copy agrees with the file.
Pending ==
    /\ call.op = "RemoveRecord" /\ call.new = NoText
    /\ file[call.key] = EmptyRecord
    /\ \A k \in Key \ {call.key} : cache[holder][k] = Clean(file[k])

PendingInv == holder # None /\ call.at # "return" /\ call.valid => Pending

\* A copy that passes for valid is what the file holds.
AllCoherent ==
    stamped => \A p \in opened, k \in Key : Valid(p) => Agrees(p, k)

\* Before the first write nobody has a copy of anything.
EmptyInv == file = Missing => \A p \in Process : CacheEmpty(p)

CInv == StampInv /\ OldInv /\ PendingInv /\ AllCoherent

\* In a calm use the file is never lost, so neither is this.
LEMMA EmptyStep ==
    ASSUME Calm, IInv, EmptyInv, Next
    PROVE  EmptyInv'
  <1>0. TypeOK
    BY DEF IInv
  <1> SUFFICES ASSUME file' = Missing PROVE \A p \in Process : CacheEmpty(p)'
    BY DEF EmptyInv
  <1>1. ASSUME NEW p \in Process, Prefetch(p), UNCHANGED file PROVE UNCHANGED cache
    BY <1>1 DEF Prefetch
  <1>2. CASE UNCHANGED <<file, cache>>
    BY <1>2 DEF EmptyInv, CacheEmpty
  <1>3. ASSUME NEW p \in Process, GetCached(p) PROVE UNCHANGED <<file, cache>>
    BY <1>1, <1>3 DEF GetCached
  <1>4. ASSUME NEW p \in Process, Operation(p) PROVE UNCHANGED <<file, cache>>
    BY <1>0, <1>1, <1>4, OperationForms, RamDbAssumption
  <1>5. ASSUME NEW p \in Process, CacheWritten(p) PROVE FALSE
    BY <1>5, RamDbAssumption DEF CacheWritten, At, IInv, FileInv
  <1>6. ASSUME NEW p \in Process, Exit(p) PROVE \A q \in Process : CacheEmpty(q)'
    BY <1>0, <1>6 DEF Exit, EmptyInv, CacheEmpty, TypeOK
  <1> QED
    BY <1>2, <1>3, <1>4, <1>5, <1>6
    DEF Next, Continue, GetCachedTimeout, UpdateDbModificationTime, Truncate, Stamp, TimeFileFails,
        Validate, CacheSkipped, Return, LoseFile, Calm

\* How an operation other than Remove changes the file: it is not going to
\* write through, or it removes a record while its copy is valid.
LEMMA CalmForms ==
    ASSUME Calm, TypeOK, NEW p \in Process, Operation(p)
    PROVE  \/ call'.at = "return" /\ UNCHANGED <<file, clock, cache, readTime, auxVars>>
           \/ call'.at = "return" /\ Prefetch(p) /\ UNCHANGED <<file, stamped>>
           \/ /\ call'.at = "touch" /\ call'.valid = FALSE /\ stamped' = FALSE
              /\ UNCHANGED <<clock, cache, readTime, rewritten>>
           \/ /\ call'.at = "touch" /\ stamped' = FALSE
              /\ UNCHANGED <<clock, cache, readTime, rewritten>>
              /\ call'.op = "RemoveRecord" /\ (call'.valid => Valid(p)) /\ call'.new = NoText
              /\ call'.key \in Key
              /\ file' = [Content(file) EXCEPT ![call'.key] = EmptyRecord]
  <1> DEFINE Goal ==
           \/ call'.at = "return" /\ UNCHANGED <<file, clock, cache, readTime, auxVars>>
           \/ call'.at = "return" /\ Prefetch(p) /\ UNCHANGED <<file, stamped>>
           \/ /\ call'.at = "touch" /\ call'.valid = FALSE /\ stamped' = FALSE
              /\ UNCHANGED <<clock, cache, readTime, rewritten>>
           \/ /\ call'.at = "touch" /\ stamped' = FALSE
              /\ UNCHANGED <<clock, cache, readTime, rewritten>>
              /\ call'.op = "RemoveRecord" /\ (call'.valid => Valid(p)) /\ call'.new = NoText
              /\ call'.key \in Key
              /\ file' = [Content(file) EXCEPT ![call'.key] = EmptyRecord]
  <1>1. ASSUME NEW op, NEW k \in Key, WriteFails(p, op, k) PROVE Goal
    BY <1>1 DEF WriteFails, Begin
  <1>2. ASSUME NEW op, NEW k \in Key, NEW new, NEW a, NEW r,
               Begin(p, op, k, "touch", new, FALSE, a), Write(k, r)
        PROVE  Goal
    BY <1>2 DEF Begin, Write
  <1>3. PICK k \in Key :
          \/ FindRecord(p, k)
          \/ \E r \in Record : StoreRecord(p, k, r)
          \/ \E i \in Id, v \in Value : UpdateRecord(p, k, Single(i, v))
          \/ RemoveRecord(p, k)
          \/ \E i \in Id : Remove(p, k, i)
    BY DEF Operation
  <1>4. CASE FindRecord(p, k)
    BY <1>4 DEF FindRecord, Begin, auxVars
  <1>5. CASE \E r \in Record : StoreRecord(p, k, r)
    BY <1>5, <1>1, <1>2 DEF StoreRecord
  <1>6. CASE \E i \in Id, v \in Value : UpdateRecord(p, k, Single(i, v))
    BY <1>6, <1>1, <1>2 DEF UpdateRecord
  <1>7. CASE RemoveRecord(p, k)
    <2>1. CASE WriteFails(p, "RemoveRecord", k)
      BY <2>1, <1>1
    <2>2. ASSUME NEW valid \in Validity(p), Write(k, EmptyRecord),
                 Begin(p, "RemoveRecord", k, "touch", NoText, valid, Answer(TRUE, NoText))
          PROVE  Goal
      BY <2>2, ValidityValid DEF Begin, Write
    <2> QED
      BY <1>7, <2>1, <2>2 DEF RemoveRecord
  <1>8. CASE \E i \in Id : Remove(p, k, i)
    BY <1>8 DEF Remove, Begin, WriteFails, Calm
  <1> QED
    BY <1>3, <1>4, <1>5, <1>6, <1>7, <1>8

\* Reading the file keeps all copies coherent.
LEMMA PrefetchAllCoherent ==
    ASSUME TypeOK, AllCoherent, NEW p \in Process, Prefetch(p),
           UNCHANGED <<file, time, stamped>>, opened' \subseteq opened \cup {p}
    PROVE  AllCoherent'
  <1> SUFFICES ASSUME stamped, NEW q \in opened', NEW k \in Key, Valid(q)'
               PROVE  Agrees(q, k)'
    BY DEF AllCoherent
  <1>1. q \in Process
    BY DEF TypeOK
  <1>2. CASE q = p
    BY <1>2, PrefetchAgrees
  <1>3. CASE q # p
    <2>1. cache'[q] = cache[q] /\ readTime'[q] = readTime[q] /\ q \in opened
      BY <1>1, <1>3, PrefetchOthers
    <2>2. Valid(q)
      BY <2>1 DEF Valid, CacheEmpty
    <2> QED
      BY <2>1, <2>2 DEF AllCoherent, Agrees
  <1> QED
    BY <1>2, <1>3

\* In a calm use every step keeps the calm invariant.
LEMMA CalmStep ==
    ASSUME Calm, IInv, CInv, Next
    PROVE  CInv'
  <1>0. TypeOK /\ StampInv /\ OldInv /\ PendingInv /\ AllCoherent /\ FileInv /\ FreshInv
    BY DEF IInv, CInv
  <1> USE RamDbAssumption DEF InOperation
  <1>1. ASSUME NEW p \in Process, GetCached(p) PROVE CInv'
    <2>1. AllCoherent'
      BY <1>0, <1>1, PrefetchAllCoherent DEF GetCached
    <2>2. (StampInv /\ OldInv /\ PendingInv)'
      BY <1>0, <1>1 DEF GetCached, StampInv, OldInv, PendingInv
    <2> QED
      BY <2>1, <2>2 DEF CInv
  <1>2. ASSUME NEW p \in Process, GetCachedTimeout(p) PROVE CInv'
    <2>1. AllCoherent'
      <3> SUFFICES ASSUME stamped', NEW q \in opened', NEW k \in Key, Valid(q)'
                   PROVE  Agrees(q, k)'
        BY DEF AllCoherent
      <3>1. q \in Process /\ stamped
        BY <1>0, <1>2 DEF GetCachedTimeout, auxVars, TypeOK
      <3>2. q \in opened /\ Valid(q) => Agrees(q, k)
        BY <1>0, <3>1 DEF AllCoherent
      <3> QED
        BY <1>2, <3>1, <3>2, TimeoutCoherent
    <2>2. (StampInv /\ OldInv /\ PendingInv)'
      BY <1>0, <1>2 DEF GetCachedTimeout, auxVars, StampInv, OldInv, PendingInv, Pending
    <2> QED
      BY <2>1, <2>2 DEF CInv
  <1>3. ASSUME NEW p \in Process, Operation(p) PROVE CInv'
    <2>1. p \in opened /\ holder = None /\ holder' = p /\ UNCHANGED <<opened, time>>
      BY <1>0, <1>3, OperationForms
    <2>2. stamped
      BY <1>0, <2>1 DEF StampInv
    <2>3. CASE call'.at = "return" /\ UNCHANGED <<file, clock, cache, readTime, auxVars>>
      BY <1>0, <2>1, <2>3
      DEF CInv, StampInv, OldInv, PendingInv, AllCoherent, Agrees, Valid, CacheEmpty, auxVars
    <2>4. CASE call'.at = "return" /\ Prefetch(p) /\ UNCHANGED <<file, stamped>>
      <3>1. AllCoherent'
        BY <1>0, <2>1, <2>4, PrefetchAllCoherent
      <3> QED
        BY <2>1, <2>2, <2>4, <3>1 DEF CInv, StampInv, OldInv, PendingInv
    <2>5. CASE call'.at = "touch" /\ call'.valid = FALSE /\ stamped' = FALSE
      BY <2>1, <2>5 DEF CInv, StampInv, OldInv, PendingInv, AllCoherent
    <2>6. CASE /\ call'.at = "touch" /\ stamped' = FALSE
               /\ UNCHANGED <<clock, cache, readTime, rewritten>>
               /\ call'.op = "RemoveRecord" /\ (call'.valid => Valid(p)) /\ call'.new = NoText
               /\ call'.key \in Key
               /\ file' = [Content(file) EXCEPT ![call'.key] = EmptyRecord]
      <3>1. Valid(p) => \A k \in Key : cache[p][k] = Clean(Content(file)[k])
        BY <1>0, <2>1, <2>2 DEF AllCoherent, Agrees
      <3>2. Content(file) \in [Key -> Record]
        BY <1>0, ContentType DEF TypeOK
      <3>3. PendingInv'
        BY <2>1, <2>6, <3>1, <3>2 DEF PendingInv, Pending
      <3> QED
        BY <2>1, <2>6, <3>3 DEF CInv, StampInv, OldInv, AllCoherent
    <2> QED
      BY <1>0, <1>3, <2>3, <2>4, <2>5, <2>6, CalmForms
  <1>4. ASSUME NEW p \in Process, UpdateDbModificationTime(p) PROVE CInv'
    <2>1. call \in Call /\ holder = p
      BY <1>0, <1>4 DEF UpdateDbModificationTime, Truncate, Stamp, TimeFileFails, At, TypeOK
    <2>2. PICK from \in Stages \ {"return"}, to \in Stages \ {"return"} :
            Truncate(p, from, to) \/ Stamp(p, from, to)
      BY <1>4, TouchForms DEF TimeFileFails, Calm
    <2>3. /\ call' = [call EXCEPT !.at = to] /\ call.at = from
          /\ UNCHANGED <<file, cache, readTime, opened, holder>>
      BY <2>2 DEF Truncate, Stamp, Goto, At
    <2>4. PendingInv'
      BY <1>0, <2>1, <2>3 DEF PendingInv, Pending, Call
    <2>5. CASE Stamp(p, from, to)
      <3>1. \A q \in Process : readTime'[q] <= time' /\ ~ Valid(q)'
        BY <2>5, StampInvalidates
      <3>2. opened' \subseteq Process
        BY <1>0, <2>3 DEF TypeOK
      <3> QED
        BY <2>4, <2>5, <3>1, <3>2 DEF Stamp, CInv, StampInv, OldInv, AllCoherent
    <2>6. CASE ~ Stamp(p, from, to)
      <3>1. stamped' = FALSE
        BY <2>2, <2>6 DEF Truncate
      <3>2. call'.at \in {"stamp", "restamp"}
        BY <1>4, <2>1, <3>1 DEF UpdateDbModificationTime, Truncate, Stamp, TimeFileFails, Goto, Call, Calm
      <3> QED
        BY <2>1, <2>3, <2>4, <3>1, <3>2 DEF CInv, StampInv, OldInv, AllCoherent
    <2> QED
      BY <2>5, <2>6
  <1>5. ASSUME NEW p \in Process, Validate(p) PROVE CInv'
    <2>1. call \in Call /\ holder = p /\ p # None /\ call.at = "validate"
      BY <1>0, <1>5 DEF Validate, At, TypeOK
    <2>2. file # Missing /\ readTime[p] <= time
      BY <1>0, <2>1 DEF FileInv, OldInv
    <2>3. ~ Valid(p)
      BY <1>0, <2>2 DEF Valid, TypeOK
    <2>4. call'.at = "retouch" /\ call'.valid = FALSE
      <3>1. PICK valid \in Validity(p) : call' = [call EXCEPT !.at = "retouch", !.valid = valid]
        BY <1>5 DEF Validate
      <3>2. valid = FALSE
        BY <1>0, <2>3, ValidityValid
      <3> QED
        BY <2>1, <3>1, <3>2 DEF Call
    <2> QED
      BY <1>0, <1>5, <2>1, <2>4
      DEF Validate, CInv, StampInv, OldInv, PendingInv, AllCoherent, Agrees, Valid, CacheEmpty, auxVars
  <1>6. ASSUME NEW p \in Process, CacheSkipped(p) PROVE CInv'
    <2>1. call \in Call /\ holder = p /\ p # None /\ call.at = "cache"
      BY <1>0, <1>6 DEF CacheSkipped, At, TypeOK
    <2>2. call'.at = "return"
      BY <1>6, <2>1 DEF CacheSkipped, Goto, Call
    <2>3. stamped
      BY <1>0, <2>1 DEF StampInv
    <2> QED
      BY <1>0, <1>6, <2>2, <2>3
      DEF CacheSkipped, CInv, StampInv, OldInv, PendingInv, AllCoherent, Agrees, Valid, CacheEmpty, auxVars
  <1>7. ASSUME NEW p \in Process, CacheWritten(p) PROVE CInv'
    <2>1. call \in Call /\ holder = p /\ p # None /\ call.at = "cache" /\ call.valid
      BY <1>0, <1>7 DEF CacheWritten, At, TypeOK
    <2>2. call'.at = "return"
      BY <1>7, <2>1 DEF CacheWritten, Goto, Call
    <2>3. stamped /\ file # Missing /\ Pending
      BY <1>0, <2>1 DEF StampInv, FileInv, PendingInv
    <2>4. cache' = [cache EXCEPT ![p][call.key] = NoText]
      <3>1. NoText.record = EmptyRecord
        BY DEF NoText, Clean
      <3>2. Rewritten(call.new) = {NoText}
        BY <2>3, <3>1 DEF Rewritten, Pending
      <3> QED
        BY <1>7, <3>2 DEF CacheWritten
    <2>5. \A k \in Key : cache'[p][k] = Clean(file[k])
      BY <1>0, <2>1, <2>3, <2>4 DEF Pending, NoText, TypeOK, Call
    <2>6. AllCoherent'
      <3> SUFFICES ASSUME NEW q \in opened', NEW k \in Key, Valid(q)' PROVE Agrees(q, k)'
        BY DEF AllCoherent
      <3>1. UNCHANGED <<file, time, opened>>
        BY <1>7 DEF CacheWritten
      <3>2. CASE q = p
        BY <2>3, <2>5, <3>1, <3>2 DEF Agrees, Content
      <3>3. CASE q # p
        <4>1. q \in opened /\ cache'[q] = cache[q] /\ readTime'[q] = readTime[q]
          BY <1>0, <1>7, <3>1, <3>3 DEF CacheWritten, TypeOK
        <4> QED
          BY <1>0, <2>3, <3>1, <4>1 DEF AllCoherent, Agrees, Valid, CacheEmpty
      <3> QED
        BY <3>2, <3>3
    <2> QED
      BY <1>7, <2>2, <2>3, <2>6 DEF CacheWritten, CInv, StampInv, OldInv, PendingInv
  <1>8. ASSUME NEW p \in Process, Return(p) PROVE CInv'
    <2>1. stamped
      BY <1>0, <1>8 DEF Return, At, StampInv
    <2> QED
      BY <1>0, <1>8, <2>1
      DEF Return, CInv, StampInv, OldInv, PendingInv, AllCoherent, Agrees, Valid, CacheEmpty, auxVars
  <1>9. ASSUME NEW p \in Process, Exit(p) PROVE CInv'
    <2>1. holder # p /\ UNCHANGED <<holder, call, file, time, stamped>>
      BY <1>9 DEF Exit, Calm
    <2>2. \A q \in opened' : q \in opened /\ q # p
      BY <1>9 DEF Exit
    <2>3. \A q \in Process \ {p} : cache'[q] = cache[q] /\ readTime'[q] = readTime[q]
      BY <1>0, <1>9 DEF Exit, TypeOK
    <2>4. AllCoherent'
      BY <1>0, <2>1, <2>2, <2>3 DEF AllCoherent, Agrees, Valid, CacheEmpty, TypeOK
    <2>5. OldInv'
      BY <1>0, <1>9, <2>1, <2>3 DEF Exit, OldInv, TypeOK
    <2>6. PendingInv'
      BY <1>0, <2>1, <2>3 DEF PendingInv, Pending, TypeOK
    <2> QED
      BY <1>0, <2>1, <2>4, <2>5, <2>6 DEF CInv, StampInv
  <1> QED
    BY <1>1, <1>2, <1>3, <1>4, <1>5, <1>6, <1>7, <1>8, <1>9 DEF Next, Continue, LoseFile, Calm

\* In a calm use the calm invariant holds.
LEMMA CalmInvariant == Calm => (Spec => [](CInv /\ EmptyInv))
  <1> SUFFICES ASSUME Calm PROVE Spec => [](CInv /\ EmptyInv)
    OBVIOUS
  <1>1. Init => CInv /\ EmptyInv
    BY DEF Init, CInv, StampInv, OldInv, PendingInv, AllCoherent, InOperation, EmptyInv, CacheEmpty
  <1>2. IInv /\ CInv /\ EmptyInv /\ [Next]_vars => CInv' /\ EmptyInv'
    <2> SUFFICES ASSUME IInv, CInv, EmptyInv, [Next]_vars PROVE CInv' /\ EmptyInv'
      OBVIOUS
    <2>1. CASE Next
      BY <2>1, CalmStep, EmptyStep
    <2>2. CASE UNCHANGED vars
      BY <2>2 DEF vars, dbVars, auxVars, CInv, StampInv, OldInv, PendingInv, Pending, AllCoherent,
                  Agrees, Valid, CacheEmpty, InOperation, EmptyInv
    <2> QED
      BY <2>1, <2>2
  <1> QED
    BY <1>1, <1>2, Invariant, PTL DEF Spec

\* Without Remove, and while the time can be written and nobody dies inside an
\* operation, no operation reads from a stale copy: every copy that passes for
\* valid is the file, and the time is up to date between operations.
THEOREM NothingStale == Calm => (Spec => []CopiesFollow)
  <1> SUFFICES ASSUME Calm PROVE Spec => []CopiesFollow
    OBVIOUS
  <1>1. CInv => CopiesFollow
    BY DEF CInv, StampInv, InOperation, AllCoherent, Agrees, CopiesFollow
  <1> QED
    BY <1>1, CalmInvariant, PTL

\* UpdateCacheEntryUnsafe asks whether the copy is valid after StoreRecord or
\* UpdateRecord has written the time, so it finds every copy too old.
StoringAgesCopy ==
    \A p \in Process :
        At(p, "cache") /\ call.op \in {"StoreRecord", "UpdateRecord"} => ~ call.valid

\* In that use these two never write through: the performance gain for which
\* ramdb.hpp enables the feature is that of RemoveRecord alone.
THEOREM NoWriteThrough == Calm => (Spec => []StoringAgesCopy)
  <1> SUFFICES ASSUME Calm PROVE Spec => []StoringAgesCopy
    OBVIOUS
  <1>1. CInv => StoringAgesCopy
    BY RamDbAssumption DEF CInv, PendingInv, Pending, StoringAgesCopy, At
  <1> QED
    BY <1>1, CalmInvariant, PTL

------------------------------------------------------------------------------
(* In a calm use, RamDb is the abstract store.                              *)

\* What a client of the store is about to be told.
Pledge == [p \in Process |->
             IF holder = p
             THEN [ok |-> call.answer.ok, record |-> call.answer.found.record]
             ELSE NoAnswer]

\* A step that leaves the contents and the answer alone is a stutter.
LEMMA Stutters ==
    ASSUME UNCHANGED file, Pledge' = Pledge
    PROVE  UNCHANGED Store!vars
  BY DEF Store!vars, Pledge, Content

\* The operation that begins is told its answer.
LEMMA Told ==
    ASSUME NEW p \in Process, holder = None, holder' = p
    PROVE  /\ Pledge[p] = NoAnswer
           /\ Pledge' = [Pledge EXCEPT ![p] = [ok     |-> call'.answer.ok,
                                               record |-> call'.answer.found.record]]
  BY RamDbAssumption DEF Pledge

\* The record written becomes the one under its key.
LEMMA Becomes ==
    ASSUME TypeOK, NEW k \in Key, NEW r \in Record, Write(k, r)
    PROVE  Content(file)' = [Content(file) EXCEPT ![k] = r]
  <1>1. file' \in [Key -> Record]
    BY WriteType
  <1> QED
    BY <1>1, RamDbAssumption DEF Write, Content

\* What FindRecord sees, in a valid copy or after reading the file.
LEMMA FindSees ==
    ASSUME IInv, CInv, EmptyInv, NEW p \in Process, NEW k \in Key, FindRecord(p, k)
    PROVE  cache'[p][k] = Clean(Content(file)[k])
  <1>0. TypeOK /\ stamped /\ p \in opened /\ UNCHANGED <<file, time>>
    BY DEF FindRecord, Begin, IInv, CInv, StampInv, InOperation
  <1>a. PICK valid \in Validity(p) :
            IF valid THEN UNCHANGED <<clock, cache, readTime, rewritten>> ELSE Prefetch(p)
    BY DEF FindRecord
  <1>1. CASE valid
    BY <1>0, <1>1, <1>a, ValidityValid DEF CInv, AllCoherent, Agrees
  <1>2. CASE ~ valid
    <2>1. Prefetch(p) /\ (~ Valid(p) \/ file # Missing)
      BY <1>0, <1>2, <1>a, ValidityValid
    <2>2. CASE file = Missing
      BY <2>1, <2>2 DEF Valid, EmptyInv
    <2>3. CASE file # Missing
      BY <1>0, <2>1, <2>3 DEF Prefetch, Content, TypeOK
    <2> QED
      BY <2>2, <2>3
  <1> QED
    BY <1>1, <1>2

\* Every step of RamDb is a step of the store, or none.
LEMMA StoreStep ==
    ASSUME Calm, IInv, CInv, EmptyInv, Next
    PROVE  Store!Next \/ UNCHANGED Store!vars
  <1>0. TypeOK /\ (holder # None => call \in Call)
    BY DEF IInv, TypeOK
  <1> DEFINE store == Content(file)
  <1>r. Store!Record = Record /\ Store!EmptyRecord = EmptyRecord
    BY DEF Record, EmptyRecord, Store!Record, Store!EmptyRecord
  <1>w. ASSUME NEW p \in Process, NEW k \in Key, NEW found, NEW r \in Record,
               holder = None, holder' = p, call'.answer = Answer(TRUE, found), Write(k, r)
        PROVE  /\ Store!Answers(p, Store!Answer(TRUE, found.record))
               /\ Store!Set(k, r)
    <2>1. /\ Pledge[p] = NoAnswer
          /\ Pledge' = [Pledge EXCEPT ![p] = [ok |-> TRUE, record |-> found.record]]
      BY <1>w, Told DEF Answer
    <2>2. Content(file)' = [Content(file) EXCEPT ![k] = r]
      BY <1>0, <1>w, Becomes
    <2> QED
      BY <2>1, <2>2 DEF Pledge, Store!Answers, Store!Answer, Store!Set
  <1>f. ASSUME NEW p \in Process, NEW op, NEW k \in Key, WriteFails(p, op, k)
        PROVE  Store!Next
    <2>1. Pledge[p] = NoAnswer /\ UNCHANGED store
          /\ Pledge' = [Pledge EXCEPT ![p] = [ok |-> FALSE, record |-> NoText.record]]
      <3>1. holder = None /\ holder' = p /\ call'.answer = Answer(FALSE, NoText)
            /\ UNCHANGED file
        BY <1>f DEF WriteFails, Begin
      <3> QED
        BY <3>1, Told DEF Answer
    <2>2. NoText.record = EmptyRecord
      BY DEF NoText, Clean
    <2>3. Store!Fail(p)
      BY <1>r, <2>1, <2>2 DEF Store!Fail, Store!Answers, Store!Answer, Pledge
    <2> QED
      BY <2>3 DEF Store!Next
  <1>1. ASSUME NEW p \in Process, Operation(p) PROVE Store!Next
    <2>0. NoText.record = EmptyRecord /\ \A r : Clean(r).record = r
      BY DEF NoText, Clean
    <2>1. PICK k \in Key :
          \/ FindRecord(p, k)
          \/ \E r \in Record : StoreRecord(p, k, r)
          \/ \E i \in Id, v \in Value : UpdateRecord(p, k, Single(i, v))
          \/ RemoveRecord(p, k)
          \/ \E i \in Id : Remove(p, k, i)
      BY <1>1 DEF Operation
    <2>2. CASE FindRecord(p, k)
      <3> DEFINE seen == cache'[p][k]
      <3>1. seen = Clean(store[k])
        BY <2>2, FindSees
      <3>2. /\ Pledge[p] = NoAnswer /\ UNCHANGED store
            /\ Pledge' = [Pledge EXCEPT ![p] = [ok |-> seen # NoText, record |-> seen.record]]
        <4>1. /\ holder = None /\ holder' = p /\ UNCHANGED file
              /\ call'.answer = Answer(seen # NoText, seen)
          BY <2>2 DEF FindRecord, Begin
        <4>2. call'.answer.ok = (seen # NoText) /\ call'.answer.found = seen
          BY <4>1 DEF Answer
        <4> QED
          BY <4>1, <4>2, Told
      <3>3. seen # NoText <=> store[k] # EmptyRecord
        BY <3>1 DEF NoText, Clean
      <3>4. (seen # NoText) = (store[k] # EmptyRecord)
        BY <3>3
      <3>5. Store!FindRecord(p, k)
        BY <1>r, <2>0, <3>1, <3>2, <3>4 DEF Store!FindRecord, Store!Answers, Store!Answer, Pledge
      <3> QED
        BY <3>5 DEF Store!Next
    <2>3. ASSUME NEW r \in Record, StoreRecord(p, k, r) PROVE Store!Next
      <3>1. CASE WriteFails(p, "StoreRecord", k)
        BY <3>1, <1>f
      <3>2. CASE /\ Begin(p, "StoreRecord", k, "touch", Clean(r), FALSE, Answer(TRUE, NoText))
                 /\ Write(k, r)
        <4>1. Store!StoreRecord(p, k, r)
          <5>1. holder = None /\ holder' = p /\ call'.answer = Answer(TRUE, NoText)
            BY <3>2 DEF Begin
          <5>2. Store!Answers(p, Store!Answer(TRUE, EmptyRecord)) /\ Store!Set(k, r)
            BY <1>w, <2>0, <3>2, <5>1
          <5> QED
            BY <1>r, <5>2 DEF Store!StoreRecord
        <4> QED
          BY <1>r, <4>1 DEF Store!Next
      <3> QED
        BY <2>3, <3>1, <3>2 DEF StoreRecord
    <2>4. ASSUME NEW i \in Id, NEW v \in Value, UpdateRecord(p, k, Single(i, v)) PROVE Store!Next
      <3> DEFINE r == Single(i, v)
                 new == Merge(r, store[k])
      <3>1. CASE WriteFails(p, "UpdateRecord", k)
        BY <3>1, <1>f
      <3>2. CASE /\ Begin(p, "UpdateRecord", k, "touch", Clean(new), FALSE,
                          Answer(TRUE, Clean(new)))
                 /\ Write(k, new)
        <4>1. r \in Record /\ new \in Record
          BY <1>0, RecordTypes, ContentType DEF TypeOK
        <4>2. PICK n \in Record : n = new
          BY <4>1
        <4>3. Store!UpdateRecord(p, k, r)
          <5>1. /\ holder = None /\ holder' = p /\ call'.answer = Answer(TRUE, Clean(n))
                /\ Write(k, n)
            BY <3>2, <4>2 DEF Begin
          <5>2. Store!Answers(p, Store!Answer(TRUE, Clean(n).record)) /\ Store!Set(k, n)
            BY <1>w, <5>1
          <5>3. n = [j \in Id |-> IF r[j] = NoValue THEN store[k][j] ELSE r[j]]
            BY <4>2 DEF Merge, Has
          <5> QED
            BY <2>0, <5>2, <5>3 DEF Store!UpdateRecord, Store!Answers, Store!Answer, Store!Set
        <4> QED
          BY <1>r, <4>1, <4>3 DEF Store!Next
      <3> QED
        BY <2>4, <3>1, <3>2 DEF UpdateRecord
    <2>5. CASE RemoveRecord(p, k)
      <3>1. CASE WriteFails(p, "RemoveRecord", k)
        BY <3>1, <1>f
      <3>2. ASSUME NEW valid \in Validity(p), Write(k, EmptyRecord),
                   Begin(p, "RemoveRecord", k, "touch", NoText, valid, Answer(TRUE, NoText))
            PROVE  Store!Next
        <4>1. Store!RemoveRecord(p, k)
          <5>1. holder = None /\ holder' = p /\ call'.answer = Answer(TRUE, NoText)
            BY <3>2 DEF Begin
          <5>2. Store!Answers(p, Store!Answer(TRUE, EmptyRecord)) /\ Store!Set(k, EmptyRecord)
            BY <1>w, <2>0, <3>2, <5>1, RecordTypes
          <5> QED
            BY <1>r, <5>2 DEF Store!RemoveRecord
        <4> QED
          BY <4>1 DEF Store!Next
      <3> QED
        BY <2>5, <3>1, <3>2 DEF RemoveRecord
    <2>6. ASSUME NEW i \in Id, Remove(p, k, i) PROVE FALSE
      BY <2>6 DEF Remove, Begin, WriteFails, Calm
    <2> QED
      BY <2>1, <2>2, <2>3, <2>4, <2>5, <2>6
  <1>2. ASSUME NEW p \in Process, Continue(p) PROVE Store!Next \/ UNCHANGED Store!vars
    <2>1. CASE Return(p)
      <3>1. Store!Return({p})
        BY <1>0, <2>1, RamDbAssumption DEF Return, At, Store!Return, Pledge
      <3> QED
        BY <3>1 DEF Store!Next
    <2>2. CASE ~ Return(p)
      <3>1. call \in Call /\ holder = p /\ UNCHANGED <<file, holder>>
        BY <1>0, <1>2, <2>2, RamDbAssumption
        DEF Continue, UpdateDbModificationTime, Truncate, Stamp, TimeFileFails, Validate,
            CacheSkipped, CacheWritten, At
      <3>2. call'.answer = call.answer
        BY <1>2, <2>2, <3>1
        DEF Continue, UpdateDbModificationTime, Truncate, Stamp, TimeFileFails, Validate,
            CacheSkipped, CacheWritten, Goto, Call
      <3> QED
        BY <3>1, <3>2, Stutters DEF Pledge
    <2> QED
      BY <2>1, <2>2
  <1>3. ASSUME NEW p \in Process, GetCached(p) \/ GetCachedTimeout(p) \/ LoseFile(p) \/ Exit(p)
        PROVE  UNCHANGED Store!vars
    <2>1. UNCHANGED <<file, holder, call>>
      BY <1>3 DEF GetCached, GetCachedTimeout, LoseFile, Exit, Calm
    <2> QED
      BY <2>1, Stutters DEF Pledge
  <1> QED
    BY <1>1, <1>2, <1>3 DEF Next

\* Without Remove, and while the time can be written and nobody dies inside an
\* operation, RamDb is what db.hpp promises: many processes that share one map
\* of records, each operation at one instant, however old their copies are.
THEOREM Refinement == Calm => (Spec => ImplementsRecordStore)
  <1> SUFFICES ASSUME Calm PROVE Spec => Store!Spec
    BY DEF ImplementsRecordStore
  <1>1. Init => Store!Init
    BY RamDbAssumption DEF Init, Store!Init, Store!EmptyRecord, Content, EmptyRecord
  <1>2. IInv /\ CInv /\ EmptyInv /\ [Next]_vars => [Store!Next]_(Store!vars)
    <2>1. CASE UNCHANGED vars
      BY <2>1, Stutters DEF vars, dbVars, auxVars, Pledge
    <2> QED
      BY <2>1, StoreStep
  <1> QED
    BY <1>1, <1>2, Invariant, CalmInvariant, PTL DEF Spec, Store!Spec
================================================================================
