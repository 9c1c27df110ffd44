-------------------------------- MODULE RamDb --------------------------------
(****************************************************************************)
(* miopen::RamDb: a user database file with a copy in the memory of every   *)
(* process that uses it.  A process trusts its copy while it is younger     *)
(* than the time written in the file <database>.time; who changes the       *)
(* database rewrites that time.                                             *)
(*                                                                          *)
(* Every operation runs under the exclusive LockFile of the database, which *)
(* LockFileProofs shows to exclude all threads of all processes in this     *)
(* use, so one process at a time is the holder and its steps are separated  *)
(* only by crashes.  An operation whose lock times out throws, and changes  *)
(* nothing.  The file is replaced in one step here; the step in which that  *)
(* goes wrong and the file is lost is one of the faults (see PlainTextDb).  *)
(* A database that is there is readable: the lookup of the base class that  *)
(* overlooks a record is in PlainTextDb, and Prefetch keeps the old copy.   *)
(****************************************************************************)
EXTENDS DbRecord, Integers

CONSTANTS Process, Key,
          None,       \* nobody
          Missing,    \* there is no such file
          NoAnswer,
          UsedCalls,  \* the operations the clients use
          Faults,     \* the failures that happen, a subset of FaultKinds
          MaxTime     \* the bound on the clock

Calls == {"FindRecord", "StoreRecord", "UpdateRecord", "RemoveRecord", "Remove"}

\* A process dies inside an operation; <database>.time cannot be opened; the
\* database cannot be written; its replacement ends after std::remove.
FaultKinds == {"crash", "time_file", "db_file", "lost_file"}

ASSUME RamDbAssumption ==
    /\ UsedCalls \subseteq Calls
    /\ Faults \subseteq FaultKinds
    /\ MaxTime \in Nat \ {0}
    /\ None \notin Process
    /\ Missing \notin [Key -> Record]

VARIABLES
    file,      \* the database: a record for each key, or Missing
    time,      \* the time in <database>.time, 0 if there is no such file
    clock,     \* the steady clock, which all processes share
    opened,    \* the processes that have the database (GetCached)
    cache,     \* cache[p]: the copy of process p
    readTime,  \* readTime[p]: file_read_time, the age of that copy
    holder,    \* the process inside an operation
    call,      \* the operation it is in, and how far it got
    stamped,   \* auxiliary: <database>.time was written after the last change
    rewritten  \* auxiliary: the processes that changed their copy themselves
               \* since they last read the file

dbVars   == <<file, time, clock, opened, cache, readTime, holder, call>>
auxVars  == <<stamped, rewritten>>
vars     == <<dbVars, auxVars>>

\* The contents of a record in memory.  WriteIdsAndValues ends the text with a
\* line feed, which parsing it again leaves in the last value; eol is the set
\* of the ids whose values end so.
Text == [record : Record, eol : SUBSET Id]
Clean(r) == [record |-> r, eol |-> {}]
NoText   == Clean(EmptyRecord)

Stages == {"touch", "stamp", "validate", "retouch", "restamp", "cache", "return"}

\* new is the record written and valid the is_valid of the code; answer is what
\* the operation will return.
Call == [op : Calls, at : Stages, key : Key, new : Text, valid : BOOLEAN,
         answer : [ok : BOOLEAN, found : Text]]

Idle == [op |-> "FindRecord", at |-> "return", new |-> NoText, valid |-> FALSE,
         answer |-> [ok |-> FALSE, found |-> NoText]]

\* <database>.time is there and empty.
Emptied == -1

Content(f) == IF f = Missing THEN [k \in Key |-> EmptyRecord] ELSE f

TypeOK ==
    /\ file \in {Missing} \cup [Key -> Record]
    /\ time \in Emptied..MaxTime
    /\ clock \in 1..MaxTime
    /\ opened \in SUBSET Process
    /\ cache \in [Process -> [Key -> Text]]
    /\ readTime \in [Process -> 0..MaxTime]
    /\ holder \in Process \cup {None}
    /\ holder # None => call \in Call
    /\ stamped \in BOOLEAN
    /\ rewritten \in SUBSET Process

Init ==
    /\ file = Missing
    /\ time = 0
    /\ clock = 1
    /\ opened = {}
    /\ cache = [p \in Process |-> [k \in Key |-> NoText]]
    /\ readTime = [p \in Process |-> 0]
    /\ holder = None
    /\ call = Idle
    /\ stamped = TRUE
    /\ rewritten = {}

------------------------------------------------------------------------------
(* The copy and its age.                                                    *)

\* A variation: a clock that may be set back.
Now_SetBack == clock' \in {clock - 1, clock, clock + 1} /\ clock' <= MaxTime

\* ramdb_clock::now(), which may return the same value twice.
Now == clock' \in {clock, clock + 1} /\ clock' <= MaxTime

CacheEmpty(p) == \A k \in Key : cache[p][k] = NoText

\* A variation: a copy of the very time of the last change passes for valid.
Valid_AtMost(p) == IF file = Missing THEN CacheEmpty(p) ELSE time <= readTime[p]

\* The copy may pass for valid.
Valid(p) == IF file = Missing THEN CacheEmpty(p) ELSE time < readTime[p]

\* What ValidateUnsafe may return.  Reading the time from an empty file leaves
\* it an uninitialized variable, so then the answer may be anything.
Validity(p) == IF file # Missing /\ time = Emptied THEN BOOLEAN ELSE {Valid(p)}

\* Prefetch: without a file the copy stays what it was.
Prefetch(p) ==
    IF file = Missing
    THEN UNCHANGED <<clock, cache, readTime, rewritten>>
    ELSE /\ Now
         /\ cache' = [cache EXCEPT ![p] = [k \in Key |-> Clean(file[k])]]
         /\ readTime' = [readTime EXCEPT ![p] = clock']
         /\ rewritten' = rewritten \ {p}

------------------------------------------------------------------------------
(* GetCached.                                                               *)

GetCached(p) ==
    /\ p \notin opened /\ holder = None
    /\ opened' = opened \cup {p}
    /\ Prefetch(p)
    /\ UNCHANGED <<file, time, holder, call, stamped>>

\* The lock times out and GetCached throws; the instance stays registered and
\* is what the next GetCached returns.
GetCachedTimeout(p) ==
    /\ p \notin opened /\ holder # None
    /\ opened' = opened \cup {p}
    /\ UNCHANGED <<file, time, clock, cache, readTime, holder, call, auxVars>>

------------------------------------------------------------------------------
(* The operations: each takes the lock and goes as far as its change to the *)
(* file.                                                                    *)

Begin(p, op, k, at, new, valid, answer) ==
    /\ op \in UsedCalls
    /\ p \in opened /\ holder = None
    /\ holder' = p
    /\ call' = [op |-> op, at |-> at, key |-> k, new |-> new, valid |-> valid,
                answer |-> answer]
    /\ UNCHANGED opened

Answer(ok, text) == [ok |-> ok, found |-> text]

\* The file gets record r under key k.
Write(k, r) ==
    /\ file' = [Content(file) EXCEPT ![k] = r]
    /\ stamped' = FALSE
    /\ UNCHANGED <<time, clock, cache, readTime, rewritten>>

\* The file cannot be written: the operation returns false at once.
WriteFails(p, op, k) ==
    /\ "db_file" \in Faults
    /\ Begin(p, op, k, "return", NoText, FALSE, Answer(FALSE, NoText))
    /\ UNCHANGED <<file, time, clock, cache, readTime, auxVars>>

FindRecord(p, k) ==
    /\ \E valid \in Validity(p) :
          IF valid THEN UNCHANGED <<clock, cache, readTime, rewritten>> ELSE Prefetch(p)
    /\ Begin(p, "FindRecord", k, "return", NoText, FALSE,
             Answer(cache'[p][k] # NoText, cache'[p][k]))
    /\ UNCHANGED <<file, time, stamped>>

StoreRecord(p, k, r) ==
    \/ /\ Begin(p, "StoreRecord", k, "touch", Clean(r), FALSE, Answer(TRUE, NoText))
       /\ Write(k, r)
    \/ WriteFails(p, "StoreRecord", k)

\* A variation that merges with the record in the copy.
UpdateRecord_FromCopy(p, k, r) ==
    LET new == Merge(r, cache[p][k].record) IN
    /\ Begin(p, "UpdateRecord", k, "touch", Clean(new), FALSE, Answer(TRUE, Clean(new)))
    /\ Write(k, new)

\* UpdateRecordUnsafe merges with the record in the file, not in the copy.
UpdateRecord(p, k, r) ==
    LET new == Merge(r, Content(file)[k]) IN
    \/ /\ Begin(p, "UpdateRecord", k, "touch", Clean(new), FALSE, Answer(TRUE, Clean(new)))
       /\ Write(k, new)
    \/ WriteFails(p, "UpdateRecord", k)

\* A variation that does not write the time.
RemoveRecord_WithoutTouch(p, k) ==
    /\ \E valid \in Validity(p) :
          Begin(p, "RemoveRecord", k, "cache", NoText, valid, Answer(TRUE, NoText))
    /\ Write(k, EmptyRecord)

RemoveRecord(p, k) ==
    \/ /\ \E valid \in Validity(p) :
             Begin(p, "RemoveRecord", k, "touch", NoText, valid, Answer(TRUE, NoText))
       /\ Write(k, EmptyRecord)
    \/ WriteFails(p, "RemoveRecord", k)

\* Writing a record with line feeds in its values: the line ends at the first,
\* and the rest of the record is a line without a key.  Which ids come before
\* it depends on the order of the hash map.
LineIds(text) ==
    IF Ids(text.record) \cap text.eol = {} THEN {Ids(text.record)}
    ELSE {S \in SUBSET Ids(text.record) : \E i \in text.eol : S \cap text.eol = {i}}

Only(r, S) == [i \in Id |-> IF i \in S THEN r[i] ELSE NoValue]

\* Remove works on the record of the copy, valid or not.
Remove(p, k, i) ==
    LET old == cache[p][k]
        new == [record |-> EraseValues(old.record, i), eol |-> old.eol \ {i}]
    IN
    \/ /\ ~ Has(old.record, i)
       /\ Begin(p, "Remove", k, "return", NoText, FALSE, Answer(FALSE, NoText))
       /\ UNCHANGED <<file, time, clock, cache, readTime, auxVars>>
    \/ /\ Has(old.record, i)
       /\ \E valid \in Validity(p) :
             Begin(p, "Remove", k, "touch", new, valid, Answer(TRUE, NoText))
       /\ \E S \in LineIds(new) : Write(k, Only(new.record, S))
    \/ Has(old.record, i) /\ WriteFails(p, "Remove", k)

------------------------------------------------------------------------------
(* After the file: UpdateDbModificationTime, once for the removals and      *)
(* twice for StoreRecord and UpdateRecord (UpdateCacheEntryUnsafe), and the *)
(* entry of the copy.                                                       *)

At(p, l) == holder = p /\ call.at = l
Goto(l)  == call' = [call EXCEPT !.at = l]

AfterStamp   == IF call.op \in {"StoreRecord", "UpdateRecord"} THEN "validate" ELSE "cache"

\* Opening <database>.time for writing empties it.
Truncate(p, from, to) ==
    /\ At(p, from)
    /\ time' = Emptied /\ stamped' = FALSE
    /\ Goto(to)
    /\ UNCHANGED <<file, clock, opened, cache, readTime, holder, rewritten>>

Stamp(p, from, to) ==
    /\ At(p, from)
    /\ Now /\ time' = clock' /\ stamped' = TRUE
    /\ Goto(to)
    /\ UNCHANGED <<file, opened, cache, readTime, holder, rewritten>>

\* The error is logged and otherwise ignored.
TimeFileFails(p, from, to) ==
    /\ "time_file" \in Faults
    /\ At(p, from)
    /\ Goto(to)
    /\ UNCHANGED <<file, time, clock, opened, cache, readTime, holder, auxVars>>

UpdateDbModificationTime(p) ==
    \/ Truncate(p, "touch", "stamp")
    \/ Stamp(p, "stamp", AfterStamp)
    \/ TimeFileFails(p, "touch", AfterStamp)
    \/ Truncate(p, "retouch", "restamp")
    \/ Stamp(p, "restamp", "cache")
    \/ TimeFileFails(p, "retouch", "cache")

\* UpdateCacheEntryUnsafe looks at the time just written.
Validate(p) ==
    /\ At(p, "validate")
    /\ \E valid \in Validity(p) : call' = [call EXCEPT !.at = "retouch", !.valid = valid]
    /\ UNCHANGED <<file, time, clock, opened, cache, readTime, holder, auxVars>>

\* A copy found invalid stays invalid, and as it is.
CacheSkipped(p) ==
    /\ At(p, "cache") /\ ~ call.valid
    /\ Goto("return")
    /\ UNCHANGED <<file, time, clock, opened, cache, readTime, holder, auxVars>>

\* The text written to the copy ends with a line feed.
Rewritten(text) ==
    IF text.record = EmptyRecord THEN {NoText}
    ELSE {[text EXCEPT !.eol = @ \cup {last}] : last \in Ids(text.record)}

CacheWritten(p) ==
    /\ At(p, "cache") /\ call.valid
    /\ \E text \in Rewritten(call.new) : cache' = [cache EXCEPT ![p][call.key] = text]
    /\ Now
    /\ readTime' = [readTime EXCEPT ![p] = clock']
    /\ rewritten' = rewritten \cup {p}
    /\ Goto("return")
    /\ UNCHANGED <<file, time, opened, holder, stamped>>

Return(p) ==
    /\ At(p, "return")
    /\ holder' = None /\ call' = Idle
    /\ UNCHANGED <<file, time, clock, opened, cache, readTime, auxVars>>

\* An operation of p has FlushUnsafe replace the file, and std::rename fails, or
\* the process dies before it (then an Exit follows): the operation throws.
LoseFile(p) ==
    /\ "lost_file" \in Faults
    /\ p \in opened /\ holder = None /\ file # Missing
    /\ file' = Missing /\ stamped' = FALSE
    /\ UNCHANGED <<time, clock, opened, cache, readTime, holder, call, rewritten>>

\* A process ends; inside an operation only if crashes are considered.  The
\* kernel drops its lock.
Exit(p) ==
    /\ p \in opened
    /\ holder = p => "crash" \in Faults
    /\ opened' = opened \ {p}
    /\ cache' = [cache EXCEPT ![p] = [k \in Key |-> NoText]]
    /\ readTime' = [readTime EXCEPT ![p] = 0]
    /\ rewritten' = rewritten \ {p}
    /\ IF holder = p THEN holder' = None /\ call' = Idle ELSE UNCHANGED <<holder, call>>
    /\ UNCHANGED <<file, time, clock, stamped>>

------------------------------------------------------------------------------
Operation(p) ==
    \E k \in Key :
        \/ FindRecord(p, k)
        \/ \E r \in Record : StoreRecord(p, k, r)
        \/ \E i \in Id, v \in Value : UpdateRecord(p, k, Single(i, v))
        \/ RemoveRecord(p, k)
        \/ \E i \in Id : Remove(p, k, i)

Continue(p) ==
    \/ UpdateDbModificationTime(p) \/ Validate(p)
    \/ CacheSkipped(p) \/ CacheWritten(p) \/ Return(p)

Next ==
    \E p \in Process :
        \/ GetCached(p) \/ GetCachedTimeout(p)
        \/ Operation(p) \/ Continue(p) \/ LoseFile(p) \/ Exit(p)

Spec == Init /\ [][Next]_vars

------------------------------------------------------------------------------
(* Properties.                                                              *)

\* Once <database>.time has been written after the last change of the database,
\* a copy that a process read from the file and still takes for valid is what
\* the file holds, whatever failed or died before.
CacheCoherent ==
    stamped => \A p \in opened \ rewritten, k \in Key :
        Valid(p) => cache[p][k] = Clean(Content(file)[k])

\* Without Remove and while <database>.time can be written and nobody dies,
\* this holds of every copy, and the time is up to date whenever no operation
\* is in progress: no operation reads from a stale copy.
CopiesFollow ==
    /\ holder = None => stamped
    /\ stamped => \A p \in opened, k \in Key :
           Valid(p) => cache[p][k] = Clean(Content(file)[k])

\* Remove "removes ID with associated VALUES from record" and leaves the other
\* IDs of the record alone.
RemoveKeepsOtherIds ==
    [][\A p \in Process, k \in Key, i \in Id :
         Remove(p, k, i) /\ file' # file =>
             file'[k] = EraseValues(Content(file)[k], i)]_vars

\* RamDb is the abstract store: an operation takes effect when the file is
\* written, or when it is read from the copy.
Store == INSTANCE RecordStore WITH
             Client <- Process,
             store  <- Content(file),
             answer <- [p \in Process |->
                          IF holder = p
                          THEN [ok     |-> call.answer.ok,
                                record |-> call.answer.found.record]
                          ELSE NoAnswer]

ImplementsRecordStore == Store!Spec
=============================================================================
