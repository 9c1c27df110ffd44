----------------------------- MODULE PlainTextDb -----------------------------
(****************************************************************************)
(* miopen::PlainTextDb: a database kept in a text file, one line per key,   *)
(* with no copy in memory.  Every operation is one section under the        *)
(* LockFile of the file: shared for FindRecord, exclusive for the others.   *)
(* The threads and processes are those of LockFile, whose steps they take   *)
(* to enter and leave the section.                                          *)
(*                                                                          *)
(* A file is a sequence of lines [key, record], or Missing.  The steps of   *)
(* FlushUnsafe that a crash or a failure may separate are separate here.    *)
(****************************************************************************)
EXTENDS DbRecord, Naturals, Sequences

CONSTANTS Thread, Process, home, None,  \* as in LockFile
          Key,
          Missing,    \* there is no such file
          NoCall,     \* the thread is in no operation
          NoAnswer,
          UsedCalls,  \* the operations the clients use
          Faults,     \* the failures that happen, a subset of FaultKinds
          MaxLines    \* bound: in a file of so many lines no lookup fails

VARIABLES writer, sharers, flock, pc,  \* of LockFile
          file,    \* the database file
          temp,    \* the file <database>.temp
          call,    \* call[t]: the operation thread t is in, and how far it got
          answer,  \* answer[t]: what it will return
          misread  \* auxiliary: the keys whose line an operation that writes
                   \* has overlooked, because it could not open the file

lockVars == <<writer, sharers, flock, pc>>
dbVars   == <<file, temp, call, answer, misread>>
vars     == <<lockVars, dbVars>>

Lock == INSTANCE LockFile WITH
            UsedOps <- [t \in Thread |-> {"try_lock_for", "try_lock_shared_for"}]

Line  == [key : Key, record : Record]
Calls == {"FindRecord", "StoreRecord", "UpdateRecord", "RemoveRecord", "Remove"}

\* FlushUnsafe cannot open a file; FindRecordUnsafe cannot open a database that
\* is there; a process dies; the replacement of the database fails, or its
\* process dies, between std::remove and std::rename.
FaultKinds == {"io", "unreadable", "crash", "replace"}

\* "append", "temp", "remove", "rename": the next step of FlushUnsafe;
\* "return": the section is about to end.  new is the record to be written and
\* pos the line it replaces, 0 for none.
Call == [at : {"append", "temp", "remove", "rename", "return"},
         key : Key, new : Record, pos : Nat, result : Record]

ASSUME PlainTextDbAssumption ==
    /\ home \in [Thread -> Process] /\ None \notin Thread
    /\ Missing \notin Seq(Line) /\ NoCall \notin Call
    /\ UsedCalls \subseteq Calls
    /\ Faults \subseteq FaultKinds
    /\ MaxLines \in Nat

Content(f) == IF f = Missing THEN <<>> ELSE f

TypeOK ==
    /\ Lock!TypeOK
    /\ file \in {Missing} \cup Seq(Line)
    /\ temp \in {Missing} \cup Seq(Line)
    /\ call \in [Thread -> Call \cup {NoCall}]
    /\ answer \in [Thread -> {NoAnswer} \cup [ok : BOOLEAN, record : Record]]
    /\ misread \subseteq Key

Init ==
    /\ Lock!Init
    /\ file = Missing /\ temp = Missing
    /\ call = [t \in Thread |-> NoCall]
    /\ answer = [t \in Thread |-> NoAnswer]
    /\ misread = {}

------------------------------------------------------------------------------
(* Reading: FindRecordUnsafe scans for the first line with the key.  When   *)
(* it cannot open the file it says that there is none, whether the file is  *)
(* missing or not.                                                          *)

Matches(f, k) == {n \in DOMAIN Content(f) : f[n].key = k}

Position(f, k) ==
    IF Matches(f, k) = {} THEN 0
    ELSE CHOOSE n \in Matches(f, k) : \A m \in Matches(f, k) : n <= m

\* The positions FindRecordUnsafe may report, and the record at one.
Scans(f, k) ==
    {Position(f, k)} \cup
        IF "unreadable" \in Faults /\ Len(Content(f)) < MaxLines THEN {0} ELSE {}

RecordAt(f, n) == IF n = 0 THEN EmptyRecord ELSE f[n].record

\* The record that is to be found under a key.
Lookup(f, k) == RecordAt(f, Position(f, k))

\* WriteContents: an empty record leaves no line.
LineOf(k, r) == IF r = EmptyRecord THEN <<>> ELSE <<[key |-> k, record |-> r]>>

\* Variations: the old line is copied as well, or what follows it is not.
Replaced_KeepingLine(f, n, k, r) ==
    SubSeq(f, 1, n) \o LineOf(k, r) \o SubSeq(f, n + 1, Len(f))
Replaced_LosingRest(f, n, k, r) == SubSeq(f, 1, n - 1) \o LineOf(k, r)

\* The temporary file of FlushUnsafe: what precedes the line, the new line,
\* what follows.
Replaced(f, n, k, r) ==
    SubSeq(f, 1, n - 1) \o LineOf(k, r) \o SubSeq(f, n + 1, Len(f))

------------------------------------------------------------------------------
(* Entering and leaving the section.                                        *)

LockShared(t) ==
    \/ "FindRecord" \in UsedCalls /\ Lock!TryLockSharedFor(t)
    \/ Lock!SharedMutexAcquired(t) \/ Lock!SharedMutexTimeout(t)
    \/ Lock!SharedFlockAcquired(t) \/ Lock!SharedFlockFailed(t)

LockExclusive(t) ==
    \/ UsedCalls # {"FindRecord"} /\ Lock!TryLockFor(t)
    \/ Lock!MutexAcquired(t) \/ Lock!MutexTimeout(t)
    \/ Lock!FlockAcquired(t) \/ Lock!FlockFailed(t)

\* The lock is taken, or the attempt fails and the operation throws; or the
\* second half of an unlock is done.
LockStep(t) ==
    /\ \/ LockShared(t) \/ LockExclusive(t)
       \/ Lock!UnlockMutex(t) \/ Lock!UnlockSharedMutex(t)
    /\ UNCHANGED dbVars

\* The destructor of the lock object, after the operation.
Leave(t) ==
    /\ call[t] # NoCall /\ call[t].at = "return"
    /\ Lock!UnlockFlock(t) \/ Lock!UnlockSharedFlock(t)
    /\ call' = [call EXCEPT ![t] = NoCall]
    /\ answer' = [answer EXCEPT ![t] = NoAnswer]
    /\ UNCHANGED <<file, temp, misread>>

\* A variation that forgets the record.
Answers_OkOnly(t, ok, r) == answer' = [answer EXCEPT ![t] = [ok |-> ok]]

Answers(t, ok, r) == answer' = [answer EXCEPT ![t] = [ok |-> ok, record |-> r]]

At(t, l) == call[t] # NoCall /\ call[t].at = l

\* The operation is over.
Finish(t, ok, r) ==
    /\ call' = [call EXCEPT ![t].at = "return"]
    /\ Answers(t, ok, r)

\* FlushUnsafe(new, n) is next, n being where FindRecordUnsafe saw the key;
\* result is what UpdateRecord hands back.
Flush(t, k, n, new, result) ==
    /\ call' = [call EXCEPT ![t] =
                  [at |-> IF n = 0 THEN "append" ELSE "temp",
                   key |-> k, new |-> new, pos |-> n, result |-> result]]
    /\ misread' = IF n = Position(file, k) THEN misread ELSE misread \cup {k}
    /\ UNCHANGED answer

Begins(t, c, section) == c \in UsedCalls /\ pc[t] = section /\ call[t] = NoCall

------------------------------------------------------------------------------
(* The operations, up to FlushUnsafe.                                       *)

FindRecord(t, k) ==
    /\ Begins(t, "FindRecord", "s_held")
    /\ call' = [call EXCEPT ![t] = [at |-> "return", key |-> k, new |-> EmptyRecord,
                                    pos |-> 0, result |-> EmptyRecord]]
    /\ \E n \in Scans(file, k) :
          Answers(t, RecordAt(file, n) # EmptyRecord, RecordAt(file, n))
    /\ UNCHANGED <<lockVars, file, temp, misread>>

StoreRecord(t, k, r) ==
    /\ Begins(t, "StoreRecord", "x_held")
    /\ \E n \in Scans(file, k) : Flush(t, k, n, r, EmptyRecord)
    /\ UNCHANGED <<lockVars, file, temp>>

\* A variation that stores the caller's record as it is.
UpdateRecord_WithoutMerge(t, k, r) ==
    /\ Begins(t, "UpdateRecord", "x_held")
    /\ \E n \in Scans(file, k) : Flush(t, k, n, r, r)
    /\ UNCHANGED <<lockVars, file, temp>>

\* The old record is merged in; the caller's record becomes the merged one.
UpdateRecord(t, k, r) ==
    /\ Begins(t, "UpdateRecord", "x_held")
    /\ \E n \in Scans(file, k) :
          LET new == Merge(r, RecordAt(file, n)) IN Flush(t, k, n, new, new)
    /\ UNCHANGED <<lockVars, file, temp>>

RemoveRecord(t, k) ==
    /\ Begins(t, "RemoveRecord", "x_held")
    /\ \E n \in Scans(file, k) : Flush(t, k, n, EmptyRecord, EmptyRecord)
    /\ UNCHANGED <<lockVars, file, temp>>

\* The record is looked up, and its place once more by StoreRecordUnsafe.
Remove(t, k, i) ==
    /\ Begins(t, "Remove", "x_held")
    /\ \E m, n \in Scans(file, k) :
          IF Has(RecordAt(file, m), i)
          THEN Flush(t, k, n, EraseValues(RecordAt(file, m), i), EmptyRecord)
          ELSE /\ call' = [call EXCEPT ![t] = [at |-> "return", key |-> k,
                              new |-> EmptyRecord, pos |-> 0, result |-> EmptyRecord]]
               /\ Answers(t, FALSE, EmptyRecord)
               /\ UNCHANGED misread
    /\ UNCHANGED <<lockVars, file, temp>>

------------------------------------------------------------------------------
(* FlushUnsafe.                                                             *)

\* A variation that opens the file for writing and not for appending.
AppendLine_Truncating(t) ==
    /\ At(t, "append")
    /\ file' = LineOf(call[t].key, call[t].new)
    /\ Finish(t, TRUE, call[t].result)
    /\ UNCHANGED <<lockVars, temp, misread>>

\* The key is new: the line goes to the end of the file.
AppendLine(t) ==
    /\ At(t, "append")
    /\ file' = Content(file) \o LineOf(call[t].key, call[t].new)
    /\ Finish(t, TRUE, call[t].result)
    /\ UNCHANGED <<lockVars, temp, misread>>

\* The key has a line: the whole file is rewritten under another name.
WriteTemp(t) ==
    /\ At(t, "temp")
    /\ temp' = Replaced(file, call[t].pos, call[t].key, call[t].new)
    /\ call' = [call EXCEPT ![t].at = "remove"]
    /\ UNCHANGED <<lockVars, file, answer, misread>>

RemoveFile(t) ==
    /\ At(t, "remove")
    /\ file' = Missing
    /\ call' = [call EXCEPT ![t].at = "rename"]
    /\ UNCHANGED <<lockVars, temp, answer, misread>>

\* The result of std::rename is ignored, but setting the permissions of the
\* file that is not there throws.
RenameTemp(t) ==
    /\ At(t, "rename")
    /\ \/ file' = temp /\ temp' = Missing /\ Finish(t, TRUE, call[t].result)
       \/ "replace" \in Faults /\ UNCHANGED <<file, temp>> /\ Finish(t, FALSE, EmptyRecord)
    /\ UNCHANGED <<lockVars, misread>>

\* The database or the temporary file cannot be opened.
Unwritable(t) ==
    /\ "io" \in Faults
    /\ At(t, "append") \/ At(t, "temp")
    /\ Finish(t, FALSE, EmptyRecord)
    /\ UNCHANGED <<lockVars, file, temp, misread>>

\* A process is killed; the files stay as they are.
Crash(p) ==
    /\ IF \E t \in Thread : home[t] = p /\ At(t, "rename")
       THEN "replace" \in Faults ELSE "crash" \in Faults
    /\ Lock!Crash(p)
    /\ call' = [t \in Thread |-> IF home[t] = p THEN NoCall ELSE call[t]]
    /\ answer' = [t \in Thread |-> IF home[t] = p THEN NoAnswer ELSE answer[t]]
    /\ UNCHANGED <<file, temp, misread>>

FlushUnsafe(t) ==
    \/ AppendLine(t) \/ WriteTemp(t) \/ RemoveFile(t) \/ RenameTemp(t)
    \/ Unwritable(t)

Operation(t) ==
    \E k \in Key :
        \/ FindRecord(t, k)
        \/ \E r \in Record : StoreRecord(t, k, r)
        \/ \E i \in Id, v \in Value : UpdateRecord(t, k, Single(i, v))
        \/ RemoveRecord(t, k)
        \/ \E i \in Id : Remove(t, k, i)

Next ==
    \/ \E t \in Thread : LockStep(t) \/ Operation(t) \/ FlushUnsafe(t) \/ Leave(t)
    \/ \E p \in Process : Crash(p)

Spec == Init /\ [][Next]_vars

------------------------------------------------------------------------------
(* Properties.                                                              *)

\* A thread is between std::remove and std::rename.
Replacing == \E t \in Thread : At(t, "rename")

\* What the database holds under a key, once an operation that is between
\* std::remove and std::rename has completed.
Stored(k) == Lookup(IF Replacing THEN temp ELSE file, k)

\* An operation on this key is in progress.
Touches(k) == \E t \in Thread : call[t] # NoCall /\ call[t].key = k

\* "There should be none identical KEYs in the same db file": FlushUnsafe
\* appends only a key that it saw on no line, and replaces one line by at most
\* one, whatever the other threads do between its reading and its writing.  A
\* key gets a second line only when its lookup could not open the file.
NoDuplicateKeys ==
    \A k \in Key \ misread : \A f \in {file, temp} \ {Missing} :
        \A m, n \in Matches(f, k) : m = n

\* "Thou shalt not loose the original file": a record changes only by an
\* operation on its own key that is in progress, not by operations on other
\* keys and not by the death of a process in the middle of them.
OthersUntouched ==
    [][\A k \in Key : Stored(k)' # Stored(k) => Touches(k)]_vars

\* FlushUnsafe takes the database away only when the temporary file holds every
\* record of it but the one being replaced, and its new version of that (behind
\* which an overlooked line of the same key may come to light).
RemovedOnlyWithCopy ==
    [][file # Missing /\ file' = Missing =>
         \E t \in Thread :
             /\ At(t, "remove") /\ temp # Missing
             /\ \A k \in Key :
                  \/ Lookup(temp, k) = IF k = call[t].key THEN call[t].new
                                       ELSE Lookup(file, k)
                  \/ k = call[t].key /\ k \in misread]_vars

\* The database is the abstract store: each operation happens at one instant,
\* its change when the file is appended to or taken away for its replacement.
Store == INSTANCE RecordStore WITH
             Client <- Thread,
             store  <- [k \in Key |-> Stored(k)],
             answer <- [t \in Thread |->
                          IF At(t, "rename")
                          THEN [ok |-> TRUE, record |-> call[t].result]
                          ELSE answer[t]]

\* The step begins or continues an operation on a key that was misread, now or
\* earlier.
OnMisread ==
    \E t \in Thread :
        call'[t] \notin {call[t], NoCall} /\ call'[t].key \in misread'

\* The operations on a key are those of the store from the beginning until one
\* of them, looking for the line that it is to change, cannot open the file:
\* StoreRecord and UpdateRecord then write a second line behind the first, and
\* RemoveRecord removes nothing and reports success.
ImplementsRecordStore ==
    Store!Init /\ [][~ OnMisread => Store!Next]_(Store!vars)
=============================================================================
