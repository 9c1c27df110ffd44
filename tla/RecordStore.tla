----------------------------- MODULE RecordStore -----------------------------
(****************************************************************************)
(* What the comments of db.hpp promise of a user database: a map from keys  *)
(* to records that many clients (threads, processes) read and change, each  *)
(* operation at one instant.  answer[c] is what the operation of client c   *)
(* has determined to return, until the operation ends.                      *)
(****************************************************************************)
CONSTANTS Client, Key, Id, Value,
          NoValue,   \* the record has no such id
          NoAnswer

VARIABLES store, answer

vars == <<store, answer>>

Record      == [Id -> Value \cup {NoValue}]
EmptyRecord == [i \in Id |-> NoValue]

Init ==
    /\ store  = [k \in Key |-> EmptyRecord]
    /\ answer = [c \in Client |-> NoAnswer]

\* What an operation returns: whether it succeeded, and the record it found
\* (FindRecord) or left in the caller's hands (UpdateRecord).
Answer(ok, r) == [ok |-> ok, record |-> r]

Answers(c, a) ==
    /\ answer[c] = NoAnswer
    /\ answer' = [answer EXCEPT ![c] = a]

Set(k, r) == store' = [store EXCEPT ![k] = r]

FindRecord(c, k) ==
    /\ Answers(c, Answer(store[k] # EmptyRecord, store[k]))
    /\ UNCHANGED store

StoreRecord(c, k, r) == Answers(c, Answer(TRUE, EmptyRecord)) /\ Set(k, r)

\* The ids of the caller's record are overwritten, the others stay.
UpdateRecord(c, k, r) ==
    LET updated == [i \in Id |-> IF r[i] = NoValue THEN store[k][i] ELSE r[i]]
    IN  Answers(c, Answer(TRUE, updated)) /\ Set(k, updated)

RemoveRecord(c, k) == Answers(c, Answer(TRUE, EmptyRecord)) /\ Set(k, EmptyRecord)

Remove(c, k, i) ==
    /\ Answers(c, Answer(store[k][i] # NoValue, EmptyRecord))
    /\ Set(k, [store[k] EXCEPT ![i] = NoValue])

\* The file cannot be written; or FindRecord or Remove, unable to read it, report
\* that there is nothing under the key.
Fail(c) == Answers(c, Answer(FALSE, EmptyRecord)) /\ UNCHANGED store

\* The operations of some clients end; those of the others go on.
Return(C) ==
    /\ answer' = [c \in Client |-> IF c \in C THEN NoAnswer ELSE answer[c]]
    /\ UNCHANGED store

Next ==
    \/ \E c \in Client, k \in Key :
          \/ FindRecord(c, k)
          \/ \E r \in Record : StoreRecord(c, k, r) \/ UpdateRecord(c, k, r)
          \/ RemoveRecord(c, k)
          \/ \E i \in Id : Remove(c, k, i)
    \/ \E c \in Client : Fail(c)
    \/ \E C \in SUBSET Client : Return(C)

Spec == Init /\ [][Next]_vars
=============================================================================
