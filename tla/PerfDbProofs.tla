----------------------------- MODULE PerfDbProofs -----------------------------
(* What holds of the performance database for any clients, problems, solvers *)
(* and values, and whatever fails.                                           *)
EXTENDS PerfDb, TLAPS

\* A client whose update is between its statements has not been answered.
Unanswered == \A c \in Client : op[c] # NoOp => answer[c] = NoAnswer

DbInv == DbTypeOK /\ ValuesHaveProblems /\ Unanswered

USE DEF Record, EmptyRecord, Has, EraseValues, Op, Statuses, Answer

\* The initial state satisfies the invariant.
LEMMA InitDbInv == DbInit => DbInv
  BY DEF DbInit, DbInv, DbTypeOK, ValuesHaveProblems, Unanswered

\* An answer is of its type.
LEMMA AnswersType ==
    ASSUME DbTypeOK, NEW c \in Client, NEW status \in Statuses,
           NEW v \in Value \cup {NoValue}, Answers(c, status, v)
    PROVE  /\ answer' \in [Client -> {NoAnswer} \cup
                              [status : Statuses, value : Value \cup {NoValue}]]
           /\ \A d \in Client \ {c} : answer'[d] = answer[d]
  BY DEF Answers, DbTypeOK

\* Every step of every client keeps the invariant.
LEMMA StepDbInv ==
    ASSUME Installed \in [Key -> Record], DbInv, [DbNext]_dbVars
    PROVE  DbInv'
  <1> USE DEF DbInv, DbTypeOK, ValuesHaveProblems, Unanswered
  <1>1. ASSUME NEW c \in Client, NEW k \in Key, NEW i \in Id, Load(c, k, i) PROVE DbInv'
    <2>1. Preferred(k, i) \in Value \cup {NoValue}
      BY DEF Preferred, UserRecord
    <2>2. IF Preferred(k, i) = NoValue THEN "false" \in Statuses ELSE "true" \in Statuses
      OBVIOUS
    <2>3. answer' \in [Client -> {NoAnswer} \cup
                          [status : Statuses, value : Value \cup {NoValue}]]
          /\ \A d \in Client \ {c} : answer'[d] = answer[d]
      BY <1>1, <2>1, <2>2, AnswersType DEF Load
    <2> QED
      BY <1>1, <2>3 DEF Load, Ready
  <1>2. ASSUME NEW c \in Client, NEW k \in Key, NEW i \in Id, Remove(c, k, i) PROVE DbInv'
    <2>1. answer' \in [Client -> {NoAnswer} \cup
                          [status : Statuses, value : Value \cup {NoValue}]]
          /\ \A d \in Client \ {c} : answer'[d] = answer[d]
      BY <1>2, AnswersType DEF Remove
    <2>2. perf_db' \in [Key -> Record] /\ \A l \in Key \ config : perf_db'[l] = perf_db[l]
      BY <1>2 DEF Remove
    <2> QED
      BY <1>2, <2>1, <2>2 DEF Remove, Ready
  <1>3. ASSUME NEW c \in Client, NEW k \in Key, NEW i \in Id, NEW v \in Value,
               InsertConfig(c, k, i, v)
        PROVE  DbInv'
    BY <1>3 DEF InsertConfig, Ready
  <1>4. ASSUME NEW c \in Client, InsertValue(c) PROVE DbInv'
    <2>1. op[c] \in Op /\ op[c].key \in config
      BY <1>4 DEF InsertValue
    <2>2. answer' \in [Client -> {NoAnswer} \cup
                          [status : Statuses, value : Value \cup {NoValue}]]
          /\ \A d \in Client \ {c} : answer'[d] = answer[d]
      BY <1>4, AnswersType DEF InsertValue
    <2>3. perf_db' \in [Key -> Record] /\ \A l \in Key \ config : perf_db'[l] = perf_db[l]
      BY <1>4, <2>1 DEF InsertValue
    <2>4. op' \in [Client -> Op \cup {NoOp}] /\ op'[c] = NoOp
          /\ \A d \in Client \ {c} : op'[d] = op[d]
      BY <1>4 DEF InsertValue
    <2> QED
      BY <1>4, <2>2, <2>3, <2>4 DEF InsertValue
  <1>5. ASSUME NEW c \in Client, LoadFails(c) \/ RemoveFails(c) \/ UpdateFails(c) PROVE DbInv'
    <2>1. answer' \in [Client -> {NoAnswer} \cup
                          [status : Statuses, value : Value \cup {NoValue}]]
          /\ \A d \in Client \ {c} : answer'[d] = answer[d]
      BY <1>5, AnswersType DEF LoadFails, RemoveFails, UpdateFails
    <2>2. op' \in [Client -> Op \cup {NoOp}] /\ op'[c] = NoOp
          /\ \A d \in Client \ {c} : op'[d] = op[d]
      BY <1>5 DEF LoadFails, RemoveFails, UpdateFails, Ready
    <2> QED
      BY <1>5, <2>1, <2>2 DEF LoadFails, RemoveFails, UpdateFails
  <1>6. ASSUME NEW c \in Client, Take(c) \/ Die(c) PROVE DbInv'
    BY <1>6 DEF Take, Die
  <1>7. CASE UNCHANGED dbVars \/ \E c \in Client : LoadRepeats(c)
    BY <1>7 DEF dbVars, LoadRepeats
  <1> QED
    BY <1>1, <1>2, <1>3, <1>4, <1>5, <1>6, <1>7 DEF DbNext

\* The installed database holds records of the solvers' values.
InstalledRecords == Installed \in [Key -> Record]

\* The invariant is inductive.
LEMMA Invariance == ASSUME InstalledRecords PROVE DbSpec => []DbInv
  <1>1. DbInv /\ [DbNext]_dbVars => DbInv'
    BY StepDbInv DEF InstalledRecords
  <1> QED
    BY InitDbInv, <1>1, PTL DEF DbSpec

\* The tables, the updates in progress and the answers keep their types.
THEOREM TypeCorrect == ASSUME InstalledRecords PROVE DbSpec => []DbTypeOK
  BY Invariance, PTL DEF DbInv

\* No value is ever without its problem, and the second statement of an update
\* finds the row of the first, whatever other clients do, fails or dies.
THEOREM ProblemsFirst == ASSUME InstalledRecords PROVE DbSpec => []ValuesHaveProblems
  BY Invariance, PTL DEF DbInv

USE DEF DbInv, DbTypeOK, ValuesHaveProblems, Unanswered

\* The empty tables are the empty store.
LEMMA RefinesInit == DbInit => Store!Init
  BY DEF DbInit, Store!Init, Store!EmptyRecord, UserRecord

\* What a step leaves alone of the tables the store does not see change.
LEMMA SameStore ==
    ASSUME config' = config, perf_db' = perf_db
    PROVE  [k \in Key |-> UserRecord(k)]' = [k \in Key |-> UserRecord(k)]
  BY DEF UserRecord

\* Every step is an operation of the store, its failure, or nothing.
LEMMA RefinesStep ==
    ASSUME DbInv, [DbNext]_dbVars PROVE [Store!Next]_(Store!vars)
  <1>1. ASSUME NEW c \in Client, NEW k \in Key, NEW i \in Id, Load(c, k, i)
        PROVE  Store!Load(c, k, i)
    BY <1>1, SameStore DEF Load, Ready, Store!Load, Preferred, Store!Preferred, UserRecord,
                           Answers, Store!Answers, Store!Answer
  <1>2. ASSUME NEW c \in Client, NEW k \in Key, NEW i \in Id, Remove(c, k, i)
        PROVE  Store!Remove(c, k, i)
    BY <1>2 DEF Remove, Ready, Store!Remove, Store!Set, UserRecord,
                Answers, Store!Answers, Store!Answer
  <1>3. ASSUME NEW c \in Client, NEW k \in Key, NEW i \in Id, NEW v \in Value,
               InsertConfig(c, k, i, v)
        PROVE  UNCHANGED Store!vars
    BY <1>3 DEF InsertConfig, UserRecord, Store!vars
  <1>4. ASSUME NEW c \in Client, InsertValue(c)
        PROVE  \E k \in Key, i \in Id, v \in Value : Store!Update(c, k, i, v)
    <2>1. op[c] \in Op
      BY <1>4 DEF InsertValue
    <2>2. Store!Update(c, op[c].key, op[c].id, op[c].value)
      BY <1>4 DEF InsertValue, Store!Update, Store!Set, UserRecord,
                  Answers, Store!Answers, Store!Answer
    <2> QED
      BY <2>1, <2>2
  <1>5. ASSUME NEW c \in Client, LoadFails(c) \/ RemoveFails(c) \/ UpdateFails(c)
        PROVE  \E status \in {"false", "threw"} : Store!Fail(c, status)
    BY <1>5, SameStore DEF LoadFails, RemoveFails, UpdateFails, Ready, Store!Fail,
                           Answers, Store!Answers, Store!Answer
  <1>6. ASSUME NEW c \in Client, Take(c) \/ Die(c) PROVE Store!Return({c})
    BY <1>6, SameStore DEF Take, Die, Store!Return
  <1>7. ASSUME UNCHANGED dbVars \/ \E c \in Client : LoadRepeats(c)
        PROVE  UNCHANGED Store!vars
    BY <1>7, SameStore DEF dbVars, Store!vars, LoadRepeats
  <1>8. ASSUME NEW c \in Client, Store!Return({c}) PROVE Store!Next
    BY <1>8 DEF Store!Next
  <1> QED
    BY <1>1, <1>2, <1>3, <1>4, <1>5, <1>6, <1>7, <1>8 DEF DbNext, Store!Next

\* The performance database implements the store of values: its two tables and
\* the two statements of an update are one map that changes at one instant.
THEOREM Refinement == ASSUME InstalledRecords PROVE DbSpec => ImplementsValueStore
  BY Invariance, RefinesInit, RefinesStep, PTL DEF DbSpec, ImplementsValueStore, Store!Spec
===============================================================================
