-------------------------------- MODULE PerfDb --------------------------------
(****************************************************************************)
(* The performance database: MultiFileDb<SQLitePerfDb, SQLitePerfDb, true>, *)
(* a system database that is only read in front of which stands the user's, *)
(* an SQLite file that every process of the user opens.  Its table config   *)
(* holds the problems, perf_db a value per solver and row of config.        *)
(*                                                                          *)
(* SQLite executes one statement at a time (the connection is serialized,   *)
(* the file locked), so a step is a statement.  No transaction joins the    *)
(* two statements of an update.  A statement that finds the file busy is    *)
(* retried for 30 seconds and throws then.                                  *)
(****************************************************************************)
EXTENDS DbRecord

CONSTANTS Client,     \* the processes (or their threads) that use the database
          Key,        \* the problems
          Installed,  \* Installed[k]: the record of the system database
          NoOp, NoAnswer,
          Faults      \* "db" \in Faults[c]: statements of client c fail,
                      \* "db_code": those of Load with a code Load does not expect

VARIABLES config,   \* the problems with a row in the table config
          perf_db,  \* perf_db[k]: the rows of the table perf_db that refer to k
          op,       \* op[c]: the update client c is in the middle of
          answer    \* answer[c]: what its operation returned, until it is used

dbVars == <<config, perf_db, op, answer>>

Op == [key : Key, id : Id, value : Value]

Statuses == {"true", "false", "threw"}
Answer(status, v) == [status |-> status, value |-> v]

DbTypeOK ==
    /\ config \subseteq Key
    /\ perf_db \in [Key -> Record]
    /\ op \in [Client -> Op \cup {NoOp}]
    /\ answer \in [Client -> {NoAnswer} \cup [status : Statuses, value : Value \cup {NoValue}]]

DbInit ==
    /\ config = {}
    /\ perf_db = [k \in Key |-> EmptyRecord]
    /\ op = [c \in Client |-> NoOp]
    /\ answer = [c \in Client |-> NoAnswer]

Ready(c) == op[c] = NoOp /\ answer[c] = NoAnswer

Answers(c, status, v) == answer' = [answer EXCEPT ![c] = Answer(status, v)]

\* FindRecordUnsafe joins the tables: a row of perf_db counts only with its
\* problem.
UserRecord(k) == IF k \in config THEN perf_db[k] ELSE EmptyRecord

\* MultiFileDb::Load asks the user's database, then the system's.
Preferred(k, i) == IF Has(UserRecord(k), i) THEN UserRecord(k)[i] ELSE Installed[k][i]

\* The system database never changes, so both are read at the instant of the
\* first.
Load(c, k, i) ==
    /\ Ready(c)
    /\ Answers(c, IF Preferred(k, i) = NoValue THEN "false" ELSE "true", Preferred(k, i))
    /\ UNCHANGED <<config, perf_db, op>>

\* One DELETE, in the user's database only.  It succeeds also when there was
\* nothing to delete; the row of config stays.
Remove(c, k, i) ==
    /\ Ready(c)
    /\ perf_db' = IF k \in config THEN [perf_db EXCEPT ![k] = EraseValues(@, i)]
                  ELSE perf_db
    /\ Answers(c, "true", NoValue)
    /\ UNCHANGED <<config, op>>

\* A variation that leaves the problem out.
InsertConfig_Nothing(c, k, i, v) ==
    /\ Ready(c)
    /\ op' = [op EXCEPT ![c] = [key |-> k, id |-> i, value |-> v]]
    /\ UNCHANGED <<config, perf_db, answer>>

\* A variation with INSERT OR REPLACE: the problem gets a new id, to which no
\* value refers.
InsertConfig_OrReplace(c, k, i, v) ==
    /\ Ready(c)
    /\ config' = config \cup {k}
    /\ perf_db' = [perf_db EXCEPT ![k] = EmptyRecord]
    /\ op' = [op EXCEPT ![c] = [key |-> k, id |-> i, value |-> v]]
    /\ UNCHANGED answer

\* Update, first statement: INSERT OR IGNORE INTO config.
InsertConfig(c, k, i, v) ==
    /\ Ready(c)
    /\ config' = config \cup {k}
    /\ op' = [op EXCEPT ![c] = [key |-> k, id |-> i, value |-> v]]
    /\ UNCHANGED <<perf_db, answer>>

\* Second statement: INSERT OR REPLACE INTO perf_db.
InsertValue(c) ==
    /\ op[c] # NoOp
    /\ perf_db' = [perf_db EXCEPT ![op[c].key][op[c].id] = op[c].value]
    /\ Answers(c, "true", NoValue)
    /\ op' = [op EXCEPT ![c] = NoOp]
    /\ UNCHANGED config

\* A statement fails: Load throws, Remove throws or returns false.
LoadFails(c) ==
    /\ "db" \in Faults[c] /\ Ready(c)
    /\ Answers(c, "threw", NoValue)
    /\ UNCHANGED <<config, perf_db, op>>

\* The loop over the rows ends with DONE, and throws after ERROR, MISUSE and a
\* file that stays busy; after any other code, IOERR or CORRUPT, it steps again.
LoadRepeats(c) ==
    /\ "db_code" \in Faults[c] /\ Ready(c)
    /\ UNCHANGED dbVars

RemoveFails(c) ==
    /\ "db" \in Faults[c] /\ Ready(c)
    /\ \E status \in {"false", "threw"} : Answers(c, status, NoValue)
    /\ UNCHANGED <<config, perf_db, op>>

\* The first statement of Update throws; the second may also return none.
UpdateFails(c) ==
    /\ "db" \in Faults[c]
    /\ \/ Ready(c) /\ Answers(c, "threw", NoValue)
       \/ op[c] # NoOp /\ \E status \in {"false", "threw"} : Answers(c, status, NoValue)
    /\ op' = [op EXCEPT ![c] = NoOp]
    /\ UNCHANGED <<config, perf_db>>

\* The client uses the answer.
Take(c) ==
    /\ answer[c] # NoAnswer
    /\ answer' = [answer EXCEPT ![c] = NoAnswer]
    /\ UNCHANGED <<config, perf_db, op>>

\* The client dies.  The tables are kept, an update stops where it is.
Die(c) ==
    /\ op' = [op EXCEPT ![c] = NoOp]
    /\ answer' = [answer EXCEPT ![c] = NoAnswer]
    /\ UNCHANGED <<config, perf_db>>

DbNext ==
    \E c \in Client :
        \/ \E k \in Key, i \in Id :
              \/ Load(c, k, i) \/ Remove(c, k, i)
              \/ \E v \in Value : InsertConfig(c, k, i, v)
        \/ InsertValue(c) \/ LoadFails(c) \/ LoadRepeats(c) \/ RemoveFails(c)
        \/ UpdateFails(c)
        \/ Take(c) \/ Die(c)

DbSpec == DbInit /\ [][DbNext]_dbVars

------------------------------------------------------------------------------
(* Properties.                                                              *)

\* The SELECT inside the second statement of an update must find the row the
\* first one inserted, and no value may be without its problem: whatever fails
\* or dies between the two statements of whomever.
ValuesHaveProblems ==
    /\ \A k \in Key : perf_db[k] # EmptyRecord => k \in config
    /\ \A c \in Client : op[c] # NoOp => op[c].key \in config

\* The two tables are the abstract store, whose value changes at the second
\* statement of an update; the first is not visible.
Store == INSTANCE ValueStore WITH store <- [k \in Key |-> UserRecord(k)]

ImplementsValueStore == Store!Spec
===============================================================================
