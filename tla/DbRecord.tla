------------------------------- MODULE DbRecord -------------------------------
(* miopen::DbRecord: the record stored under one key of a database, a map    *)
(* from ids (solvers) to values.  The key is kept by whoever holds the       *)
(* record; NoValue stands for an id that the map lacks.                      *)
CONSTANTS Id, Value, NoValue

ASSUME DbRecordAssumption == NoValue \notin Value

Record      == [Id -> Value \cup {NoValue}]
EmptyRecord == [i \in Id |-> NoValue]

Has(r, i) == r[i] # NoValue
Ids(r)    == {i \in Id : Has(r, i)}

\* The record that Update(problem, id, values) starts from.
Single(i, v) == [EmptyRecord EXCEPT ![i] = v]

\* r.Merge(that): the ids of that which r lacks are added to r.
Merge(r, that) == [i \in Id |-> IF Has(r, i) THEN r[i] ELSE that[i]]

EraseValues(r, i) == [r EXCEPT ![i] = NoValue]
==============================================================================
