------------------------------ MODULE ValueStore ------------------------------
(****************************************************************************)
(* What the documentation promises of the performance database: for every   *)
(* problem a map from solvers to values, which many clients read and change *)
(* and which outlives them, each operation at one instant, in front of an   *)
(* installed map that never changes.  answer[c] is what the operation of    *)
(* client c has determined to return, until the client takes it.            *)
(****************************************************************************)
CONSTANTS Client, Key, Id, Value,
          NoValue,    \* the record has no such id
          NoAnswer,
          Installed   \* Installed[k][i]: the value of the system database

VARIABLES store, answer

vars == <<store, answer>>

EmptyRecord == [i \in Id |-> NoValue]

Answer(status, v) == [status |-> status, value |-> v]

Init ==
    /\ store  = [k \in Key |-> EmptyRecord]
    /\ answer = [c \in Client |-> NoAnswer]

Answers(c, status, v) ==
    /\ answer[c] = NoAnswer
    /\ answer' = [answer EXCEPT ![c] = Answer(status, v)]

Set(k, i, v) == store' = [store EXCEPT ![k][i] = v]

\* "User PerfDb always takes precedence over System PerfDb."
Preferred(k, i) == IF store[k][i] # NoValue THEN store[k][i] ELSE Installed[k][i]

Load(c, k, i) ==
    /\ Answers(c, IF Preferred(k, i) = NoValue THEN "false" ELSE "true", Preferred(k, i))
    /\ UNCHANGED store

Update(c, k, i, v) == Answers(c, "true", NoValue) /\ Set(k, i, v)

Remove(c, k, i) == Answers(c, "true", NoValue) /\ Set(k, i, NoValue)

\* The operation returns false or throws, and has done nothing.
Fail(c, status) ==
    /\ status \in {"false", "threw"}
    /\ Answers(c, status, NoValue)
    /\ UNCHANGED store

\* The clients take their answers, or die.
Return(C) ==
    /\ answer' = [c \in Client |-> IF c \in C THEN NoAnswer ELSE answer[c]]
    /\ UNCHANGED store

Next ==
    \/ \E c \in Client, k \in Key, i \in Id :
          \/ Load(c, k, i) \/ Remove(c, k, i)
          \/ \E v \in Value : Update(c, k, i, v)
    \/ \E c \in Client, status \in {"false", "threw"} : Fail(c, status)
    \/ \E C \in SUBSET Client : Return(C)

Spec == Init /\ [][Next]_vars
===============================================================================
