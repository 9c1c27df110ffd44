----------------------------- MODULE FindDbProofs -----------------------------
(* What holds of FindDb for any number of handles, algorithms and solvers.  *)
EXTENDS FindDb, TLAPS

\* Every solver that record r names has its invoker in handle h.
Built(h, r) == \A a \in Ids(r) : HasInvoker(cache[h], r[a])

\* The entry of an invoker cache is consistent: an algorithm that has a built
\* solver has a found one, and a found solver is built and of its algorithm.
ItemInv(item) ==
    /\ \A s \in item.invokers : GetFound1_0(item, algo[s]) # NoSolver
    /\ \A a \in Algorithm : GetFound1_0(item, a) # NoSolver =>
           Runs(item, a) /\ algo[GetFound1_0(item, a)] = a

\* What a Find has in hand: a record read from a find-db is well formed, and
\* one being measured also names built solvers only.
CallInv(h) ==
    /\ WellFormed(call[h].content)
    /\ call[h].at \in {"evaluate", "store"} => Built(h, call[h].content)
    /\ call[h].at = "compile" => call[h].solver \in Solver

HandleInv(h) ==
    /\ ItemInv(cache[h])
    /\ CallInv(h)
    /\ WellFormed(reported[h]) /\ Built(h, reported[h])
    /\ author = h => Built(h, userDb)

IInv == TypeOK /\ WellFormed(userDb) /\ \A h \in Handle : HandleInv(h)

USE DEF Has, Ids, Record, EmptyRecord

\* The initial state satisfies the invariant.
LEMMA InitIInv == Init => IInv
  <1> USE InvokerCacheAssumption, FindDbAssumption
  <1> SUFFICES ASSUME Init PROVE IInv
    OBVIOUS
  <1>1. TypeOK
    BY DEF Init, TypeOK, Item, EmptyItem, Call, Idle, Stages, FindModes
  <1> QED
    BY <1>1 DEF Init, IInv, HandleInv, ItemInv, CallInv, Built, WellFormed, EmptyItem, Idle,
                HasInvoker, GetFound1_0, Runs

\* Registering an invoker keeps an entry consistent and removes nothing.
LEMMA RegisterItem ==
    ASSUME NEW item \in Item, NEW s \in Solver
    PROVE  LET new == RegisterInvoker(item, s, algo[s]) IN
           /\ new \in Item
           /\ item.invokers \subseteq new.invokers /\ HasInvoker(new, s)
           /\ ItemInv(item) => ItemInv(new)
  BY InvokerCacheAssumption, FindDbAssumption
  DEF Item, RegisterInvoker, HasInvoker, ItemInv, GetFound1_0, Runs

\* An idle call is a call.
LEMMA IdleCall == Idle \in Call
  BY DEF Call, Idle, Stages, FindModes

\* Every step keeps the types.
LEMMA TypeStep == TypeOK /\ (\A h \in Handle : CallInv(h)) /\ [Next]_vars => TypeOK'
  <1> SUFFICES ASSUME TypeOK, \A h \in Handle : CallInv(h), [Next]_vars PROVE TypeOK'
    OBVIOUS
  <1> USE DEF TypeOK
  <1>1. ASSUME NEW h \in Handle, NEW s \in Solver, Register(h, s)
        PROVE  cache' \in [Handle -> Item]
    BY <1>1, RegisterItem DEF Register
  <1>2. ASSUME NEW h \in Handle, NEW m \in Modes, FindConvFwdAlgorithm(h, m) PROVE TypeOK'
    BY <1>2, FindDbAssumption DEF FindConvFwdAlgorithm, Call, Idle, Stages, FindModes
  <1>3. ASSUME NEW h \in Handle, Choose(h) PROVE TypeOK'
    <2>1. PICK c \in Call : call' = [call EXCEPT ![h] = c]
      <3>1. ASSUME NEW s \in Solver PROVE [Idle EXCEPT !.at = "compile", !.solver = s] \in Call
        BY DEF Call, Idle, Stages, FindModes
      <3>2. [Idle EXCEPT !.at = "load"] \in Call
        BY DEF Call, Idle, Stages, FindModes
      <3> QED
        BY <1>3, <3>1, <3>2, FindDbAssumption DEF Choose, Solutions
    <2> QED
      BY <1>3, <2>1 DEF Choose
  <1>4. ASSUME NEW h \in Handle, CompileForwardSolution(h) PROVE TypeOK'
    <2>1. call[h].solver \in Solver
      BY <1>4 DEF CompileForwardSolution, CallInv
    <2> QED
      BY <1>1, <1>4, <2>1, IdleCall
      DEF CompileForwardSolution, LoadOrPrepareInvoker, Reports, Single
  <1>5. ASSUME NEW h \in Handle, CompileThrows(h) PROVE TypeOK'
    BY <1>5, IdleCall DEF CompileThrows, Throws
  <1>6. ASSUME NEW h \in Handle, Load(h) PROVE TypeOK'
    <2>1. call[h] \in Call
      OBVIOUS
    <2>2. [call[h] EXCEPT !.at = "validate", !.content = userDb] \in Call
      BY <2>1 DEF Call, Stages
    <2>3. call' = [call EXCEPT ![h] = [@ EXCEPT !.at = "validate", !.content = userDb]]
      BY <1>6 DEF Load
    <2> QED
      BY <1>6, <2>2, <2>3 DEF Load
  <1>7. ASSUME NEW h \in Handle, Validate(h) PROVE TypeOK'
    <2>1. call[h] \in Call /\ call[h].content \in Record
      BY DEF Call
    <2>2. [call[h] EXCEPT !.at = "evaluate", !.todo = Algorithm, !.content = EmptyRecord] \in Call
      BY <2>1 DEF Call, Stages
    <2>3. CASE Hit(h, call[h].content)
      BY <1>7, <2>1, <2>3, IdleCall DEF Validate, Reports
    <2>4. CASE ~ Hit(h, call[h].content)
      <3>1. call' = [call EXCEPT ![h] =
                 [@ EXCEPT !.at = "evaluate", !.todo = Algorithm, !.content = EmptyRecord]]
        BY <1>7, <2>4 DEF Validate
      <3> QED
        BY <1>7, <2>2, <2>4, <3>1 DEF Validate
    <2> QED
      BY <2>3, <2>4
  <1>8. ASSUME NEW h \in Handle, NEW a \in Algorithm, EvaluateInvokers(h, a) PROVE TypeOK'
    <2>1. call[h] \in Call
      OBVIOUS
    <2> DEFINE less == call[h].todo \ {a}
    <2>2. [call[h] EXCEPT !.todo = less] \in Call
      BY <2>1 DEF Call
    <2>3. ASSUME NEW s \in Solver
          PROVE  [call[h] EXCEPT !.todo = less, !.content = [call[h].content EXCEPT ![a] = s]]
                     \in Call
      <3>1. call[h].content \in Record /\ less \in SUBSET Algorithm
        BY <2>1 DEF Call
      <3>2. [call[h].content EXCEPT ![a] = s] \in Record
        BY <3>1
      <3> QED
        BY <2>1, <3>1, <3>2 DEF Call
    <2>4. CASE call' = [call EXCEPT ![h].todo = @ \ {a}] /\ UNCHANGED cache
      BY <1>8, <2>2, <2>4 DEF EvaluateInvokers
    <2>5. ASSUME NEW s \in Solver, Register(h, s),
                 call' = [call EXCEPT ![h].todo = @ \ {a}, ![h].content[a] = s]
          PROVE  TypeOK'
      <3>1. call' = [call EXCEPT ![h] = [call[h] EXCEPT !.todo = less,
                         !.content = [call[h].content EXCEPT ![a] = s]]]
        BY <2>1, <2>5 DEF Call
      <3>2. call' \in [Handle -> Call]
        BY <2>3, <3>1
      <3> QED
        BY <1>1, <1>8, <2>5, <3>2 DEF EvaluateInvokers
    <2>6. Applicable[h] \subseteq Solver
      BY FindDbAssumption
    <2> QED
      BY <1>8, <2>4, <2>5, <2>6 DEF EvaluateInvokers
  <1>9. ASSUME NEW h \in Handle, EvaluationEnds(h) PROVE TypeOK'
    <2>1. call[h] \in Call
      OBVIOUS
    <2>2. [call[h] EXCEPT !.at = "store"] \in Call
      BY <2>1 DEF Call, Stages
    <2>3. [call[h] EXCEPT !.at = "store", !.todo = {}, !.threw = TRUE] \in Call
      BY <2>1 DEF Call, Stages
    <2>4. \/ call' = [call EXCEPT ![h] = [@ EXCEPT !.at = "store"]]
          \/ call' = [call EXCEPT ![h] = [@ EXCEPT !.at = "store", !.todo = {}, !.threw = TRUE]]
      BY <1>9 DEF EvaluationEnds, Goto
    <2>5. PICK c \in Call : call' = [call EXCEPT ![h] = c]
      BY <2>2, <2>3, <2>4
    <2> QED
      BY <1>9, <2>5 DEF EvaluationEnds
  <1>10. ASSUME NEW h \in Handle, StoreRecord(h) PROVE TypeOK'
    <2>1. call[h].content \in Record
      BY DEF Call
    <2>2. userDb' \in Record /\ author' \in Handle \cup {NoHandle} /\ UNCHANGED cache
      BY <1>10, <2>1 DEF StoreRecord
    <2>3. Throws(h) \/ Reports(h, call[h].content)
      BY <1>10 DEF StoreRecord
    <2>4. call' \in [Handle -> Call]
      BY <2>3, IdleCall DEF Throws, Reports
    <2>5. reported' \in [Handle -> Record]
      BY <2>1, <2>3 DEF Throws, Reports
    <2> QED
      BY <2>2, <2>4, <2>5
  <1>11. ASSUME NEW h \in Handle, NEW s \in Solver, Immediate(h, s) PROVE TypeOK'
    BY <1>1, <1>11 DEF Immediate, LoadOrPrepareInvoker
  <1>12. ASSUME NEW h \in Handle, Destroy(h) PROVE TypeOK'
    BY <1>12, IdleCall DEF Destroy, Item, EmptyItem
  <1>13. CASE UNCHANGED vars
    BY <1>13 DEF vars
  <1> QED
    BY <1>2, <1>3, <1>4, <1>5, <1>6, <1>7, <1>8, <1>9, <1>10, <1>11, <1>12, <1>13 DEF Next, Find

\* An empty record is well formed and built everywhere.
LEMMA EmptyBuilt == \A h \in Handle : WellFormed(EmptyRecord) /\ Built(h, EmptyRecord)
  BY DEF WellFormed, Built

\* The record that names one solver is well formed.
LEMMA SingleFormed ==
    ASSUME NEW s \in Solver
    PROVE  LET r == Single(algo[s], s) IN
           Ids(r) = {algo[s]} /\ r[algo[s]] = s /\ WellFormed(r)
  BY InvokerCacheAssumption, FindDbAssumption DEF Single, WellFormed

\* A step of one handle disturbs no other: it may store a record of its own.
LEMMA OtherHandle ==
    ASSUME NEW g \in Handle, HandleInv(g),
           cache'[g] = cache[g], call'[g] = call[g], reported'[g] = reported[g],
           author' = g => author = g /\ userDb' = userDb
    PROVE  HandleInv(g)'
  BY DEF HandleInv, ItemInv, CallInv, Built, WellFormed, HasInvoker, GetFound1_0, Runs

\* The handles other than the one that makes the step.
LEMMA OthersStep ==
    ASSUME TypeOK, NEW h \in Handle, NEW g \in Handle \ {h}, HandleInv(g),
           \/ Find(h) \/ (\E s \in Solver : Immediate(h, s)) \/ Destroy(h)
    PROVE  HandleInv(g)'
  <1>1. cache'[g] = cache[g] /\ call'[g] = call[g] /\ reported'[g] = reported[g]
    BY DEF TypeOK, Find, FindConvFwdAlgorithm, Choose, CompileForwardSolution, CompileThrows, Load,
           Validate, EvaluateInvokers, EvaluationEnds, StoreRecord, Immediate, Destroy,
           LoadOrPrepareInvoker, Register, Reports, Throws, Goto
  <1>2. author' = g => author = g /\ userDb' = userDb
    BY FindDbAssumption
    DEF TypeOK, Find, FindConvFwdAlgorithm, Choose, CompileForwardSolution, CompileThrows, Load,
        Validate, EvaluateInvokers, EvaluationEnds, StoreRecord, Immediate, Destroy
  <1> QED
    BY <1>1, <1>2, OtherHandle

\* A built solver stays built when an invoker is registered.
LEMMA RegisterStep ==
    ASSUME TypeOK, NEW h \in Handle, NEW s \in Solver, ItemInv(cache[h]),
           Register(h, s) \/ LoadOrPrepareInvoker(h, s)
    PROVE  /\ ItemInv(cache'[h]) /\ HasInvoker(cache'[h], s)
           /\ \A r \in Record : Built(h, r) => (\A a \in Ids(r) : HasInvoker(cache'[h], r[a]))
  <1>1. cache[h] \in Item
    BY DEF TypeOK
  <1>2. CASE Register(h, s)
    <2>1. cache'[h] = RegisterInvoker(cache[h], s, algo[s])
      BY <1>2 DEF Register, TypeOK
    <2> QED
      BY <1>1, <2>1, RegisterItem DEF Built, HasInvoker
  <1>3. CASE HasInvoker(cache[h], s) /\ UNCHANGED cache
    BY <1>3 DEF Built
  <1> QED
    BY <1>2, <1>3 DEF LoadOrPrepareInvoker

\* What HandleInv says of the next state, in terms of the primed variables.
LEMMA HandleNext ==
    ASSUME NEW h \in Handle, ItemInv(cache'[h]),
           WellFormed(call'[h].content), WellFormed(reported'[h]),
           call'[h].at \in {"evaluate", "store"} =>
               \A a \in Ids(call'[h].content) : HasInvoker(cache'[h], call'[h].content[a]),
           call'[h].at = "compile" => call'[h].solver \in Solver,
           \A a \in Ids(reported'[h]) : HasInvoker(cache'[h], reported'[h][a]),
           author' = h => \A a \in Ids(userDb') : HasInvoker(cache'[h], userDb'[a])
    PROVE  HandleInv(h)'
  BY DEF HandleInv, ItemInv, CallInv, Built, WellFormed, HasInvoker, GetFound1_0, Runs

\* A step that leaves the invoker cache and the database alone, and the
\* reported record unless it is built.
LEMMA QuietStep ==
    ASSUME TypeOK, NEW h \in Handle, HandleInv(h),
           cache' = cache, userDb' = userDb, author' = author,
           \/ reported' = reported
           \/ WellFormed(reported'[h]) /\ Built(h, reported'[h]),
           WellFormed(call'[h].content),
           call'[h].at \in {"evaluate", "store"} => Built(h, call'[h].content),
           call'[h].at = "compile" => call'[h].solver \in Solver
    PROVE  HandleInv(h)'
  <1>1. ItemInv(cache'[h])
    BY DEF HandleInv
  <1>2. WellFormed(reported'[h]) /\ Built(h, reported'[h])
    BY DEF HandleInv
  <1>3. author' = h => Built(h, userDb')
    BY DEF HandleInv
  <1>4. \A r : Built(h, r) => \A a \in Ids(r) : HasInvoker(cache'[h], r[a])
    BY DEF Built
  <1>5. \A a \in Ids(reported'[h]) : HasInvoker(cache'[h], reported'[h][a])
    BY <1>2, <1>4
  <1>6. author' = h => \A a \in Ids(userDb') : HasInvoker(cache'[h], userDb'[a])
    BY <1>3, <1>4
  <1>7. call'[h].at \in {"evaluate", "store"} =>
            \A a \in Ids(call'[h].content) : HasInvoker(cache'[h], call'[h].content[a])
    BY <1>4
  <1> QED
    BY <1>1, <1>2, <1>5, <1>6, <1>7, HandleNext

\* What a handle is left with by a step of its own that registers nothing.
LEMMA QuietSteps ==
    ASSUME TypeOK, WellFormed(userDb), NEW h \in Handle, HandleInv(h),
           \/ \E m \in Modes : FindConvFwdAlgorithm(h, m)
           \/ Choose(h) \/ CompileThrows(h) \/ Load(h) \/ Validate(h) \/ EvaluationEnds(h)
    PROVE  HandleInv(h)' /\ WellFormed(userDb)'
  <1> USE InvokerCacheAssumption, FindDbAssumption
  <1>0. CallInv(h) /\ call[h] \in Call /\ WellFormed(EmptyRecord)
    BY EmptyBuilt DEF HandleInv, TypeOK
  <1>1. ASSUME NEW m \in Modes, FindConvFwdAlgorithm(h, m) PROVE HandleInv(h)' /\ WellFormed(userDb)'
    <2>1. /\ call'[h].at \in {"validate", "choose"}
          /\ call'[h].content \in {userDb, Installed}
      BY <1>1 DEF FindConvFwdAlgorithm, TypeOK, Idle
    <2>2. WellFormed(call'[h].content)
      BY <2>1
    <2> QED
      BY <1>1, <2>1, <2>2, QuietStep DEF FindConvFwdAlgorithm
  <1>2. CASE Choose(h)
    <2>1. ASSUME NEW s \in Solver,
                 call' = [call EXCEPT ![h] = [Idle EXCEPT !.at = "compile", !.solver = s]]
          PROVE  HandleInv(h)'
      <3>1. /\ call'[h].at = "compile" /\ call'[h].solver = s
            /\ call'[h].content = EmptyRecord
        BY <2>1 DEF TypeOK, Idle
      <3> QED
        BY <1>0, <1>2, <3>1, QuietStep DEF Choose
    <2>2. ASSUME call' = [call EXCEPT ![h] = [Idle EXCEPT !.at = "load"]]
          PROVE  HandleInv(h)'
      <3>1. call'[h].at = "load" /\ call'[h].content = EmptyRecord
        BY <2>2 DEF TypeOK, Idle
      <3> QED
        BY <1>0, <1>2, <3>1, QuietStep DEF Choose
    <2> QED
      BY <1>2, <2>1, <2>2 DEF Choose, Solutions
  <1>3. CASE CompileThrows(h)
    <2>1. call'[h] = Idle
      BY <1>3 DEF CompileThrows, Throws, TypeOK
    <2> QED
      BY <1>0, <1>3, <2>1, QuietStep DEF CompileThrows, Throws, Idle
  <1>4. CASE Load(h)
    <2>1. call'[h].at = "validate" /\ call'[h].content = userDb
      BY <1>0, <1>4 DEF Load, TypeOK, Call
    <2> QED
      BY <1>4, <2>1, QuietStep DEF Load
  <1>5. CASE Validate(h)
    <2>1. CASE Hit(h, call[h].content)
      <3>1. call'[h] = Idle /\ reported'[h] = call[h].content
        BY <1>5, <2>1 DEF Validate, Reports, TypeOK
      <3>2. WellFormed(reported'[h]) /\ Built(h, reported'[h])
        BY <1>0, <2>1, <3>1 DEF CallInv, Hit, Built
      <3> QED
        BY <1>0, <1>5, <3>1, <3>2, QuietStep DEF Validate, Idle
    <2>2. CASE ~ Hit(h, call[h].content)
      <3>1. call'[h].content = EmptyRecord /\ call'[h].at = "evaluate"
        BY <1>0, <1>5, <2>2 DEF Validate, TypeOK, Call
      <3> QED
        BY <1>0, <1>5, <2>2, <3>1, EmptyBuilt, QuietStep DEF Validate
    <2> QED
      BY <2>1, <2>2
  <1>6. CASE EvaluationEnds(h)
    <2>1. call[h].at = "evaluate" /\ Built(h, call[h].content)
      BY <1>0, <1>6 DEF EvaluationEnds, CallInv
    <2>2. call'[h].at = "store" /\ call'[h].content = call[h].content
      BY <1>0, <1>6 DEF EvaluationEnds, Goto, TypeOK, Call
    <2> QED
      BY <1>0, <1>6, <2>1, <2>2, QuietStep DEF EvaluationEnds, CallInv
  <1> QED
    BY <1>1, <1>2, <1>3, <1>4, <1>5, <1>6

\* The steps of a handle that register an invoker, store the record or end the
\* handle.
LEMMA OtherSteps ==
    ASSUME TypeOK, WellFormed(userDb), NEW h \in Handle, HandleInv(h),
           \/ CompileForwardSolution(h) \/ StoreRecord(h) \/ Destroy(h)
           \/ \E a \in Algorithm : EvaluateInvokers(h, a)
           \/ \E s \in Solver : Immediate(h, s)
    PROVE  HandleInv(h)' /\ WellFormed(userDb)'
  <1> USE InvokerCacheAssumption, FindDbAssumption
  <1>0. /\ CallInv(h) /\ call[h] \in Call /\ call[h].content \in Record
        /\ ItemInv(cache[h]) /\ WellFormed(EmptyRecord)
        /\ userDb \in Record /\ reported[h] \in Record
        /\ WellFormed(reported[h]) /\ Built(h, reported[h])
        /\ author = h => Built(h, userDb)
    BY EmptyBuilt DEF HandleInv, TypeOK, Call
  <1>1. CASE CompileForwardSolution(h)
    <2> DEFINE s == call[h].solver
    <2>1. s \in Solver /\ LoadOrPrepareInvoker(h, s)
      BY <1>0, <1>1 DEF CompileForwardSolution, CallInv
    <2>2. /\ ItemInv(cache'[h]) /\ HasInvoker(cache'[h], s)
          /\ \A r \in Record : Built(h, r) => \A a \in Ids(r) : HasInvoker(cache'[h], r[a])
      BY <1>0, <2>1, RegisterStep
    <2>3. /\ call'[h] = Idle /\ reported'[h] = Single(algo[s], s)
          /\ UNCHANGED <<userDb, author>>
      BY <1>1 DEF CompileForwardSolution, Reports, TypeOK
    <2>4. /\ WellFormed(reported'[h])
          /\ \A a \in Ids(reported'[h]) : HasInvoker(cache'[h], reported'[h][a])
      BY <2>1, <2>2, <2>3, SingleFormed
    <2>5. author' = h => \A a \in Ids(userDb') : HasInvoker(cache'[h], userDb'[a])
      BY <1>0, <2>2, <2>3
    <2> QED
      BY <1>0, <2>2, <2>3, <2>4, <2>5, HandleNext DEF Idle
  <1>2. CASE StoreRecord(h)
    <2>1. cache' = cache /\ WellFormed(call[h].content) /\ Built(h, call[h].content)
      BY <1>0, <1>2 DEF StoreRecord, CallInv
    <2>2. call'[h] = Idle /\ reported'[h] \in {reported[h], call[h].content}
      BY <1>2 DEF StoreRecord, Throws, Reports, TypeOK
    <2>3. WellFormed(userDb') /\ (author' = h => Built(h, userDb'))
      BY <1>0, <1>2, <2>1 DEF StoreRecord
    <2>4. WellFormed(reported'[h]) /\ Built(h, reported'[h])
      BY <1>0, <2>1, <2>2
    <2>5. \A r : Built(h, r) => \A a \in Ids(r) : HasInvoker(cache'[h], r[a])
      BY <2>1 DEF Built
    <2>6. \A a \in Ids(reported'[h]) : HasInvoker(cache'[h], reported'[h][a])
      BY <2>4, <2>5
    <2>7. author' = h => \A a \in Ids(userDb') : HasInvoker(cache'[h], userDb'[a])
      BY <2>3, <2>5
    <2>8. WellFormed(userDb)'
      BY <2>3 DEF WellFormed
    <2> QED
      BY <1>0, <2>1, <2>2, <2>4, <2>6, <2>7, <2>8, HandleNext DEF Idle
  <1>3. CASE Destroy(h)
    <2>1. /\ cache'[h] = EmptyItem /\ call'[h] = Idle /\ reported'[h] = EmptyRecord
          /\ author' # h /\ userDb' = userDb
      BY <1>3 DEF Destroy, TypeOK
    <2>2. ItemInv(cache'[h])
      BY <2>1 DEF ItemInv, EmptyItem, GetFound1_0
    <2> QED
      BY <1>0, <2>1, <2>2, HandleNext DEF Idle
  <1>4. ASSUME NEW a \in Algorithm, EvaluateInvokers(h, a)
        PROVE  HandleInv(h)' /\ WellFormed(userDb)'
    <2>1. call[h].at = "evaluate" /\ Built(h, call[h].content) /\ WellFormed(call[h].content)
      BY <1>0, <1>4 DEF EvaluateInvokers, CallInv
    <2>2. CASE call' = [call EXCEPT ![h].todo = @ \ {a}] /\ UNCHANGED cache
      <3>1. call'[h].content = call[h].content /\ call'[h].at = "evaluate"
        BY <1>0, <2>1, <2>2 DEF TypeOK, Call
      <3> QED
        BY <1>4, <2>1, <2>2, <3>1, QuietStep DEF EvaluateInvokers
    <2>3. ASSUME NEW s \in Solver, algo[s] = a, Register(h, s),
                 call' = [call EXCEPT ![h].todo = @ \ {a}, ![h].content[a] = s]
          PROVE  HandleInv(h)' /\ WellFormed(userDb)'
      <3>1. /\ ItemInv(cache'[h]) /\ HasInvoker(cache'[h], s)
            /\ \A r \in Record : Built(h, r) => \A b \in Ids(r) : HasInvoker(cache'[h], r[b])
        BY <1>0, <2>3, RegisterStep
      <3>2. /\ call'[h].content = [call[h].content EXCEPT ![a] = s]
            /\ call'[h].at = "evaluate"
            /\ UNCHANGED <<userDb, author, reported>>
        BY <1>0, <1>4, <2>1, <2>3 DEF EvaluateInvokers, TypeOK, Call
      <3>3. /\ WellFormed(call'[h].content)
            /\ \A b \in Ids(call'[h].content) : HasInvoker(cache'[h], call'[h].content[b])
        <4> DEFINE old == call[h].content
        <4>1. \A b \in Ids(old) : HasInvoker(cache'[h], old[b]) /\ algo[old[b]] = b
          BY <1>0, <2>1, <3>1 DEF WellFormed
        <4>2. ASSUME NEW b \in Ids(call'[h].content)
              PROVE  LET t == call'[h].content[b] IN
                     HasInvoker(cache'[h], t) /\ algo[t] = b
          <5>1. CASE b = a
            <6>1. call'[h].content[b] = s
              BY <1>0, <3>2, <5>1
            <6> QED
              BY <2>3, <3>1, <5>1, <6>1
          <5>2. CASE b # a
            <6>1. b \in Ids(old) /\ call'[h].content[b] = old[b]
              BY <1>0, <3>2, <4>2, <5>2
            <6> QED
              BY <4>1, <6>1
          <5> QED
            BY <5>1, <5>2
        <4> QED
          BY <4>2 DEF WellFormed
      <3>4. /\ \A b \in Ids(reported'[h]) : HasInvoker(cache'[h], reported'[h][b])
            /\ author' = h => \A b \in Ids(userDb') : HasInvoker(cache'[h], userDb'[b])
        BY <1>0, <3>1, <3>2
      <3> QED
        BY <1>0, <3>1, <3>2, <3>3, <3>4, HandleNext
    <2> QED
      BY <1>4, <2>2, <2>3 DEF EvaluateInvokers
  <1>5. ASSUME NEW s \in Solver, Immediate(h, s) PROVE HandleInv(h)' /\ WellFormed(userDb)'
    <2>1. /\ ItemInv(cache'[h])
          /\ \A r \in Record : Built(h, r) => \A a \in Ids(r) : HasInvoker(cache'[h], r[a])
      BY <1>0, <1>5, RegisterStep DEF Immediate
    <2>2. UNCHANGED <<userDb, call, reported, author>> /\ call[h].at = "idle"
      BY <1>5 DEF Immediate
    <2>3. /\ \A a \in Ids(reported'[h]) : HasInvoker(cache'[h], reported'[h][a])
          /\ author' = h => \A a \in Ids(userDb') : HasInvoker(cache'[h], userDb'[a])
      BY <1>0, <2>1, <2>2
    <2> QED
      BY <1>0, <2>1, <2>2, <2>3, HandleNext DEF CallInv
  <1> QED
    BY <1>1, <1>2, <1>3, <1>4, <1>5

\* The step of the induction.
LEMMA StepIInv == IInv /\ [Next]_vars => IInv'
  <1> SUFFICES ASSUME IInv, [Next]_vars PROVE IInv'
    OBVIOUS
  <1>1. TypeOK'
    BY TypeStep DEF IInv, HandleInv
  <1>2. ASSUME NEW h \in Handle,
               Find(h) \/ (\E s \in Solver : Immediate(h, s)) \/ Destroy(h)
        PROVE  IInv'
    <2>1. HandleInv(h)' /\ WellFormed(userDb)'
      BY <1>2, QuietSteps, OtherSteps DEF IInv, Find
    <2>2. \A g \in Handle \ {h} : HandleInv(g)'
      BY <1>2, OthersStep DEF IInv
    <2> QED
      BY <1>1, <2>1, <2>2 DEF IInv
  <1>3. CASE UNCHANGED vars
    BY <1>3 DEF IInv, vars, TypeOK, HandleInv, ItemInv, CallInv, Built, WellFormed,
                HasInvoker, GetFound1_0, Runs
  <1> QED
    BY <1>2, <1>3 DEF Next

\* The conjunction of the types, the consistency of every invoker cache and
\* what every Find has in hand holds in every reachable state.
THEOREM Invariant == Spec => []IInv
  BY InitIInv, StepIInv, PTL DEF Spec

\* The variables keep their types.
THEOREM TypeCorrect == Spec => []TypeOK
  <1>1. IInv => TypeOK
    BY DEF IInv
  <1> QED
    BY <1>1, Invariant, PTL

\* Every algorithm that a Find has reported can be run by the find 1.0 calls,
\* for any number of handles, modes and failures.
THEOREM FoundInvokers == Spec => []ReportedRuns
  <1>1. IInv => ReportedRuns
    <2> SUFFICES ASSUME IInv, NEW h \in Handle, NEW a \in Ids(reported[h])
                 PROVE  /\ Runs(cache[h], a) /\ algo[GetFound1_0(cache[h], a)] = a
                        /\ HasInvoker(cache[h], reported[h][a])
      BY DEF ReportedRuns
    <2>1. HasInvoker(cache[h], reported[h][a]) /\ algo[reported[h][a]] = a
      BY DEF IInv, HandleInv, Built, WellFormed
    <2>2. ItemInv(cache[h])
      BY DEF IInv, HandleInv
    <2>3. GetFound1_0(cache[h], a) # NoSolver
      BY <2>1, <2>2 DEF ItemInv, HasInvoker
    <2> QED
      BY <2>1, <2>2, <2>3 DEF ItemInv
  <1> QED
    BY <1>1, Invariant, PTL

\* A record that a handle has stored, and nobody replaced, is a hit for that
\* handle from then on.
THEOREM OwnHit == Spec => []OwnRecordIsHit
  <1>1. IInv => OwnRecordIsHit
    BY InvokerCacheAssumption DEF IInv, HandleInv, TypeOK, OwnRecordIsHit, Hit, Built
  <1> QED
    BY <1>1, Invariant, PTL

------------------------------------------------------------------------------
(* What ConvolutionForward runs is exactly what was reported, if the find-db  *)
(* has one user, can be written, and the immediate mode has no user.          *)

\* One handle, which measures in the normal mode and can write the find-db.
\* Solvers may fail to build and processes may die.  Were the find-db not
\* written, the handle could measure a solver, measure another and then find the
\* record that an earlier process left, which names the first.
Alone ==
    /\ \E h : Handle = {h}
    /\ Modes \subseteq {"normal"} /\ UsedCalls \subseteq {"Find"}
    /\ "db_file" \notin Faults

\* found_1_0 names the solvers of record r.
Found(h, r) == \A a \in Ids(r) : GetFound1_0(cache[h], a) = r[a]

\* Between two evaluations the stored record, if it is usable at all, is the
\* one this handle has measured last, and it is usable if there was a report, so
\* that nothing is measured after one; during an evaluation the record in hand
\* is the one being measured.
AloneInv(h) ==
    /\ call[h].at \in {"idle", "validate", "evaluate", "store"}
    /\ call[h].at \in {"idle", "validate"} =>
           /\ Found(h, reported[h]) /\ (Hit(h, userDb) => Found(h, userDb))
           /\ reported[h] # EmptyRecord => Hit(h, userDb)
    /\ call[h].at = "validate" => call[h].content = userDb
    /\ call[h].at \in {"evaluate", "store"} =>
           Found(h, call[h].content) /\ reported[h] = EmptyRecord
    /\ call[h].at = "evaluate" => \A a \in call[h].todo : call[h].content[a] = NoSolver

\* The step of the induction, for the only handle there is.
LEMMA AloneStep ==
    ASSUME Alone, IInv, NEW h \in Handle, AloneInv(h), [Next]_vars
    PROVE  AloneInv(h)'
  <1> USE InvokerCacheAssumption, FindDbAssumption
  <1>0. /\ call[h] \in Call /\ call[h].content \in Record /\ call[h].todo \subseteq Algorithm
        /\ cache[h] \in Item /\ reported[h] \in Record /\ userDb \in Record
        /\ Handle = {h}
    BY DEF IInv, TypeOK, Call, Alone
  <1>1. CASE UNCHANGED vars
    BY <1>1 DEF vars, AloneInv, Found, Hit, GetFound1_0, HasInvoker
  <1>2. ASSUME NEW m \in Modes, FindConvFwdAlgorithm(h, m) PROVE AloneInv(h)'
    <2>1. /\ call[h].at = "idle" /\ UNCHANGED <<userDb, cache, reported>>
          /\ call'[h].at = "validate" /\ call'[h].content = userDb
      BY <1>0, <1>2 DEF FindConvFwdAlgorithm, Alone, Idle, IInv, TypeOK
    <2> QED
      BY <2>1 DEF AloneInv, Found, Hit, GetFound1_0, HasInvoker
  <1>3. CASE Validate(h)
    <2>1. /\ call[h].at = "validate" /\ call[h].content = userDb
          /\ Hit(h, userDb) => Found(h, userDb)
          /\ reported[h] # EmptyRecord => Hit(h, userDb)
          /\ UNCHANGED <<userDb, cache>>
      BY <1>3 DEF Validate, AloneInv
    <2>2. CASE Hit(h, userDb)
      <3>1. call'[h] = Idle /\ reported'[h] = userDb
        BY <1>3, <2>1, <2>2 DEF Validate, Reports, IInv, TypeOK
      <3> QED
        BY <2>1, <2>2, <3>1 DEF AloneInv, Found, Hit, GetFound1_0, HasInvoker, Idle
    <2>3. CASE ~ Hit(h, userDb)
      <3>1. /\ call'[h].at = "evaluate" /\ call'[h].content = EmptyRecord
            /\ call'[h].todo = Algorithm
            /\ UNCHANGED reported
        BY <1>0, <1>3, <2>1, <2>3 DEF Validate, IInv, TypeOK, Call
      <3> QED
        BY <2>1, <2>3, <3>1 DEF AloneInv, Found, Hit, GetFound1_0, HasInvoker
    <2> QED
      BY <2>2, <2>3
  <1>4. ASSUME NEW a \in Algorithm, EvaluateInvokers(h, a) PROVE AloneInv(h)'
    <2>1. /\ call[h].at = "evaluate" /\ a \in call[h].todo
          /\ Found(h, call[h].content) /\ reported[h] = EmptyRecord
          /\ \A b \in call[h].todo : call[h].content[b] = NoSolver
          /\ UNCHANGED <<userDb, reported>>
      BY <1>4 DEF EvaluateInvokers, AloneInv
    <2>2. CASE call' = [call EXCEPT ![h].todo = @ \ {a}] /\ UNCHANGED cache
      <3>1. /\ call'[h].at = "evaluate"
            /\ call'[h].content = call[h].content /\ call'[h].todo = call[h].todo \ {a}
        BY <1>0, <2>1, <2>2 DEF IInv, TypeOK, Call
      <3> QED
        BY <2>1, <2>2, <3>1 DEF AloneInv, Found, Hit, GetFound1_0, HasInvoker
    <2>3. ASSUME NEW s \in Solver, algo[s] = a, Register(h, s),
                 call' = [call EXCEPT ![h].todo = @ \ {a}, ![h].content[a] = s]
          PROVE  AloneInv(h)'
      <3>1. /\ call'[h].at = "evaluate"
            /\ call'[h].content = [call[h].content EXCEPT ![a] = s]
            /\ call'[h].todo = call[h].todo \ {a}
        BY <1>0, <2>1, <2>3 DEF IInv, TypeOK, Call
      <3>2. cache'[h].found_1_0 = [cache[h].found_1_0 EXCEPT ![a] = s]
        BY <2>3 DEF Register, RegisterInvoker, IInv, TypeOK
      <3>3. \A b \in Ids(call'[h].content) : cache'[h].found_1_0[b] = call'[h].content[b]
        BY <1>0, <2>1, <3>1, <3>2 DEF Found, GetFound1_0, Item
      <3>4. \A b \in call'[h].todo : call'[h].content[b] = NoSolver
        BY <1>0, <2>1, <3>1
      <3> QED
        BY <2>1, <3>1, <3>3, <3>4 DEF AloneInv, Found, GetFound1_0
    <2> QED
      BY <1>4, <2>2, <2>3 DEF EvaluateInvokers
  <1>5. CASE EvaluationEnds(h)
    <2>1. /\ call[h].at = "evaluate" /\ UNCHANGED <<userDb, cache, reported>>
          /\ \/ call' = [call EXCEPT ![h].at = "store"]
             \/ call' = [call EXCEPT ![h].at = "store", ![h].todo = {}, ![h].threw = TRUE]
      BY <1>5 DEF EvaluationEnds, Goto
    <2>2. call'[h].at = "store" /\ call'[h].content = call[h].content
      BY <1>0, <2>1 DEF IInv, TypeOK, Call
    <2> QED
      BY <2>1, <2>2 DEF AloneInv, Found, Hit, GetFound1_0, HasInvoker
  <1>6. CASE StoreRecord(h)
    <2>1. /\ call[h].at = "store" /\ Found(h, call[h].content)
          /\ reported[h] = EmptyRecord
          /\ userDb' = call[h].content /\ UNCHANGED cache
      BY <1>6 DEF StoreRecord, AloneInv, Alone
    <2>2. /\ call'[h] = Idle
          /\ reported'[h] \in {EmptyRecord, call[h].content}
      BY <1>0, <1>6, <2>1 DEF StoreRecord, Throws, Reports, IInv, TypeOK
    <2>3. call[h].content # EmptyRecord => Hit(h, call[h].content)
      BY <1>0, <2>1 DEF IInv, HandleInv, CallInv, Built, Hit
    <2>4. reported'[h] # EmptyRecord => Hit(h, userDb)'
      BY <2>1, <2>2, <2>3 DEF Hit, HasInvoker
    <2>5. Found(h, reported[h])' /\ Found(h, userDb)'
      BY <2>1, <2>2 DEF Found, GetFound1_0
    <2> QED
      BY <2>2, <2>4, <2>5 DEF AloneInv, Idle
  <1>7. CASE Destroy(h)
    <2>1. /\ cache'[h] = EmptyItem /\ call'[h] = Idle /\ reported'[h] = EmptyRecord
          /\ userDb' = userDb
      BY <1>7 DEF Destroy, IInv, TypeOK
    <2> QED
      BY <2>1 DEF AloneInv, Found, Hit, EmptyItem, HasInvoker, Idle
  <1>8. ~ (Choose(h) \/ CompileForwardSolution(h) \/ CompileThrows(h) \/ Load(h))
    BY DEF AloneInv, Choose, CompileForwardSolution, CompileThrows, Load
  <1>9. \A s \in Solver : ~ Immediate(h, s)
    BY DEF Immediate, Alone
  <1> QED
    BY <1>0, <1>1, <1>2, <1>3, <1>4, <1>5, <1>6, <1>7, <1>8, <1>9 DEF Next, Find

\* The solver that ConvolutionForward runs needs no more workspace than the
\* caller was told, as long as the find-db has one user who can write it, and
\* the immediate mode none, whatever fails to build and whoever dies: the
\* violation that TLC shows takes a second handle or a find-db not written.
THEOREM AloneSuffices == Alone /\ Spec => []ReportedWorkspaceSuffices
  <1> DEFINE AInv == Alone /\ IInv /\ \A h \in Handle : AloneInv(h)
  <1>1. Alone /\ Init => AInv
    BY InitIInv DEF Init, AloneInv, Idle, Found, Hit
  <1>2. AInv /\ [Next]_vars => AInv'
    <2> SUFFICES ASSUME AInv, [Next]_vars PROVE AInv'
      OBVIOUS
    <2>1. Alone' /\ IInv'
      BY StepIInv DEF Alone
    <2>2. \A h \in Handle : AloneInv(h)'
      BY AloneStep
    <2> QED
      BY <2>1, <2>2
  <1>3. AInv => ReportedWorkspaceSuffices
    <2> SUFFICES ASSUME AInv, NEW h \in Handle, NEW a \in Ids(reported[h]), call[h].at = "idle"
                 PROVE  workspace[GetFound1_0(cache[h], a)] <= workspace[reported[h][a]]
      BY DEF ReportedWorkspaceSuffices
    <2>1. GetFound1_0(cache[h], a) = reported[h][a]
      BY DEF AloneInv, Found
    <2>2. workspace[reported[h][a]] \in Nat
      BY FindDbAssumption DEF IInv, TypeOK
    <2> QED
      BY <2>1, <2>2
  <1> QED
    BY <1>1, <1>2, <1>3, PTL DEF Spec
===============================================================================
