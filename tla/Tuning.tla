-------------------------------- MODULE Tuning --------------------------------
(****************************************************************************)
(* How a Find chooses the parameters of the kernels it measures:            *)
(* FindSolutionImpl, GenericSearch and what they share.  Handles, each in a *)
(* process of its own, share the performance database and the database of   *)
(* compiled programs (the kernel cache on disk) of their user; a handle     *)
(* keeps the programs it loaded and the invokers it built.                  *)
(*                                                                          *)
(* A performance config is an opaque value.  What a search iterates over,   *)
(* which configs are valid in a process and which programs each needs are   *)
(* constants; times, and which solver of an algorithm wins, are arbitrary.  *)
(* The forward direction is modelled; the backward data one is the same.    *)
(****************************************************************************)
EXTENDS Naturals, Sequences, SequencesExt

CONSTANTS Handle, Key,
          Config, NoConfig,
          Program, Algorithm,
          solvers,       \* the solvers of the problem, algorithm by algorithm
          algo,          \* algo[s]: the algorithm of solver s
          Tunable,       \* the solvers with performance configs to search
          Exhaustive,    \* the algorithms whose context is told of exhaustiveSearch
          space, spare,  \* the configs of a solver, and those tried if none is valid
          default,       \* default[h][s]: the heuristic config of s for handle h
          Valid,         \* Valid[h]: the configs that are valid for handle h
          oversized,     \* the configs that need another workspace than the default
          programs,      \* programs[c]: the programs of the kernels of config c
          Installed,     \* the system performance database
          NoOp, NoAnswer,
          Time,          \* the times a run may take
          Inline,        \* the handles that compile on the calling thread: with one
                         \* core, or MIOPEN_COMPILE_PARALLEL_LEVEL is 1
          UsedEnforce,   \* UsedEnforce[h]: the values of MIOPEN_FIND_ENFORCE,
          UsedCalls,     \* UsedCalls[h]: the calls that handle h uses, and
          Faults         \* Faults[h]: the failures that happen to it

Solver == ToSet(solvers)

EnforceActions == {"NONE", "DB_UPDATE", "SEARCH", "SEARCH_DB_UPDATE", "DB_CLEAN"}

\* A statement on the performance database, a run on the GPU, a compilation, an
\* access to the program database or the writing of the find-db fails; a process
\* dies.  "db_code" is a failure after which a statement is repeated.
FaultKinds == {"db", "db_code", "run", "compile", "kern_db", "find_db", "crash"}

ASSUME TuningAssumption ==
    /\ algo \in [Solver -> Algorithm] /\ Tunable \subseteq Solver
    /\ IsInjective(solvers) /\ solvers \in Seq(Solver) \ {<<>>}
    /\ Exhaustive \subseteq Algorithm
    /\ space \in [Solver -> SUBSET Config] /\ spare \in [Solver -> SUBSET Config]
    /\ default \in [Handle -> [Solver -> Config]]
    /\ Valid \in [Handle -> SUBSET Config] /\ oversized \subseteq Config
    /\ programs \in [Config -> SUBSET Program]
    /\ Installed \in [Key -> [Solver -> Config \cup {NoConfig}]] /\ Key # {}
    /\ UsedEnforce \in [Handle -> SUBSET EnforceActions]
    /\ UsedCalls \in [Handle -> SUBSET {"find", "exhaustive", "immediate"}]
    /\ Faults \in [Handle -> SUBSET FaultKinds] /\ Inline \subseteq Handle
    /\ Time \subseteq Nat \ {0} /\ NoConfig \notin Config

VARIABLES config, perf_db, op, answer,  \* of PerfDb
          binaries,  \* the programs in the program database
          loaded,    \* loaded[h]: the programs the kernel cache of handle h holds
          invoker,   \* invoker[h][k][s]: the config the invoker of s was built with
          record,    \* record[k]: the solvers the find-db names
          enforce,   \* enforce[h]: MIOPEN_FIND_ENFORCE in the process of handle h
          call,      \* call[h]: how far a call of handle h got
          proven     \* auxiliary: the configs of a solver some search measured

dbVars == <<config, perf_db, op, answer>>
vars   == <<dbVars, binaries, loaded, invoker, record, enforce, call, proven>>

Db == INSTANCE PerfDb WITH
          Client <- Handle, Id <- Solver, Value <- Config, NoValue <- NoConfig

\* todo begins with the solver being worked on, rest are the configs still to be
\* measured, in whatever order; average[c] is the average time of config c, 0 if
\* it has none, and best the config with the best one so far.
Stages == {"idle", "solver", "clean", "repeat", "load", "precompile", "measure",
           "update", "evaluate"}
Call == [at : Stages, kind : {"find", "immediate"}, key : Key, exhaustive : BOOLEAN,
         todo : Seq(Solver), chosen : [Solver -> Config \cup {NoConfig}],
         rest : SUBSET Config, best : Config \cup {NoConfig},
         average : [Config -> Time \cup {0}]]

NothingChosen   == [s \in Solver |-> NoConfig]
NothingMeasured == [c \in Config |-> 0]

Begin(kind, k, exhaustive, todo) ==
    [at |-> "solver", kind |-> kind, key |-> k, exhaustive |-> exhaustive,
     todo |-> todo, chosen |-> NothingChosen,
     rest |-> {}, best |-> NoConfig, average |-> NothingMeasured]

Idle == [Begin("immediate", CHOOSE k \in Key : TRUE, FALSE, <<>>) EXCEPT !.at = "idle"]

TypeOK ==
    /\ Db!DbTypeOK
    /\ binaries \subseteq Program
    /\ loaded \in [Handle -> SUBSET Program]
    /\ invoker \in [Handle -> [Key -> [Solver -> Config \cup {NoConfig}]]]
    /\ record \in [Key -> SUBSET Solver]
    /\ enforce \in [Handle -> EnforceActions]
    /\ call \in [Handle -> Call]
    /\ proven \in [Key -> [Solver -> SUBSET Config]]

Init ==
    /\ Db!DbInit
    /\ binaries = {}
    /\ loaded  = [h \in Handle |-> {}]
    /\ invoker = [h \in Handle |-> [k \in Key |-> NothingChosen]]
    /\ record  = [k \in Key |-> {}]
    /\ enforce \in {e \in [Handle -> EnforceActions] : \A h \in Handle : e[h] \in UsedEnforce[h]}
    /\ call    = [h \in Handle |-> Idle]
    /\ proven  = [k \in Key |-> [s \in Solver |-> {}]]

------------------------------------------------------------------------------
At(h, l)  == call[h].at = l
Solving(h) == Head(call[h].todo)
Goto(h, l) == call' = [call EXCEPT ![h].at = l]

localVars == <<loaded, invoker, record, enforce>>
diskVars  == <<binaries, record>>

\* FindEnforce, which the immediate mode switches off.
Enforces(h, actions) == call[h].kind = "find" /\ enforce[h] \in actions

\* context.do_search || enforce.IsSearch
Searches(h) ==
    \/ call[h].exhaustive /\ algo[Solving(h)] \in Exhaustive
    \/ Enforces(h, {"SEARCH", "SEARCH_DB_UPDATE"})

\* The solver is done with: its solution uses config c.
Chooses(h, c) ==
    call' = [call EXCEPT
        ![h].at     = IF Len(call[h].todo) = 1 THEN "evaluate" ELSE "solver",
        ![h].todo   = Tail(@),
        ![h].chosen = [@ EXCEPT ![Solving(h)] = c],
        ![h].rest = {}, ![h].best = NoConfig, ![h].average = NothingMeasured]

ChoosesDefault(h) == Chooses(h, default[h][Solving(h)])

\* A variation that keeps only the solutions of the other algorithms.
Drops_Restricting(h) ==
    LET others == {s \in Solver : algo[s] # algo[Solving(h)]} IN
    call' = [call EXCEPT ![h] =
        [@ EXCEPT !.at = "evaluate", !.todo = <<>>,
                  !.chosen = [s \in others |-> @[s]]]]

\* Find...Solutions catches what FindSolution throws and returns no solution of
\* the algorithm; the next is that of the next algorithm.  The call of the
\* immediate mode fails.
Drops(h) ==
    LET now == call[h]
        a   == algo[Solving(h)]
    IN  \E n \in 1 .. Len(now.todo) + 1 :
          /\ \A m \in 1 .. n - 1 : algo[now.todo[m]] = a
          /\ n <= Len(now.todo) => algo[now.todo[n]] # a
          /\ call' = [call EXCEPT
                ![h] = IF now.kind = "immediate" THEN Idle
                       ELSE [now EXCEPT
                           !.at     = IF n > Len(now.todo) THEN "evaluate" ELSE "solver",
                           !.todo   = SubSeq(now.todo, n, Len(now.todo)),
                           !.chosen = [s \in Solver |->
                               IF algo[s] = a THEN NoConfig ELSE now.chosen[s]]]]
------------------------------------------------------------------------------
(* The calls.                                                               *)

\* TryLoad: the record of the find-db is in sync and all its invokers are built.
IsHit(h, k) == record[k] # {} /\ \A s \in record[k] : invoker[h][k][s] # NoConfig

FindConvFwdAlgorithm(h, k, exhaustive) ==
    /\ (IF exhaustive THEN "exhaustive" ELSE "find") \in UsedCalls[h]
    /\ At(h, "idle") /\ ~ IsHit(h, k)
    /\ call' = [call EXCEPT ![h] = Begin("find", k, exhaustive, solvers)]
    /\ UNCHANGED <<dbVars, binaries, localVars, proven>>

\* LoadOrPrepareInvoker of the immediate mode.
LoadOrPrepareInvoker(h, k, s) ==
    /\ "immediate" \in UsedCalls[h] /\ At(h, "idle") /\ invoker[h][k][s] = NoConfig
    /\ call' = [call EXCEPT ![h] = Begin("immediate", k, FALSE, <<s>>)]
    /\ UNCHANGED <<dbVars, binaries, localVars, proven>>

------------------------------------------------------------------------------
(* FindSolutionImpl, up to the search.                                      *)

Tunes(h) == At(h, "solver") /\ Solving(h) \in Tunable

\* A solver without performance configs has one solution.
NotSearchable(h) ==
    /\ At(h, "solver") /\ Solving(h) \notin Tunable
    /\ ChoosesDefault(h)
    /\ UNCHANGED <<dbVars, binaries, localVars, proven>>

\* DB_CLEAN: the user's value is removed and nothing is searched.
Clean(h) ==
    /\ Tunes(h) /\ Enforces(h, {"DB_CLEAN"})
    /\ Db!Remove(h, call[h].key, Solving(h)) \/ Db!RemoveFails(h)
    /\ Goto(h, "clean")
    /\ UNCHANGED <<binaries, localVars, proven>>

Cleaned(h) ==
    /\ At(h, "clean") /\ Db!Take(h)
    /\ IF answer[h].status = "threw" THEN Drops(h) ELSE ChoosesDefault(h)
    /\ UNCHANGED <<binaries, localVars, proven>>

SkipsLoad(h) == Searches(h) /\ Enforces(h, {"DB_UPDATE", "SEARCH_DB_UPDATE"})

Loads(h) == Tunes(h) /\ ~ Enforces(h, {"DB_CLEAN"}) /\ ~ SkipsLoad(h)

Load(h) ==
    /\ Loads(h)
    /\ Db!Load(h, call[h].key, Solving(h)) \/ Db!LoadFails(h)
    /\ Goto(h, "load")
    /\ UNCHANGED <<binaries, localVars, proven>>

\* The statement is repeated, ...
LoadRepeats(h) ==
    /\ Loads(h) /\ Db!LoadRepeats(h)
    /\ Goto(h, "repeat")
    /\ UNCHANGED <<binaries, localVars, proven>>

\* ... and may or may not get an answer some time.
LoadAgain(h) ==
    /\ At(h, "repeat")
    /\ Db!Load(h, call[h].key, Solving(h)) \/ Db!LoadFails(h)
    /\ Goto(h, "load")
    /\ UNCHANGED <<binaries, localVars, proven>>

\* GetAllConfigs: ComputedIterator skips the configs that are not valid.
AllConfigs(h, s) ==
    LET Usable(C) == C \cap Valid[h]
    IN  IF Usable(space[s]) # {} THEN Usable(space[s]) ELSE Usable(spare[s])

StartsSearch(h) ==
    call' = [call EXCEPT ![h].at = "precompile", ![h].rest = AllConfigs(h, Solving(h))]

\* A variation that trusts what the database holds.
Loaded_Unchecked(h) ==
    /\ At(h, "load") /\ Db!Take(h)
    /\ CASE answer[h].status = "threw"     -> Drops(h)
         [] answer[h].status = "true"      -> Chooses(h, answer[h].value)
         [] OTHER -> IF Searches(h) THEN StartsSearch(h) ELSE ChoosesDefault(h)
    /\ UNCHANGED <<binaries, localVars, proven>>

\* A variation that searches whenever a search is asked for.
Loaded_SearchingAnyway(h) ==
    /\ At(h, "load") /\ Db!Take(h)
    /\ CASE answer[h].status = "threw"     -> Drops(h)
         [] answer[h].status # "threw" /\ Searches(h) -> StartsSearch(h)
         [] OTHER -> ChoosesDefault(h)
    /\ UNCHANGED <<binaries, localVars, proven>>

\* A value of the user's that is not valid hides the one of the system.
Loaded(h) ==
    /\ At(h, "load") /\ Db!Take(h)
    /\ CASE answer[h].status = "threw"     -> Drops(h)
         [] answer[h].value \in Valid[h]   -> Chooses(h, answer[h].value)
         [] OTHER -> IF Searches(h) THEN StartsSearch(h) ELSE ChoosesDefault(h)
    /\ UNCHANGED <<binaries, localVars, proven>>

SkipLoad(h) ==
    /\ Tunes(h) /\ SkipsLoad(h)
    /\ StartsSearch(h)
    /\ UNCHANGED <<dbVars, binaries, localVars, proven>>

------------------------------------------------------------------------------
(* Programs.  KernelCache::AddKernel takes a program from the handle, or    *)
(* LoadProgram from the database, or compiles it and saves it there.        *)

Missing(h, P) == P \ loaded[h]

SavesPrograms(h, P) == binaries' = binaries \cup Missing(h, P)

Keeps(h, P) == loaded' = [loaded EXCEPT ![h] = P]

\* An access to the database fails, or the program does not compile.
CannotLoad(h, p) ==
    "kern_db" \in Faults[h] \/ ("compile" \in Faults[h] /\ p \notin binaries)

\* One program fails, when some of the others may have been saved.
FailsToLoad(h, P) ==
    /\ \E p \in Missing(h, P) : CannotLoad(h, p)
    /\ \E saved \in SUBSET Missing(h, P) : binaries' = binaries \cup saved

\* One program fails, when the handle has already taken some of the others.
FailsToTake(h, P) ==
    \E p \in Missing(h, P) : \E taken \in SUBSET (Missing(h, P) \ {p}) :
        /\ CannotLoad(h, p)
        /\ binaries' = binaries \cup taken
        /\ Keeps(h, loaded[h] \cup taken)

ProgramsOf(configs) == UNION {programs[c] : c \in configs}

\* The configs of the solutions.
Solutions(h) == {call[h].chosen[s] : s \in Solver} \ {NoConfig}

\* The process of the handle ends; another may take its place, in another
\* environment.
Dies(h) ==
    /\ Db!Die(h)
    /\ Keeps(h, {})
    /\ invoker' = [invoker EXCEPT ![h] = [k \in Key |-> NothingChosen]]
    /\ \E e \in UsedEnforce[h] : enforce' = [enforce EXCEPT ![h] = e]
    /\ call' = [call EXCEPT ![h] = Idle]
    /\ UNCHANGED <<record, proven>>

\* PrecompileKernels loads programs on threads of its own, whose exceptions
\* nobody catches: std::terminate.
Terminate(h) ==
    /\ h \notin Inline
    /\ \/ At(h, "precompile") /\ FailsToLoad(h, ProgramsOf(call[h].rest))
       \/ /\ At(h, "evaluate") /\ call[h].kind = "find"
          /\ FailsToLoad(h, ProgramsOf(Solutions(h)))
    /\ Dies(h)

Crash(h) == "crash" \in Faults[h] /\ Dies(h) /\ UNCHANGED binaries

------------------------------------------------------------------------------
(* GenericSearch.                                                           *)

\* A variation that forgets the programs of all configs but the first.
Precompile_FirstOnly(h) ==
    /\ At(h, "precompile")
    /\ \E c \in call[h].rest : SavesPrograms(h, programs[c])
    /\ Goto(h, "measure")
    /\ UNCHANGED <<dbVars, localVars, proven>>

\* The programs of all configs are compiled at once, and not added to the
\* handle.
Precompile(h) ==
    /\ At(h, "precompile")
    /\ SavesPrograms(h, ProgramsOf(call[h].rest))
    /\ Goto(h, "measure")
    /\ UNCHANGED <<dbVars, localVars, proven>>

\* Without those threads the exception ends the search.
PrecompileFails(h) ==
    /\ h \in Inline
    /\ At(h, "precompile") /\ FailsToLoad(h, ProgramsOf(call[h].rest))
    /\ ChoosesDefault(h)
    /\ UNCHANGED <<dbVars, localVars, proven>>

\* A variation that compares with the average of the last config.
Better_LastWins(h, c, time) == TRUE

Better(h, c, time) ==
    call[h].best # NoConfig => time < call[h].average[call[h].best]

\* The first run is not too bad: probe / best_time < 1.05.
Promising(h, probe) ==
    call[h].best # NoConfig => 100 * probe < 105 * call[h].average[call[h].best]

\* Config c is done with: it has average time `time`, or none.
MeasuredAs(h, c, time) ==
    LET best == IF time # 0 /\ Better(h, c, time) THEN c ELSE call[h].best IN
    /\ call' = [call EXCEPT ![h].rest = @ \ {c}, ![h].best = best,
                            ![h].average = [@ EXCEPT ![c] = time]]
    /\ proven' = IF time = 0 THEN proven
                 ELSE [proven EXCEPT ![call[h].key][Solving(h)] = @ \cup {c}]

\* A variation in which a failure leaves the programs behind.
Measured_KeepingPrograms(h, c) == Keeps(h, loaded[h] \cup programs[c])

\* ClearProgram: neither invoker nor handle keeps the programs.
Measured(h, c) == Keeps(h, loaded[h] \ programs[c])

\* The config runs, and again four times if the first run is promising.
Measure(h, c) ==
    /\ At(h, "measure") /\ c \in call[h].rest \ oversized
    /\ SavesPrograms(h, programs[c])
    /\ \E probe \in Time :
          \/ Promising(h, probe) /\ \E time \in Time : MeasuredAs(h, c, time)
          \/ ~ Promising(h, probe) /\ MeasuredAs(h, c, 0)
    /\ Measured(h, c)
    /\ UNCHANGED <<dbVars, invoker, record, enforce>>

\* The config cannot be built, or a run fails, or it needs another workspace.
MeasureFails(h, c) ==
    /\ At(h, "measure") /\ c \in call[h].rest
    /\ \/ FailsToLoad(h, programs[c])
       \/ ("run" \in Faults[h] \/ c \in oversized) /\ SavesPrograms(h, programs[c])
    /\ MeasuredAs(h, c, 0)
    /\ Measured(h, c)
    /\ UNCHANGED <<dbVars, invoker, record, enforce>>

Searched(h) == At(h, "measure") /\ call[h].rest = {}

\* Variations: the heuristic config is stored, or the search is repeated.
SearchFailed_Storing(h) ==
    /\ Searched(h) /\ call[h].best = NoConfig
    /\ call' = [call EXCEPT ![h].at = "update", ![h].best = default[h][Solving(h)]]
    /\ UNCHANGED <<dbVars, binaries, localVars, proven>>

SearchFailed_Again(h) ==
    /\ Searched(h) /\ call[h].best = NoConfig
    /\ StartsSearch(h)
    /\ UNCHANGED <<dbVars, binaries, localVars, proven>>

\* "Search failed": no config passed.
SearchFailed(h) ==
    /\ Searched(h) /\ call[h].best = NoConfig
    /\ ChoosesDefault(h)
    /\ UNCHANGED <<dbVars, binaries, localVars, proven>>

\* The default config is run to show the score; its programs stay.
Score(h) ==
    LET P == programs[default[h][Solving(h)]] IN
    /\ Searched(h) /\ call[h].best # NoConfig
    /\ SavesPrograms(h, P) /\ Keeps(h, loaded[h] \cup P)
    /\ Goto(h, "update")
    /\ UNCHANGED <<dbVars, invoker, record, enforce, proven>>

\* That run fails, and the result of the search is lost.
ScoreFails(h) ==
    LET P == programs[default[h][Solving(h)]] IN
    /\ Searched(h) /\ call[h].best # NoConfig
    /\ \/ FailsToTake(h, P)
       \/ "run" \in Faults[h] /\ SavesPrograms(h, P) /\ Keeps(h, loaded[h] \cup P)
    /\ ChoosesDefault(h)
    /\ UNCHANGED <<dbVars, invoker, record, enforce, proven>>

\* db.Update, statement by statement.
Update(h) ==
    /\ At(h, "update")
    /\ \/ Db!InsertConfig(h, call[h].key, Solving(h), call[h].best)
       \/ Db!InsertValue(h) \/ Db!UpdateFails(h)
    /\ UNCHANGED <<binaries, localVars, call, proven>>

\* Only an exception makes a difference.
Updated(h) ==
    /\ At(h, "update") /\ Db!Take(h)
    /\ IF answer[h].status = "threw" THEN ChoosesDefault(h) ELSE Chooses(h, call[h].best)
    /\ UNCHANGED <<binaries, localVars, proven>>

------------------------------------------------------------------------------
(* The solutions are compiled and measured.                                 *)

\* InvokerCache::Register keeps an invoker that is there.
Register(h, W) ==
    invoker' = [invoker EXCEPT ![h][call[h].key] = [s \in Solver |->
        IF s \in W /\ @[s] = NoConfig THEN call[h].chosen[s] ELSE @[s]]]

\* EvaluateInvokers registers the fastest solver of each algorithm; there is
\* none if no solver of the algorithm runs.
Winners(h) ==
    LET chosen == {s \in Solver : call[h].chosen[s] # NoConfig} IN
    {W \in SUBSET chosen :
        /\ \A s, t \in W : algo[s] = algo[t] => s = t
        /\ "run" \in Faults[h] \/ {algo[s] : s \in W} = {algo[s] : s \in chosen}}

\* The destructor of the record of the find-db stores what solvers were found.
StoresRecord(h, W) ==
    \/ record' = [record EXCEPT ![call[h].key] = W]
    \/ "find_db" \in Faults[h] /\ UNCHANGED record

\* PrecompileSolutions and EvaluateInvokers, then that destructor.
Evaluate(h) ==
    LET P == ProgramsOf(Solutions(h)) IN
    /\ At(h, "evaluate") /\ call[h].kind = "find"
    /\ SavesPrograms(h, P) /\ Keeps(h, loaded[h] \cup P)
    /\ \E W \in Winners(h) : Register(h, W) /\ StoresRecord(h, W)
    /\ call' = [call EXCEPT ![h] = Idle]
    /\ UNCHANGED <<dbVars, enforce, proven>>

\* PrecompileSolutions throws on the calling thread: the call ends, and the
\* destructor stores a record without solvers.
EvaluateFails(h) ==
    /\ h \in Inline
    /\ At(h, "evaluate") /\ call[h].kind = "find"
    /\ FailsToLoad(h, ProgramsOf(Solutions(h)))
    /\ StoresRecord(h, {})
    /\ call' = [call EXCEPT ![h] = Idle]
    /\ UNCHANGED <<dbVars, loaded, invoker, enforce, proven>>

\* PrepareInvoker of the immediate mode.
PrepareInvoker(h) ==
    LET P == ProgramsOf(Solutions(h)) IN
    /\ At(h, "evaluate") /\ call[h].kind = "immediate"
    /\ \/ /\ SavesPrograms(h, P) /\ Keeps(h, loaded[h] \cup P)
          /\ Register(h, {s \in Solver : call[h].chosen[s] # NoConfig})
       \/ FailsToTake(h, P) /\ UNCHANGED invoker
    /\ call' = [call EXCEPT ![h] = Idle]
    /\ UNCHANGED <<dbVars, record, enforce, proven>>

\* What a process does of itself once a call has begun.
Step(h) ==
    \/ NotSearchable(h)
    \/ Clean(h) \/ Cleaned(h)
    \/ Load(h) \/ LoadRepeats(h) \/ Loaded(h) \/ SkipLoad(h)
    \/ Precompile(h) \/ PrecompileFails(h)
    \/ \E c \in Config : Measure(h, c) \/ MeasureFails(h, c)
    \/ SearchFailed(h) \/ Score(h) \/ ScoreFails(h)
    \/ Update(h) \/ Updated(h)
    \/ Evaluate(h) \/ EvaluateFails(h) \/ PrepareInvoker(h)
    \/ Terminate(h)

Next ==
    \E h \in Handle :
        \/ \E k \in Key, exhaustive \in BOOLEAN : FindConvFwdAlgorithm(h, k, exhaustive)
        \/ \E k \in Key, s \in Solver : LoadOrPrepareInvoker(h, k, s)
        \/ Step(h)
        \/ LoadAgain(h)
        \/ Crash(h)

\* Every process is scheduled, whatever the others do.  Nothing says that a
\* statement which is repeated succeeds one day.
Fairness == \A h \in Handle : WF_vars(Step(h))

Spec     == Init /\ [][Next]_vars
FairSpec == Spec /\ Fairness

------------------------------------------------------------------------------
(* Properties.                                                              *)

\* The two tables of the performance database agree.
ValuesHaveProblems == Db!ValuesHaveProblems

\* The performance database is the abstract store.
ImplementsValueStore == Db!ImplementsValueStore

\* A solution, and an invoker, is made from a config the process can use,
\* although processes of another version or environment write the database.
SolutionsAreUsable ==
    \A h \in Handle, s \in Solver :
        \A c \in {call[h].chosen[s]} \cup {invoker[h][k][s] : k \in Key} :
            c \in Valid[h] \cup {default[h][s], NoConfig}

\* What the user's database holds some search measured to its end: neither a
\* config that failed nor the heuristic one gets there in its place.
StoredWasMeasured ==
    \A k \in Key, s \in Solver :
        perf_db[k][s] # NoConfig => perf_db[k][s] \in proven[k][s]

\* Of the configs the search has averaged none is faster than the best, and
\* there is a best one ("is_passed") as soon as one passed.
BestIsBest ==
    \A h \in Handle : At(h, "measure") \/ At(h, "update") =>
        LET passed == {c \in Config : call[h].average[c] # 0} IN
        /\ call[h].best \in passed \cup {NoConfig}
        /\ \A c \in passed : call[h].best # NoConfig
                             /\ call[h].average[call[h].best] <= call[h].average[c]

\* While configs are measured nothing is compiled: the programs of those that
\* remain are in the database, or in the handle and in the database as well.
Precompiled ==
    \A h \in Handle : At(h, "measure") => ProgramsOf(call[h].rest) \subseteq binaries

\* "Now we can delete Program objects": the programs a handle holds do not grow
\* with the configs it tries, however they end.
NothingAccumulates ==
    [][\A h \in Handle : At(h, "measure") /\ At(h, "measure")' =>
          \/ call'[h] = call[h]
          \/ \E c \in call[h].rest \ call'[h].rest :
                loaded'[h] \subseteq loaded[h] \ programs[c]]_vars

\* "MIOpen then will automatically read and use these parameter values when
\* needed again": a process that is not told to update, and that finds a value
\* it can use whenever it looks, never searches again.
UsableValue(h, k, s) == Db!UserRecord(k)[s] \in Valid[h]
TunedOnce ==
    \A h \in Handle, k \in Key, s \in Tunable :
        [](/\ At(h, "idle")
           /\ [](UsableValue(h, k, s) /\ enforce[h] \notin {"DB_UPDATE", "SEARCH_DB_UPDATE"})
           => [](At(h, "precompile") => call[h].key # k \/ Solving(h) # s))

\* Every call ends, if only with the process, unless it repeats for ever a
\* statement whose result code the loop over the rows has no branch for.
CallsEnd ==
    \A h \in Handle : ~ At(h, "idle") ~> At(h, "idle") \/ At(h, "repeat")

===============================================================================
