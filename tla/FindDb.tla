-------------------------------- MODULE FindDb --------------------------------
(****************************************************************************)
(* The Find calls of convolutions: FindConvFwdAlgorithm and the calls of    *)
(* the immediate mode, seen for one problem.  A Find measures the solvers   *)
(* of every algorithm, or takes an earlier result from the user find-db,    *)
(* which all handles of all processes share.  Each handle has an invoker    *)
(* cache of its own, from which ConvolutionForward takes what it runs.      *)
(*                                                                          *)
(* The user find-db is a RamDb, of which every operation is one step here,  *)
(* as RecordStore allows; the algorithms are its ids and the solver of each *)
(* the value.  Times are not modelled: any solver of an algorithm may turn  *)
(* out the best.  The two backward directions work in the same way.         *)
(****************************************************************************)
EXTENDS InvokerCache, Naturals

CONSTANTS Handle,
          algo,       \* algo[s]: the algorithm solver s belongs to
          workspace,  \* workspace[s]: the workspace solver s needs
          NoHandle,
          Installed,  \* the record of the system find-db
          Applicable, \* Applicable[h]: the solvers that apply to the problem in
                      \* the environment of handle h
          Fallback,   \* the solvers the immediate fallback considers
          Modes,      \* the find modes in use
          UsedCalls,  \* the calls in use
          Faults      \* the failures that happen

INSTANCE DbRecord WITH Id <- Algorithm, Value <- Solver, NoValue <- NoSolver

FindModes  == {"normal", "fast", "hybrid"}
Calls      == {"Find", "Immediate"}
\* A solver cannot be built; the database cannot be written; a process dies.
FaultKinds == {"build", "db_file", "crash"}

\* Every algorithm names one of its own solvers.
WellFormed(r) == \A a \in Ids(r) : algo[r[a]] = a

ASSUME FindDbAssumption ==
    /\ algo \in [Solver -> Algorithm] /\ workspace \in [Solver -> Nat]
    /\ Installed \in Record /\ WellFormed(Installed)
    /\ Applicable \in [Handle -> SUBSET Solver] /\ Fallback \subseteq Solver
    /\ Modes \subseteq FindModes /\ UsedCalls \subseteq Calls
    /\ Faults \subseteq FaultKinds
    /\ NoHandle \notin Handle

VARIABLES
    userDb,     \* the record of the problem in the user find-db
    cache,      \* cache[h]: the invoker cache of handle h
    call,       \* call[h]: how far the Find of handle h got
    reported,   \* reported[h]: what its last successful Find returned
    author      \* auxiliary: the handle whose Find stored the record last

vars == <<userDb, cache, call, reported, author>>

\* content is the content of FindDbRecord_t, todo the algorithms not evaluated
\* yet, solver the one to be compiled.
Stages == {"idle", "choose", "compile", "load", "validate",
           "evaluate", "store"}
Call == [at : Stages, mode : FindModes, content : Record,
         todo : SUBSET Algorithm, solver : Solver \cup {NoSolver}, threw : BOOLEAN]

Idle == [at |-> "idle", mode |-> "normal", content |-> EmptyRecord,
         todo |-> {}, solver |-> NoSolver, threw |-> FALSE]

TypeOK ==
    /\ userDb \in Record
    /\ cache \in [Handle -> Item]
    /\ call \in [Handle -> Call]
    /\ reported \in [Handle -> Record]
    /\ author \in Handle \cup {NoHandle}

Init ==
    /\ userDb = EmptyRecord
    /\ cache = [h \in Handle |-> EmptyItem]
    /\ call = [h \in Handle |-> Idle]
    /\ reported = [h \in Handle |-> EmptyRecord]
    /\ author = NoHandle

------------------------------------------------------------------------------
Goto(h, l) == call' = [call EXCEPT ![h].at = l]

\* The Find is over: it reports r, or throws and leaves the caller what an
\* earlier Find returned.
Reports(h, r) ==
    /\ call' = [call EXCEPT ![h] = Idle]
    /\ reported' = [reported EXCEPT ![h] = r]
Throws(h) ==
    /\ call' = [call EXCEPT ![h] = Idle]
    /\ UNCHANGED reported

Register(h, s) == cache' = [cache EXCEPT ![h] = RegisterInvoker(@, s, algo[s])]

\* A Find begins by reading the find-db: in the normal mode the user's for
\* TryLoad, in the others both for GetSolutions, where the user's record wins.
FindConvFwdAlgorithm(h, m) ==
    /\ call[h].at = "idle" /\ "Find" \in UsedCalls
    /\ call' = [call EXCEPT ![h] =
           [Idle EXCEPT !.at = IF m = "normal" THEN "validate" ELSE "choose",
                        !.mode = m,
                        !.content = IF m = "normal" \/ userDb # EmptyRecord
                                    THEN userDb ELSE Installed]]
    /\ UNCHANGED <<userDb, cache, reported, author>>

------------------------------------------------------------------------------
(* The immediate mode, which the fast and hybrid modes try first.           *)

\* A variation that takes the ids for the values.
Solutions_Names(h, r) == Ids(r)

Solutions(h, r) == {r[a] : a \in Ids(r)} \cap Applicable[h]

\* GetForwardSolutions is asked for the best solution.  Only the fast mode
\* makes do with one of the fallback.
Choose(h) ==
    LET found == Solutions(h, call[h].content)
        usable == IF found # {} THEN found
                  ELSE IF call[h].mode = "fast" THEN Fallback \cap Applicable[h] ELSE {}
    IN
    /\ call[h].at = "choose"
    /\ \/ \E s \in usable :
             call' = [call EXCEPT ![h] = [Idle EXCEPT !.at = "compile", !.solver = s]]
       \/ usable = {} /\ call' = [call EXCEPT ![h] = [Idle EXCEPT !.at = "load"]]
    /\ UNCHANGED <<userDb, cache, reported, author>>

\* LoadOrPrepareInvoker: an invoker that is there already is taken as it is,
\* and found_1_0 stays what it was.
LoadOrPrepareInvoker(h, s) ==
    IF HasInvoker(cache[h], s) THEN UNCHANGED cache ELSE Register(h, s)

CompileForwardSolution(h) ==
    /\ call[h].at = "compile"
    /\ LoadOrPrepareInvoker(h, call[h].solver)
    /\ Reports(h, Single(algo[call[h].solver], call[h].solver))
    /\ UNCHANGED <<userDb, author>>

CompileThrows(h) ==
    /\ "build" \in Faults
    /\ call[h].at = "compile" /\ ~ HasInvoker(cache[h], call[h].solver)
    /\ Throws(h)
    /\ UNCHANGED <<userDb, cache, author>>

\* CompileForwardSolution and ConvolutionForwardImmediate, called directly.
Immediate(h, s) ==
    /\ call[h].at = "idle" /\ "Immediate" \in UsedCalls
    /\ ~ HasInvoker(cache[h], s) /\ LoadOrPrepareInvoker(h, s)
    /\ UNCHANGED <<userDb, call, reported, author>>

------------------------------------------------------------------------------
(* FindDbRecord_t::TryLoad.                                                 *)

Load(h) ==
    /\ call[h].at = "load"
    /\ call' = [call EXCEPT ![h].at = "validate", ![h].content = userDb]
    /\ UNCHANGED <<userDb, cache, reported, author>>

\* A variation: a record passes when one of its solvers is built.
Hit_Any(h, r) == \E a \in Ids(r) : HasInvoker(cache[h], r[a])

\* The record is usable as it is: it names something, and every solver it
\* names has its invoker in this handle.
Hit(h, r) == Ids(r) # {} /\ \A a \in Ids(r) : HasInvoker(cache[h], r[a])

Validate(h) ==
    /\ call[h].at = "validate"
    /\ IF Hit(h, call[h].content)
       THEN Reports(h, call[h].content)
       ELSE /\ call' = [call EXCEPT ![h].at = "evaluate", ![h].todo = Algorithm,
                                    ![h].content = EmptyRecord]
            /\ UNCHANGED reported
    /\ UNCHANGED <<userDb, cache, author>>

\* A variation that records the solver and leaves the invoker unregistered.
EvaluateInvokers_NotRegistering(h, a) ==
    /\ call[h].at = "evaluate" /\ a \in call[h].todo
    /\ \E s \in Applicable[h] :
          /\ algo[s] = a
          /\ call' = [call EXCEPT ![h].todo = @ \ {a}, ![h].content[a] = s]
    /\ UNCHANGED <<userDb, cache, reported, author>>

\* DirConvFindCore measures one algorithm: the invoker of its best solver is
\* registered and the solver recorded.  There may be none that fits into the
\* workspace and runs.  The algorithms come in any order.
EvaluateInvokers(h, a) ==
    /\ call[h].at = "evaluate" /\ a \in call[h].todo
    /\ \/ \E s \in Applicable[h] :
             /\ algo[s] = a
             /\ call' = [call EXCEPT ![h].todo = @ \ {a}, ![h].content[a] = s]
             /\ Register(h, s)
       \/ call' = [call EXCEPT ![h].todo = @ \ {a}] /\ UNCHANGED cache
    /\ UNCHANGED <<userDb, reported, author>>

EvaluationEnds(h) ==
    /\ call[h].at = "evaluate"
    /\ \/ call[h].todo = {} /\ Goto(h, "store")
       \/ /\ "build" \in Faults /\ call[h].todo # {}
          /\ call' = [call EXCEPT ![h].at = "store", ![h].todo = {}, ![h].threw = TRUE]
    /\ UNCHANGED <<userDb, cache, reported, author>>

\* The destructor of the record stores what there is, also when the evaluation
\* has thrown; that it fails is only logged.  An empty result is an error.
StoreRecord(h) ==
    /\ call[h].at = "store"
    /\ \/ userDb' = call[h].content /\ author' = h
       \/ "db_file" \in Faults /\ UNCHANGED <<userDb, author>>
    /\ IF call[h].threw \/ call[h].content = EmptyRecord
       THEN Throws(h) ELSE Reports(h, call[h].content)
    /\ UNCHANGED cache

------------------------------------------------------------------------------
\* A handle is destroyed, or its process dies; a new one begins with nothing.
Destroy(h) ==
    /\ call[h].at # "idle" => "crash" \in Faults
    /\ cache' = [cache EXCEPT ![h] = EmptyItem]
    /\ call' = [call EXCEPT ![h] = Idle]
    /\ reported' = [reported EXCEPT ![h] = EmptyRecord]
    /\ author' = IF author = h THEN NoHandle ELSE author
    /\ UNCHANGED userDb

Find(h) ==
    \/ \E m \in Modes : FindConvFwdAlgorithm(h, m)
    \/ Choose(h) \/ CompileForwardSolution(h) \/ CompileThrows(h)
    \/ Load(h) \/ Validate(h)
    \/ \E a \in Algorithm : EvaluateInvokers(h, a)
    \/ EvaluationEnds(h) \/ StoreRecord(h)

Next ==
    \E h \in Handle :
        Find(h) \/ (\E s \in Solver : Immediate(h, s)) \/ Destroy(h)

Spec == Init /\ [][Next]_vars

------------------------------------------------------------------------------
(* Properties.                                                              *)

\* Whatever a Find returned, measured or taken from a record that another
\* process wrote, ConvolutionForward has an invoker for: for every algorithm
\* reported to the caller, found_1_0 names a solver of that algorithm that is
\* built in this handle, and so is the reported solver itself.
ReportedRuns ==
    \A h \in Handle : \A a \in Ids(reported[h]) :
        /\ Runs(cache[h], a) /\ algo[GetFound1_0(cache[h], a)] = a
        /\ HasInvoker(cache[h], reported[h][a])

\* "It caches its own results on disk": a record that a handle has stored and
\* nobody has replaced is a hit for every later Find of that handle.
OwnRecordIsHit ==
    \A h \in Handle :
        author = h /\ userDb # EmptyRecord => Hit(h, userDb)

\* "The workspace in this structure can be used when executing the convolution
\* layer": the solver that ConvolutionForward runs for a reported algorithm
\* needs no more workspace than the reported one.
ReportedWorkspaceSuffices ==
    \A h \in Handle : \A a \in Ids(reported[h]) :
        call[h].at = "idle" =>
            workspace[GetFound1_0(cache[h], a)] <= workspace[reported[h][a]]
===============================================================================
