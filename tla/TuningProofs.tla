----------------------------- MODULE TuningProofs -----------------------------
(* What holds of Tuning for any handles, solvers, configs and programs, and  *)
(* whatever fails.                                                           *)
EXTENDS Tuning, SequenceTheorems, TLAPS

DP == INSTANCE PerfDbProofs WITH
          Client <- Handle, Id <- Solver, Value <- Config, NoValue <- NoConfig

------------------------------------------------------------------------------
(* The invariant.                                                           *)

\* The search of call d, of handle h, which `measured` configs precede: best is
\* the fastest of them, and what it has measured it does not measure again.
SearchInv(h, d, measured) ==
    /\ d.rest \subseteq Valid[h]
    /\ d.best # NoConfig =>
          /\ d.at \in {"measure", "update"} /\ d.best \in Valid[h]
          /\ d.average[d.best] # 0 /\ d.best \in measured[d.key][Head(d.todo)]
    /\ d.at = "update" => d.best # NoConfig
    /\ \A c \in Config : d.average[c] # 0 =>
          /\ d.at \in {"measure", "update"} /\ c \notin d.rest
          /\ d.best # NoConfig /\ d.average[d.best] <= d.average[c]

\* Call d of handle h, when the databases hold the programs `saved` and the
\* configs `measured` have been measured.
CallInv(h, d, saved, measured) ==
    /\ d \in Call
    /\ d.at \notin {"idle", "evaluate"} => d.todo # <<>>
    /\ SearchInv(h, d, measured)
    /\ \A s \in Solver : d.chosen[s] \in Valid[h] \cup {default[h][s], NoConfig}
    /\ d.at = "measure" => ProgramsOf(d.rest) \subseteq saved

CallsInv ==
    /\ call \in [Handle -> Call]
    /\ \A h \in Handle : CallInv(h, call[h], binaries, proven)

\* Updates in progress, and what they have stored, are of measured configs.
MeasuredInv ==
    /\ proven \in [Key -> [Solver -> SUBSET Config]]
    /\ StoredWasMeasured
    /\ \A h \in Handle : op[h] # NoOp => op[h].value \in proven[op[h].key][op[h].id]

InvokersInv ==
    /\ invoker \in [Handle -> [Key -> [Solver -> Config \cup {NoConfig}]]]
    /\ \A h \in Handle, k \in Key, s \in Solver :
          invoker[h][k][s] \in Valid[h] \cup {default[h][s], NoConfig}

RestInv ==
    /\ binaries \subseteq Program
    /\ loaded \in [Handle -> SUBSET Program]
    /\ \A h \in Handle : loaded[h] \subseteq binaries
    /\ record \in [Key -> SUBSET Solver]
    /\ enforce \in [Handle -> EnforceActions]

IInv == DP!DbInv /\ CallsInv /\ MeasuredInv /\ InvokersInv /\ RestInv

------------------------------------------------------------------------------
(* What the steps make of a call.                                           *)

\* What the constants are.
LEMMA Constants ==
    ASSUME NEW h \in Handle
    PROVE  /\ Valid[h] \subseteq Config /\ NoConfig \notin Config
           /\ \A s \in Solver : default[h][s] \in Config
           /\ \A c \in Config : programs[c] \subseteq Program
           /\ Time \subseteq Nat /\ 0 \notin Time
  BY TuningAssumption

\* A list that has a length has an element.
LEMMA NotEmpty == ASSUME NEW S, NEW q \in Seq(S), Len(q) # 0 PROVE q # <<>>
  <1>1. ASSUME q = <<>> PROVE FALSE
    BY <1>1, EmptySeq
  <1> QED
    BY <1>1

\* Programs are saved and configs measured, which does not harm a call.
LEMMA Monotone ==
    ASSUME NEW h \in Handle, NEW d, NEW S, NEW T, S \subseteq T, NEW M, NEW N,
           \A k \in Key, s \in Solver : M[k][s] \subseteq N[k][s],
           CallInv(h, d, S, M)
    PROVE  CallInv(h, d, T, N)
  <1>1. d \in Call /\ d.key \in Key /\ d.todo \in Seq(Solver)
    BY DEF CallInv, Call
  <1>2. d.best # NoConfig => Head(d.todo) \in Solver
    BY <1>1, HeadTailProperties DEF CallInv, SearchInv
  <1> QED
    BY <1>1, <1>2 DEF CallInv, SearchInv

\* A call begins.
LEMMA BeginInv ==
    ASSUME NEW h \in Handle, NEW S, NEW M, NEW k \in Key, NEW e \in BOOLEAN,
           NEW kind \in {"find", "immediate"}, NEW todo \in Seq(Solver) \ {<<>>}
    PROVE  CallInv(h, Begin(kind, k, e, todo), S, M)
  BY DEF CallInv, SearchInv, Begin, Call, Stages, NothingChosen, NothingMeasured

\* Idle is a call that has not begun.
LEMMA IdleFacts ==
    /\ Idle \in Call /\ Idle.at = "idle" /\ Idle.rest = {} /\ Idle.best = NoConfig
    /\ Idle.average = NothingMeasured /\ Idle.chosen = NothingChosen
  <1> DEFINE k == CHOOSE l \in Key : TRUE
             b == Begin("immediate", k, FALSE, <<>>)
  <1>1. k \in Key /\ <<>> \in Seq(Solver)
    BY TuningAssumption
  <1>2. b \in Call /\ b.rest = {} /\ b.best = NoConfig /\ b.average = NothingMeasured
        /\ b.chosen = NothingChosen
    BY <1>1 DEF Begin, Call, Stages, NothingChosen, NothingMeasured
  <1>3. Idle = [b EXCEPT !.at = "idle"]
    BY DEF Idle
  <1> HIDE DEF b
  <1> QED
    BY <1>2, <1>3 DEF Call, Stages

\* An idle handle has nothing in hand.
LEMMA IdleInv ==
    ASSUME NEW h \in Handle, NEW S, NEW M PROVE CallInv(h, Idle, S, M)
  BY IdleFacts DEF CallInv, SearchInv, NothingChosen, NothingMeasured

\* The handle asks the database.
LEMMA AsksInv ==
    ASSUME NEW h \in Handle, NEW S, NEW M, NEW d, CallInv(h, d, S, M),
           d.at \in {"solver", "repeat"}, NEW l \in {"clean", "repeat", "load"}
    PROVE  CallInv(h, [d EXCEPT !.at = l], S, M)
  BY DEF CallInv, SearchInv, Call, Stages

\* The handle turns to the next solver.
LEMMA ChoosesInv ==
    ASSUME NEW h \in Handle, NEW S, NEW M, NEW d, CallInv(h, d, S, M),
           d.at \notin {"idle", "evaluate"},
           NEW c \in Valid[h] \cup {default[h][Head(d.todo)]}
    PROVE  CallInv(h, [d EXCEPT
               !.at = IF Len(d.todo) = 1 THEN "evaluate" ELSE "solver",
               !.todo = Tail(d.todo), !.chosen = [d.chosen EXCEPT ![Head(d.todo)] = c],
               !.rest = {}, !.best = NoConfig, !.average = NothingMeasured], S, M)
  <1>1. d \in Call /\ d.todo \in Seq(Solver) /\ d.todo # <<>>
    BY DEF CallInv, Call
  <1>2. /\ Head(d.todo) \in Solver /\ Tail(d.todo) \in Seq(Solver)
        /\ Len(Tail(d.todo)) = Len(d.todo) - 1
    BY <1>1, HeadTailProperties
  <1>3. Len(d.todo) # 1 => Tail(d.todo) # <<>>
    <2>1. Len(d.todo) \in Nat /\ Len(d.todo) # 1 => Len(Tail(d.todo)) # 0
      BY <1>1, <1>2, LenProperties
    <2> QED
      BY <1>1, <1>2, <2>1, NotEmpty, LenProperties
  <1>4. c \in Config
    BY <1>2, Constants
  <1>5. [d.chosen EXCEPT ![Head(d.todo)] = c] \in [Solver -> Config \cup {NoConfig}]
    BY <1>1, <1>2, <1>4 DEF Call
  <1>6. NothingMeasured \in [Config -> Time \cup {0}]
        /\ \A e \in Config : NothingMeasured[e] = 0
    BY DEF NothingMeasured
  <1> HIDE DEF NothingMeasured
  <1> DEFINE D == [d EXCEPT
               !.at = IF Len(d.todo) = 1 THEN "evaluate" ELSE "solver",
               !.todo = Tail(d.todo), !.chosen = [d.chosen EXCEPT ![Head(d.todo)] = c],
               !.rest = {}, !.best = NoConfig, !.average = NothingMeasured]
  <1>7. /\ D \in Call
        /\ D.at \in {"evaluate", "solver"} /\ (D.at = "solver" => D.todo # <<>>)
        /\ D.rest = {} /\ D.best = NoConfig /\ D.average = NothingMeasured
        /\ D.chosen = [d.chosen EXCEPT ![Head(d.todo)] = c]
    BY <1>1, <1>2, <1>3, <1>5, <1>6 DEF Call, Stages
  <1>8. \A s \in Solver : D.chosen[s] \in Valid[h] \cup {default[h][s], NoConfig}
    BY <1>1, <1>7 DEF CallInv, Call
  <1> HIDE DEF D
  <1>9. CallInv(h, D, S, M)
    BY <1>6, <1>7, <1>8 DEF CallInv, SearchInv
  <1> QED
    BY <1>9 DEF D

\* The solutions of an algorithm are dropped.
LEMMA DropsInv ==
    ASSUME NEW h \in Handle, NEW S, NEW M, NEW d, CallInv(h, d, S, M),
           d.at \in {"clean", "load"}, NEW n \in 1 .. Len(d.todo) + 1,
           NEW left \in [Solver -> Config \cup {NoConfig}],
           \A s \in Solver : left[s] \in {NoConfig, d.chosen[s]}
    PROVE  CallInv(h, [d EXCEPT
               !.at = IF n > Len(d.todo) THEN "evaluate" ELSE "solver",
               !.todo = SubSeq(d.todo, n, Len(d.todo)), !.chosen = left], S, M)
  <1>1. d \in Call /\ d.todo \in Seq(Solver)
    BY DEF CallInv, Call
  <1>2. Len(d.todo) \in Nat /\ n \in Int /\ \A i \in n .. Len(d.todo) : d.todo[i] \in Solver
    BY <1>1, LenProperties, ElementOfSeq
  <1>3. /\ SubSeq(d.todo, n, Len(d.todo)) \in Seq(Solver)
        /\ Len(SubSeq(d.todo, n, Len(d.todo))) =
              IF n <= Len(d.todo) THEN Len(d.todo) - n + 1 ELSE 0
    BY <1>2, SubSeqProperties
  <1>4. ~ n > Len(d.todo) => SubSeq(d.todo, n, Len(d.todo)) # <<>>
    <2>1. ~ n > Len(d.todo) => Len(SubSeq(d.todo, n, Len(d.todo))) # 0
      BY <1>2, <1>3
    <2> QED
      BY <1>3, <2>1, NotEmpty
  <1> DEFINE D == [d EXCEPT
               !.at = IF n > Len(d.todo) THEN "evaluate" ELSE "solver",
               !.todo = SubSeq(d.todo, n, Len(d.todo)), !.chosen = left]
  <1>5. /\ D \in Call
        /\ D.at \in {"evaluate", "solver"} /\ (D.at = "solver" => D.todo # <<>>)
        /\ D.rest = d.rest /\ D.best = d.best /\ D.average = d.average
        /\ D.chosen = left
    BY <1>1, <1>3, <1>4 DEF Call, Stages
  <1> HIDE DEF D
  <1>6. CallInv(h, D, S, M)
    BY <1>1, <1>5 DEF CallInv, SearchInv
  <1> QED
    BY <1>6 DEF D

\* A search begins.
LEMMA StartsSearchInv ==
    ASSUME NEW h \in Handle, NEW S, NEW M, NEW d, CallInv(h, d, S, M),
           d.at \in {"solver", "load"}, NEW s
    PROVE  CallInv(h, [d EXCEPT !.at = "precompile", !.rest = AllConfigs(h, s)], S, M)
  <1>1. AllConfigs(h, s) \subseteq Valid[h] /\ AllConfigs(h, s) \subseteq Config
    BY Constants DEF AllConfigs
  <1> QED
    BY <1>1 DEF CallInv, SearchInv, Call, Stages

\* Everything the search needs is compiled.
LEMMA PrecompileInv ==
    ASSUME NEW h \in Handle, NEW S, NEW M, NEW d, CallInv(h, d, S, M),
           d.at = "precompile", ProgramsOf(d.rest) \subseteq S
    PROVE  CallInv(h, [d EXCEPT !.at = "measure"], S, M)
  BY DEF CallInv, SearchInv, Call, Stages

\* The search has a result.
LEMMA ScoreInv ==
    ASSUME NEW h \in Handle, NEW S, NEW M, NEW d, CallInv(h, d, S, M),
           d.at = "measure", d.best # NoConfig
    PROVE  CallInv(h, [d EXCEPT !.at = "update"], S, M)
  BY DEF CallInv, SearchInv, Call, Stages

\* A config is measured, or is not.
LEMMA MeasuredAsInv ==
    ASSUME NEW h \in Handle, NEW S, NEW M, NEW d, CallInv(h, d, S, M),
           d.at = "measure", NEW c \in d.rest, NEW time \in Time \cup {0},
           time # 0 => c \in M[d.key][Head(d.todo)], NEW best \in {c, d.best},
           time = 0 => best = d.best,
           time # 0 => (best = c <=> (d.best # NoConfig => time < d.average[d.best]))
    PROVE  CallInv(h, [d EXCEPT !.rest = d.rest \ {c}, !.best = best,
                               !.average = [d.average EXCEPT ![c] = time]], S, M)
  <1> DEFINE D == [d EXCEPT !.rest = d.rest \ {c}, !.best = best,
                            !.average = [d.average EXCEPT ![c] = time]]
  <1>1. d \in Call /\ c \in Config /\ c \in Valid[h] /\ c # NoConfig
    BY Constants DEF CallInv, SearchInv, Call
  <1>2. /\ D \in Call /\ D.at = "measure" /\ D.todo = d.todo /\ D.key = d.key
        /\ D.chosen = d.chosen /\ D.rest = d.rest \ {c} /\ D.best = best
        /\ D.average = [d.average EXCEPT ![c] = time]
    BY <1>1 DEF Call
  <1>3. /\ d.average \in [Config -> Nat] /\ D.average \in [Config -> Nat] /\ time \in Nat
        /\ d.average[c] = 0
    BY <1>1, <1>2, Constants DEF Call, CallInv, SearchInv
  <1> HIDE DEF D
  <1>4. SearchInv(h, D, M)
    <2>1. /\ SearchInv(h, d, M) /\ (d.best # NoConfig => d.best \in Config)
          /\ D.average[c] = time
          /\ \A e \in Config \ {c} : D.average[e] = d.average[e]
      BY <1>1, <1>2, <1>3, Constants DEF CallInv, Call
    <2>2. CASE time = 0
      BY <2>1, <2>2, <1>1, <1>2, <1>3 DEF SearchInv
    <2>3. CASE time # 0 /\ best = c
      <3>1. \A e \in Config \ {c} : D.average[e] # 0 => time <= D.average[e]
        BY <2>1, <2>3, <1>1, <1>3 DEF SearchInv
      <3> QED
        BY <2>1, <2>3, <3>1, <1>1, <1>2, <1>3 DEF SearchInv
    <2>4. CASE time # 0 /\ best # c
      <3>1. best = d.best /\ d.best # NoConfig /\ d.average[d.best] <= time
        BY <2>1, <2>4, <1>3
      <3>2. D.average[best] = d.average[best]
        BY <3>1, <2>1, <2>4
      <3> QED
        BY <2>1, <2>4, <3>1, <3>2, <1>1, <1>2, <1>3 DEF SearchInv
    <2> QED
      BY <2>2, <2>3, <2>4
  <1>5. ProgramsOf(D.rest) \subseteq S
    BY <1>2 DEF CallInv, ProgramsOf
  <1>6. CallInv(h, D, S, M)
    BY <1>2, <1>4, <1>5 DEF CallInv
  <1> QED
    BY <1>6 DEF D

------------------------------------------------------------------------------
(* The steps keep the calls right.                                          *)

\* Programs and measurements are only added.
Grows == /\ binaries \subseteq binaries'
         /\ \A k \in Key, s \in Solver : proven[k][s] \subseteq proven'[k][s]

Working(h) == ~ At(h, "idle") /\ ~ At(h, "evaluate")

\* The call of one handle changes.
LEMMA CallsStep ==
    ASSUME CallsInv, NEW h \in Handle, NEW d, call' = [call EXCEPT ![h] = d],
           CallInv(h, d, binaries', proven'), Grows
    PROVE  CallsInv'
  <1>1. d \in Call
    BY DEF CallInv
  <1>2. ASSUME NEW g \in Handle PROVE CallInv(g, call'[g], binaries', proven')
    <2>1. CASE g = h
      BY <2>1 DEF CallsInv
    <2>2. CASE g # h
      <3>1. call'[g] = call[g] /\ CallInv(g, call[g], binaries, proven)
        BY <2>2 DEF CallsInv
      <3> QED
        BY <3>1, Monotone DEF Grows
    <2> QED
      BY <2>1, <2>2
  <1> QED
    BY <1>1, <1>2 DEF CallsInv

\* What is known of the call of a handle.
LEMMA CallFacts ==
    ASSUME CallsInv, NEW h \in Handle
    PROVE  /\ CallInv(h, call[h], binaries, proven)
           /\ call[h] \in Call /\ call[h].key \in Key /\ call[h].todo \in Seq(Solver)
           /\ call[h].rest \subseteq Config
           /\ call[h].best # NoConfig => call[h].best \in Config /\ call[h].best \in Valid[h]
           /\ Working(h) => Solving(h) \in Solver /\ call[h].todo # <<>>
           /\ Grows => CallInv(h, call[h], binaries', proven')
  <1>1. call[h] \in Call /\ CallInv(h, call[h], binaries, proven)
    BY DEF CallsInv
  <1>2. Working(h) => call[h].todo # <<>>
    BY <1>1 DEF CallInv, Working, At
  <1>3. call[h].todo \in Seq(Solver) /\ call[h].rest \subseteq Config /\ call[h].key \in Key
        /\ call[h].best \in Config \cup {NoConfig}
    BY <1>1 DEF Call
  <1>4. Working(h) => Solving(h) \in Solver
    BY <1>2, <1>3, HeadTailProperties DEF Solving
  <1>5. Grows => CallInv(h, call[h], binaries', proven')
    BY <1>1, Monotone DEF Grows
  <1>6. call[h].best # NoConfig => call[h].best \in Valid[h]
    BY <1>1 DEF CallInv, SearchInv
  <1> QED
    BY <1>1, <1>2, <1>3, <1>4, <1>5, <1>6

\* A solver is done with.
LEMMA ChoosesStep ==
    ASSUME CallsInv, NEW h \in Handle, Working(h), Grows,
           NEW c \in Valid[h] \cup {default[h][Solving(h)]}, Chooses(h, c)
    PROVE  CallsInv'
  <1> DEFINE d == call[h]
             e == [d EXCEPT
               !.at = IF Len(d.todo) = 1 THEN "evaluate" ELSE "solver",
               !.todo = Tail(d.todo), !.chosen = [d.chosen EXCEPT ![Head(d.todo)] = c],
               !.rest = {}, !.best = NoConfig, !.average = NothingMeasured]
  <1>1. CallInv(h, d, binaries', proven') /\ d \in Call
    BY CallFacts
  <1>2. CallInv(h, e, binaries', proven')
    BY <1>1, ChoosesInv DEF Working, At, Solving
  <1>3. call' = [call EXCEPT ![h] = e]
    BY DEF Chooses, CallsInv, Call, Solving
  <1> QED
    BY <1>2, <1>3, CallsStep

\* An algorithm is dropped.
LEMMA DropsStep ==
    ASSUME CallsInv, NEW h \in Handle, At(h, "clean") \/ At(h, "load"), Grows, Drops(h)
    PROVE  CallsInv'
  <1>1. CallInv(h, call[h], binaries', proven') /\ call[h] \in Call
    BY CallFacts
  <1>2. PICK n \in 1 .. Len(call[h].todo) + 1 :
          call' = [call EXCEPT ![h] = IF call[h].kind = "immediate" THEN Idle
              ELSE [call[h] EXCEPT
                 !.at = IF n > Len(call[h].todo) THEN "evaluate" ELSE "solver",
                 !.todo = SubSeq(call[h].todo, n, Len(call[h].todo)),
                 !.chosen = [s \in Solver |-> IF algo[s] = algo[Solving(h)] THEN NoConfig
                                              ELSE call[h].chosen[s]]]]
    BY DEF Drops, CallsInv
  <1>3. CASE call[h].kind = "immediate"
    BY <1>2, <1>3, IdleInv, CallsStep
  <1>4. CASE call[h].kind # "immediate"
    <2> DEFINE left == [s \in Solver |-> IF algo[s] = algo[Solving(h)] THEN NoConfig
                                         ELSE call[h].chosen[s]]
               e == [call[h] EXCEPT
                 !.at = IF n > Len(call[h].todo) THEN "evaluate" ELSE "solver",
                 !.todo = SubSeq(call[h].todo, n, Len(call[h].todo)), !.chosen = left]
    <2>1. /\ left \in [Solver -> Config \cup {NoConfig}]
          /\ \A s \in Solver : left[s] \in {NoConfig, call[h].chosen[s]}
      BY <1>1 DEF Call
    <2>2. CallInv(h, e, binaries', proven')
      <3> HIDE DEF left
      <3> QED
        BY <1>1, <2>1, DropsInv DEF At
    <2>3. call' = [call EXCEPT ![h] = e]
      BY <1>2, <1>4
    <2> QED
      BY <2>2, <2>3, CallsStep
  <1> QED
    BY <1>3, <1>4

\* A call goes to its next stage.
LEMMA GotoStep ==
    ASSUME CallsInv, NEW h \in Handle, NEW l, Grows, Goto(h, l),
           \/ At(h, "solver") /\ l \in {"clean", "repeat", "load"}
           \/ At(h, "repeat") /\ l = "load"
           \/ At(h, "precompile") /\ l = "measure" /\ ProgramsOf(call[h].rest) \subseteq binaries'
           \/ At(h, "measure") /\ l = "update" /\ call[h].best # NoConfig
    PROVE  CallsInv'
  <1>1. CallInv(h, call[h], binaries', proven') /\ call[h] \in Call
    BY CallFacts
  <1>2. call' = [call EXCEPT ![h] = [call[h] EXCEPT !.at = l]]
    BY DEF Goto, CallsInv
  <1>3. CallInv(h, [call[h] EXCEPT !.at = l], binaries', proven')
    BY <1>1, AsksInv, PrecompileInv, ScoreInv DEF At
  <1> QED
    BY <1>2, <1>3, CallsStep

\* A search is started.
LEMMA StartsSearchStep ==
    ASSUME CallsInv, NEW h \in Handle, At(h, "solver") \/ At(h, "load"), Grows, StartsSearch(h)
    PROVE  CallsInv'
  <1>1. CallInv(h, call[h], binaries', proven') /\ call[h] \in Call
    BY CallFacts
  <1>2. call' = [call EXCEPT ![h] = [call[h] EXCEPT !.at = "precompile",
                                                    !.rest = AllConfigs(h, Solving(h))]]
    BY DEF StartsSearch, CallsInv
  <1> QED
    BY <1>1, <1>2, StartsSearchInv, CallsStep DEF At

\* A config is done with.
LEMMA MeasuredAsStep ==
    ASSUME CallsInv, proven \in [Key -> [Solver -> SUBSET Config]],
           NEW h \in Handle, At(h, "measure"), binaries \subseteq binaries',
           NEW c \in call[h].rest, NEW time \in Time \cup {0}, MeasuredAs(h, c, time)
    PROVE  CallsInv' /\ Grows /\ proven' \in [Key -> [Solver -> SUBSET Config]]
  <1>1. /\ call[h] \in Call /\ call[h].key \in Key /\ Solving(h) \in Solver /\ c \in Config
    BY CallFacts DEF Working, At
  <1>2. /\ Grows /\ proven' \in [Key -> [Solver -> SUBSET Config]]
        /\ time # 0 => c \in proven'[call[h].key][Solving(h)]
    BY <1>1 DEF MeasuredAs, Grows
  <1>3. CallInv(h, call[h], binaries', proven')
    BY <1>2, CallFacts
  <1>4. PICK best \in {c, call[h].best} :
          /\ best = IF time # 0 /\ Better(h, c, time) THEN c ELSE call[h].best
          /\ call' = [call EXCEPT ![h] = [call[h] EXCEPT !.rest = call[h].rest \ {c},
                 !.best = best, !.average = [call[h].average EXCEPT ![c] = time]]]
    BY DEF MeasuredAs, CallsInv
  <1>5. c # call[h].best
    BY <1>1, <1>3, Constants DEF CallInv, SearchInv
  <1>6. /\ time = 0 => best = call[h].best
        /\ time # 0 => (best = c <=>
              (call[h].best # NoConfig => time < call[h].average[call[h].best]))
    BY <1>4, <1>5 DEF Better
  <1>7. CallInv(h, [call[h] EXCEPT !.rest = call[h].rest \ {c}, !.best = best,
                  !.average = [call[h].average EXCEPT ![c] = time]], binaries', proven')
    BY <1>2, <1>3, <1>6, MeasuredAsInv DEF At, Solving
  <1> QED
    BY <1>2, <1>4, <1>7, CallsStep

------------------------------------------------------------------------------
(* The steps keep the invariant, one part after the other.                  *)

\* The programs of configs are programs.
LEMMA ProgramsType ==
    ASSUME NEW C, C \subseteq Config PROVE ProgramsOf(C) \subseteq Program
  BY TuningAssumption DEF ProgramsOf

\* What is saved stays saved, and what is not, the handle holds.
LEMMA Saves ==
    ASSUME RestInv, NEW h \in Handle, NEW P, P \subseteq Program,
           SavesPrograms(h, P) \/ FailsToLoad(h, P) \/ FailsToTake(h, P)
    PROVE  /\ binaries \subseteq binaries' /\ binaries' \subseteq Program
           /\ SavesPrograms(h, P) => P \subseteq binaries'
  BY DEF RestInv, SavesPrograms, FailsToLoad, FailsToTake, Missing

\* Where a program fails the handle keeps those that it took before, which are
\* saved.
LEMMA Takes ==
    ASSUME RestInv, NEW h \in Handle, NEW P, P \subseteq Program, FailsToTake(h, P)
    PROVE  \E Q : Q \subseteq binaries' /\ Keeps(h, Q)
  <1>1. PICK taken \in SUBSET Missing(h, P) :
            binaries' = binaries \cup taken /\ Keeps(h, loaded[h] \cup taken)
    BY DEF FailsToTake
  <1>2. loaded[h] \cup taken \subseteq binaries'
    BY <1>1 DEF RestInv
  <1> QED
    BY <1>1, <1>2

\* A handle holds what is saved.
LEMMA KeepsInv ==
    ASSUME RestInv, NEW h \in Handle, NEW P, P \subseteq binaries',
           binaries \subseteq binaries', binaries' \subseteq Program,
           Keeps(h, P), UNCHANGED <<record, enforce>>
    PROVE  RestInv'
  BY DEF RestInv, Keeps

\* The programs of a measured config and of the default one.
LEMMA ConfigPrograms ==
    ASSUME NEW h \in Handle
    PROVE  /\ \A c \in Config : programs[c] \subseteq Program
           /\ \A s \in Solver : programs[default[h][s]] \subseteq Program
  BY Constants

\* Programs, records and settings.
LEMMA RestKept == ASSUME CallsInv, RestInv, [Next]_vars PROVE RestInv'
  <1>1. ASSUME NEW h \in Handle, NEW k \in Key, NEW e \in BOOLEAN,
               FindConvFwdAlgorithm(h, k, e)
        PROVE  RestInv'
    BY <1>1 DEF FindConvFwdAlgorithm, localVars, RestInv
  <1>2. ASSUME NEW h \in Handle, NEW k \in Key, NEW s \in Solver, LoadOrPrepareInvoker(h, k, s)
        PROVE  RestInv'
    BY <1>2 DEF LoadOrPrepareInvoker, localVars, RestInv
  <1>3. ASSUME NEW h \in Handle,
               \/ NotSearchable(h) \/ Clean(h) \/ Cleaned(h) \/ Load(h) \/ LoadRepeats(h)
               \/ LoadAgain(h) \/ Loaded(h) \/ SkipLoad(h) \/ SearchFailed(h) \/ Update(h)
               \/ Updated(h)
        PROVE  RestInv'
    BY <1>3 DEF NotSearchable, Clean, Cleaned, Load, LoadRepeats, LoadAgain, Loaded, SkipLoad,
                SearchFailed, Update, Updated, localVars, RestInv
  <1>4. ASSUME NEW h \in Handle, Precompile(h) \/ PrecompileFails(h) PROVE RestInv'
    <2>1. binaries \subseteq binaries' /\ binaries' \subseteq Program
      BY <1>4, CallFacts, ProgramsType, Saves DEF Precompile, PrecompileFails
    <2> QED
      BY <1>4, <2>1 DEF Precompile, PrecompileFails, localVars, RestInv
  <1>5. ASSUME NEW h \in Handle, NEW c \in Config, Measure(h, c) \/ MeasureFails(h, c)
        PROVE  RestInv'
    <2>1. programs[c] \subseteq Program
      BY ConfigPrograms
    <2>2. binaries \subseteq binaries' /\ binaries' \subseteq Program
      BY <1>5, <2>1, Saves DEF Measure, MeasureFails
    <2>3. Keeps(h, loaded[h] \ programs[c]) /\ UNCHANGED <<record, enforce>>
      BY <1>5 DEF Measure, MeasureFails, Measured
    <2>4. loaded[h] \subseteq binaries'
      BY <2>2 DEF RestInv
    <2> QED
      BY <2>2, <2>3, <2>4, KeepsInv
  <1>6. ASSUME NEW h \in Handle, Score(h) \/ ScoreFails(h) PROVE RestInv'
    <2> DEFINE P == programs[default[h][Solving(h)]]
    <2>1. P \subseteq Program
      BY <1>6, CallFacts, ConfigPrograms DEF Score, ScoreFails, Searched, Working, At
    <2>2. /\ binaries \subseteq binaries' /\ binaries' \subseteq Program
          /\ SavesPrograms(h, P) => P \subseteq binaries'
      BY <1>6, <2>1, Saves DEF Score, ScoreFails
    <2>3. CASE SavesPrograms(h, P) /\ Keeps(h, loaded[h] \cup P)
      <3>1. loaded[h] \cup P \subseteq binaries'
        BY <2>2, <2>3 DEF RestInv
      <3> QED
        BY <1>6, <2>2, <2>3, <3>1, KeepsInv DEF Score, ScoreFails
    <2>4. CASE FailsToTake(h, P)
      <3>1. PICK Q : Q \subseteq binaries' /\ Keeps(h, Q)
        BY <2>1, <2>4, Takes
      <3>2. UNCHANGED <<record, enforce>>
        BY <1>6 DEF Score, ScoreFails
      <3> QED
        BY <2>2, <3>1, <3>2, KeepsInv
    <2> QED
      BY <1>6, <2>3, <2>4 DEF Score, ScoreFails
  <1>7. ASSUME NEW h \in Handle PROVE ProgramsOf(Solutions(h)) \subseteq Program
    <2>1. Solutions(h) \subseteq Config
      BY CallFacts DEF Solutions, Call
    <2> QED
      BY <2>1, ProgramsType
  <1>8. ASSUME NEW h \in Handle, Evaluate(h) \/ EvaluateFails(h) \/ PrepareInvoker(h)
        PROVE  RestInv'
    <2> DEFINE P == ProgramsOf(Solutions(h))
    <2>1. P \subseteq Program
      BY <1>7
    <2>2. /\ binaries \subseteq binaries' /\ binaries' \subseteq Program
          /\ SavesPrograms(h, P) => P \subseteq binaries'
      BY <1>8, <2>1, Saves DEF Evaluate, EvaluateFails, PrepareInvoker
    <2>3. loaded' \in [Handle -> SUBSET Program] /\ \A g \in Handle : loaded'[g] \subseteq binaries'
      <3>1. CASE SavesPrograms(h, P) /\ Keeps(h, loaded[h] \cup P)
        BY <2>1, <2>2, <3>1 DEF RestInv, Keeps
      <3>2. CASE FailsToTake(h, P)
        <4>1. PICK Q : Q \subseteq binaries' /\ Keeps(h, Q)
          BY <2>1, <3>2, Takes
        <4> QED
          BY <2>2, <4>1 DEF RestInv, Keeps
      <3>3. CASE UNCHANGED loaded
        BY <2>2, <3>3 DEF RestInv
      <3> QED
        BY <1>8, <3>1, <3>2, <3>3 DEF Evaluate, EvaluateFails, PrepareInvoker
    <2>4. record' \in [Key -> SUBSET Solver] /\ enforce' = enforce
      <3>1. CASE Evaluate(h)
        <4>1. PICK W \in Winners(h) : StoresRecord(h, W)
          BY <3>1 DEF Evaluate
        <4>2. W \subseteq Solver
          BY DEF Winners
        <4> QED
          BY <3>1, <4>1, <4>2 DEF Evaluate, StoresRecord, RestInv
      <3>2. CASE EvaluateFails(h)
        BY <3>2 DEF EvaluateFails, StoresRecord, RestInv
      <3>3. CASE PrepareInvoker(h)
        BY <3>3 DEF PrepareInvoker, RestInv
      <3> QED
        BY <1>8, <3>1, <3>2, <3>3
    <2> QED
      BY <2>2, <2>3, <2>4 DEF RestInv
  <1>9. ASSUME NEW h \in Handle, Terminate(h) \/ Crash(h) PROVE RestInv'
    <2>1. binaries \subseteq binaries' /\ binaries' \subseteq Program
      <3>1. ProgramsOf(call[h].rest) \subseteq Program
        BY CallFacts, ProgramsType
      <3> QED
        BY <1>7, <1>9, <3>1, Saves DEF Terminate, Crash, RestInv
    <2>2. Dies(h)
      BY <1>9 DEF Terminate, Crash
    <2>3. enforce' \in [Handle -> EnforceActions]
      BY <2>2, TuningAssumption DEF Dies, RestInv
    <2> QED
      BY <2>1, <2>2, <2>3 DEF Dies, Keeps, RestInv
  <1>10. CASE UNCHANGED vars
    BY <1>10 DEF vars, RestInv
  <1> QED
    BY <1>1, <1>2, <1>3, <1>4, <1>5, <1>6, <1>8, <1>9, <1>10 DEF Next, Step

\* Nothing is compiled or measured.
LEMMA GrowsNot == UNCHANGED <<binaries, proven>> => Grows
  BY DEF Grows

ProvenType == proven \in [Key -> [Solver -> SUBSET Config]]

\* Calls, and what they have measured.
LEMMA CallsKept ==
    ASSUME CallsInv, RestInv, ProvenType, [Next]_vars
    PROVE  CallsInv' /\ Grows /\ ProvenType'
  <1> USE DEF ProvenType
  <1>1. ASSUME NEW h \in Handle, NEW k \in Key, NEW e \in BOOLEAN,
               FindConvFwdAlgorithm(h, k, e)
        PROVE  CallsInv' /\ Grows /\ ProvenType'
    <2>1. Grows /\ ProvenType' /\ call' = [call EXCEPT ![h] = Begin("find", k, e, solvers)]
      BY <1>1, GrowsNot DEF FindConvFwdAlgorithm
    <2>2. solvers \in Seq(Solver) \ {<<>>}
      BY TuningAssumption
    <2>3. CallInv(h, Begin("find", k, e, solvers), binaries', proven')
      BY <2>2, BeginInv
    <2> QED
      BY <2>1, <2>3, CallsStep
  <1>2. ASSUME NEW h \in Handle, NEW k \in Key, NEW s \in Solver, LoadOrPrepareInvoker(h, k, s)
        PROVE  CallsInv' /\ Grows /\ ProvenType'
    <2>1. Grows /\ ProvenType' /\ call' = [call EXCEPT ![h] = Begin("immediate", k, FALSE, <<s>>)]
      BY <1>2, GrowsNot DEF LoadOrPrepareInvoker
    <2>2. <<s>> \in Seq(Solver) \ {<<>>}
      OBVIOUS
    <2>3. CallInv(h, Begin("immediate", k, FALSE, <<s>>), binaries', proven')
      BY <2>2, BeginInv
    <2> QED
      BY <2>1, <2>3, CallsStep
  <1>3. ASSUME NEW h \in Handle, Working(h), Grows, ChoosesDefault(h) PROVE CallsInv'
    BY <1>3, ChoosesStep DEF ChoosesDefault
  <1>4. ASSUME NEW h \in Handle, NotSearchable(h) \/ SearchFailed(h)
        PROVE  CallsInv' /\ Grows /\ ProvenType'
    <2>1. Grows /\ ProvenType' /\ ChoosesDefault(h)
      BY <1>4, GrowsNot DEF NotSearchable, SearchFailed
    <2>2. Working(h)
      BY <1>4 DEF NotSearchable, SearchFailed, Searched, Working, At
    <2> QED
      BY <1>3, <2>1, <2>2
  <1>5. ASSUME NEW h \in Handle, Clean(h) \/ Load(h) \/ LoadRepeats(h) \/ LoadAgain(h)
        PROVE  CallsInv' /\ Grows /\ ProvenType'
    BY <1>5, GrowsNot, GotoStep DEF Clean, Load, LoadRepeats, LoadAgain, Loads, Tunes
  <1>6. ASSUME NEW h \in Handle, Cleaned(h) PROVE CallsInv' /\ Grows /\ ProvenType'
    <2>1. Grows /\ ProvenType' /\ At(h, "clean") /\ (Drops(h) \/ ChoosesDefault(h))
      BY <1>6, GrowsNot DEF Cleaned
    <2> QED
      BY <1>3, <2>1, DropsStep DEF Working, At
  <1>7. ASSUME NEW h \in Handle, Loaded(h) PROVE CallsInv' /\ Grows /\ ProvenType'
    <2>1. /\ Grows /\ ProvenType' /\ At(h, "load")
          /\ \/ Drops(h) \/ StartsSearch(h) \/ ChoosesDefault(h)
             \/ answer[h].value \in Valid[h] /\ Chooses(h, answer[h].value)
      BY <1>7, GrowsNot DEF Loaded
    <2>2. CASE answer[h].value \in Valid[h] /\ Chooses(h, answer[h].value)
      BY <2>1, <2>2, ChoosesStep DEF Working, At
    <2> QED
      BY <1>3, <2>1, <2>2, DropsStep, StartsSearchStep DEF Working, At
  <1>8. ASSUME NEW h \in Handle, SkipLoad(h) PROVE CallsInv' /\ Grows /\ ProvenType'
    BY <1>8, GrowsNot, StartsSearchStep DEF SkipLoad, Tunes
  <1>9. ASSUME NEW h \in Handle, Precompile(h) PROVE CallsInv' /\ Grows /\ ProvenType'
    <2>1. /\ binaries \subseteq binaries' /\ ProgramsOf(call[h].rest) \subseteq binaries'
          /\ UNCHANGED proven /\ At(h, "precompile") /\ Goto(h, "measure")
      BY <1>9, CallFacts, ProgramsType, Saves DEF Precompile
    <2>2. Grows
      BY <2>1 DEF Grows
    <2> QED
      BY <2>1, <2>2, GotoStep
  <1>16. ASSUME NEW h \in Handle, PrecompileFails(h) PROVE CallsInv' /\ Grows /\ ProvenType'
    <2>1. /\ binaries \subseteq binaries' /\ UNCHANGED proven
          /\ Working(h) /\ ChoosesDefault(h)
      BY <1>16, CallFacts, ProgramsType, Saves DEF PrecompileFails, Working, At
    <2>2. Grows
      BY <2>1 DEF Grows
    <2> QED
      BY <1>3, <2>1, <2>2
  <1>10. ASSUME NEW h \in Handle, NEW c \in Config, Measure(h, c) \/ MeasureFails(h, c)
         PROVE  CallsInv' /\ Grows /\ ProvenType'
    <2>1. programs[c] \subseteq Program
      BY ConfigPrograms
    <2>2. binaries \subseteq binaries'
      BY <1>10, <2>1, Saves DEF Measure, MeasureFails
    <2>3. /\ At(h, "measure") /\ c \in call[h].rest
          /\ \E time \in Time \cup {0} : MeasuredAs(h, c, time)
      BY <1>10 DEF Measure, MeasureFails
    <2> QED
      BY <2>2, <2>3, MeasuredAsStep
  <1>11. ASSUME NEW h \in Handle, Score(h) \/ ScoreFails(h)
         PROVE  CallsInv' /\ Grows /\ ProvenType'
    <2> DEFINE P == programs[default[h][Solving(h)]]
    <2>1. P \subseteq Program
      BY <1>11, CallFacts, ConfigPrograms DEF Score, ScoreFails, Searched, Working, At
    <2>2. binaries \subseteq binaries' /\ UNCHANGED proven
      BY <1>11, <2>1, Saves DEF Score, ScoreFails
    <2>3. Grows
      BY <2>2 DEF Grows
    <2>4. /\ At(h, "measure") /\ Working(h) /\ call[h].best # NoConfig
          /\ Goto(h, "update") \/ ChoosesDefault(h)
      BY <1>11 DEF Score, ScoreFails, Searched, Working, At
    <2> QED
      BY <1>3, <2>2, <2>3, <2>4, GotoStep
  <1>12. ASSUME NEW h \in Handle, Update(h) PROVE CallsInv' /\ Grows /\ ProvenType'
    BY <1>12, GrowsNot DEF Update, CallsInv
  <1>13. ASSUME NEW h \in Handle, Updated(h) PROVE CallsInv' /\ Grows /\ ProvenType'
    <2>1. /\ Grows /\ ProvenType' /\ At(h, "update") /\ Working(h)
          /\ ChoosesDefault(h) \/ Chooses(h, call[h].best)
      BY <1>13, GrowsNot DEF Updated, Working, At
    <2>2. call[h].best \in Valid[h]
      BY <2>1, CallFacts DEF CallInv, SearchInv, At
    <2> QED
      BY <1>3, <2>1, <2>2, ChoosesStep
  <1>14. ASSUME NEW h \in Handle, \/ Evaluate(h) \/ EvaluateFails(h) \/ PrepareInvoker(h)
                                \/ Terminate(h) \/ Crash(h)
         PROVE  CallsInv' /\ Grows /\ ProvenType'
    <2>1. ProgramsOf(Solutions(h)) \subseteq Program
      <3>1. Solutions(h) \subseteq Config
        BY CallFacts DEF Solutions, Call
      <3> QED
        BY <3>1, ProgramsType
    <2>2. ProgramsOf(call[h].rest) \subseteq Program
      BY CallFacts, ProgramsType
    <2>3. binaries \subseteq binaries'
      BY <1>14, <2>1, <2>2, Saves
         DEF Evaluate, EvaluateFails, PrepareInvoker, Terminate, Crash
    <2>4. UNCHANGED proven /\ call' = [call EXCEPT ![h] = Idle]
      BY <1>14 DEF Evaluate, EvaluateFails, PrepareInvoker, Terminate, Crash, Dies
    <2>5. Grows /\ ProvenType'
      BY <2>3, <2>4 DEF Grows
    <2> QED
      BY <2>4, <2>5, IdleInv, CallsStep
  <1>15. CASE UNCHANGED vars
    BY <1>15, GrowsNot DEF vars, CallsInv
  <1> QED
    BY <1>1, <1>2, <1>4, <1>5, <1>6, <1>7, <1>8, <1>9, <1>10, <1>11, <1>12, <1>13, <1>14, <1>15,
       <1>16 DEF Next, Step

\* What a step does in the database is a step of PerfDb.
LEMMA DbSteps == ASSUME CallsInv, [Next]_vars PROVE [DP!DbNext]_(DP!dbVars)
  <1> USE DEF DP!DbNext, DP!dbVars, dbVars
  <1>1. ASSUME UNCHANGED dbVars PROVE [DP!DbNext]_(DP!dbVars)
    BY <1>1
  <1>2. ASSUME NEW h \in Handle, Db!Take(h) \/ Db!Die(h) PROVE DP!DbNext
    BY <1>2 DEF Db!Take, DP!Take, Db!Die, DP!Die
  <1>3. ASSUME NEW h \in Handle, Clean(h) \/ Load(h) \/ LoadRepeats(h) \/ LoadAgain(h)
        PROVE  DP!DbNext
    <2>1. call[h].key \in Key /\ Solving(h) \in Solver
      BY <1>3, CallFacts DEF Clean, Load, LoadRepeats, LoadAgain, Loads, Tunes, Working, At
    <2>2. \/ Db!Remove(h, call[h].key, Solving(h)) \/ Db!RemoveFails(h)
          \/ Db!Load(h, call[h].key, Solving(h)) \/ Db!LoadFails(h) \/ Db!LoadRepeats(h)
      BY <1>3 DEF Clean, Load, LoadRepeats, LoadAgain
    <2>3. \/ DP!Remove(h, call[h].key, Solving(h)) \/ DP!RemoveFails(h)
          \/ DP!Load(h, call[h].key, Solving(h)) \/ DP!LoadFails(h) \/ DP!LoadRepeats(h)
      BY <2>2 DEF Db!Remove, DP!Remove, Db!RemoveFails, DP!RemoveFails, Db!Load, DP!Load,
                  Db!LoadFails, DP!LoadFails, Db!LoadRepeats, DP!LoadRepeats, Db!dbVars,
                  Db!Ready, DP!Ready, Db!Answers, DP!Answers, Db!Answer, DP!Answer, Db!Preferred, DP!Preferred, Db!UserRecord,
                  DP!UserRecord, Db!Has, DP!Has, Db!EmptyRecord, DP!EmptyRecord,
                  Db!EraseValues, DP!EraseValues
    <2> QED
      BY <2>1, <2>3
  <1>4. ASSUME NEW h \in Handle, Update(h) PROVE DP!DbNext
    <2>1. call[h].key \in Key /\ Solving(h) \in Solver /\ call[h].best \in Config
      <3>1. call[h].best # NoConfig
        BY <1>4, CallFacts DEF Update, CallInv, SearchInv, At
      <3> QED
        BY <1>4, <3>1, CallFacts DEF Update, Working, At
    <2>2. \/ Db!InsertConfig(h, call[h].key, Solving(h), call[h].best)
          \/ Db!InsertValue(h) \/ Db!UpdateFails(h)
      BY <1>4 DEF Update
    <2>3. \/ DP!InsertConfig(h, call[h].key, Solving(h), call[h].best)
          \/ DP!InsertValue(h) \/ DP!UpdateFails(h)
      BY <2>2 DEF Db!InsertConfig, DP!InsertConfig, Db!InsertValue, DP!InsertValue,
                  Db!UpdateFails, DP!UpdateFails, Db!Ready, DP!Ready, Db!Answers, DP!Answers,
                  Db!Answer, DP!Answer
    <2> QED
      BY <2>1, <2>3
  <1>5. ASSUME NEW h \in Handle, Cleaned(h) \/ Loaded(h) \/ Updated(h) \/ Terminate(h) \/ Crash(h)
        PROVE  DP!DbNext
    BY <1>2, <1>5 DEF Cleaned, Loaded, Updated, Terminate, Crash, Dies
  <1>6. ASSUME NEW h \in Handle,
               \/ NotSearchable(h) \/ SkipLoad(h) \/ Precompile(h) \/ PrecompileFails(h)
               \/ SearchFailed(h) \/ Score(h) \/ ScoreFails(h)
               \/ Evaluate(h) \/ EvaluateFails(h) \/ PrepareInvoker(h)
               \/ \E c \in Config : Measure(h, c) \/ MeasureFails(h, c)
               \/ \E k \in Key, e \in BOOLEAN : FindConvFwdAlgorithm(h, k, e)
               \/ \E k \in Key, s \in Solver : LoadOrPrepareInvoker(h, k, s)
        PROVE  UNCHANGED dbVars
    BY <1>6 DEF NotSearchable, SkipLoad, Precompile, PrecompileFails, SearchFailed, Score,
                ScoreFails, Evaluate, EvaluateFails, PrepareInvoker, Measure, MeasureFails,
                FindConvFwdAlgorithm, LoadOrPrepareInvoker
  <1>7. CASE UNCHANGED vars
    BY <1>7 DEF vars
  <1> QED
    BY <1>1, <1>3, <1>4, <1>5, <1>6, <1>7 DEF Next, Step

\* The database keeps its invariant.
LEMMA DbKept == ASSUME CallsInv, DP!DbInv, [Next]_vars PROVE DP!DbInv'
  <1>1. [DP!DbNext]_(DP!dbVars)
    BY DbSteps
  <1>2. Installed \in [Key -> DP!Record] /\ NoConfig \notin Config
    BY TuningAssumption DEF DP!Record
  <1> QED
    BY <1>1, <1>2, DP!StepDbInv

\* What is new in the tables comes from an update in progress, and what is new
\* there is the best config of a search.
LEMMA DbChanges ==
    ASSUME CallsInv, DP!DbInv, [Next]_vars
    PROVE  /\ \A k \in Key, s \in Solver :
                 \/ perf_db'[k][s] \in {perf_db[k][s], NoConfig}
                 \/ \E h \in Handle : /\ op[h] # NoOp /\ op[h].key = k /\ op[h].id = s
                                      /\ perf_db'[k][s] = op[h].value
           /\ \A h \in Handle :
                 \/ op'[h] \in {op[h], NoOp}
                 \/ At(h, "update") /\ op'[h].key = call[h].key
                    /\ op'[h].id = Solving(h) /\ op'[h].value = call[h].best
  <1> DEFINE Tables == \A k \in Key, s \in Solver :
                 \/ perf_db'[k][s] \in {perf_db[k][s], NoConfig}
                 \/ \E h \in Handle : /\ op[h] # NoOp /\ op[h].key = k /\ op[h].id = s
                                      /\ perf_db'[k][s] = op[h].value
             Updates == \A h \in Handle :
                 \/ op'[h] \in {op[h], NoOp}
                 \/ At(h, "update") /\ op'[h].key = call[h].key
                    /\ op'[h].id = Solving(h) /\ op'[h].value = call[h].best
  <1>1. /\ perf_db \in [Key -> [Solver -> Config \cup {NoConfig}]]
        /\ op \in [Handle -> [key : Key, id : Solver, value : Config] \cup {NoOp}]
    BY DEF DP!DbInv, DP!DbTypeOK, DP!Record, DP!Op
  <1>2. ASSUME UNCHANGED dbVars PROVE Tables /\ Updates
    BY <1>2 DEF dbVars
  <1>3. ASSUME NEW h \in Handle, Db!Take(h) \/ Db!Die(h) PROVE Tables /\ Updates
    BY <1>1, <1>3 DEF Db!Take, Db!Die
  <1>4. ASSUME NEW h \in Handle, Clean(h) \/ Load(h) \/ LoadRepeats(h) \/ LoadAgain(h)
        PROVE  Tables /\ Updates
    <2>1. UNCHANGED op
      BY <1>4 DEF Clean, Load, LoadRepeats, LoadAgain, Db!Remove, Db!RemoveFails, Db!Load,
                  Db!LoadFails, Db!LoadRepeats, Db!dbVars
    <2>2. \/ UNCHANGED perf_db
          \/ perf_db' = [perf_db EXCEPT ![call[h].key] =
                             [perf_db[call[h].key] EXCEPT ![Solving(h)] = NoConfig]]
      BY <1>4 DEF Clean, Load, LoadRepeats, LoadAgain, Db!Remove, Db!RemoveFails, Db!Load,
                  Db!LoadFails, Db!LoadRepeats, Db!dbVars, Db!EraseValues
    <2> QED
      BY <1>1, <2>1, <2>2
  <1>5. ASSUME NEW h \in Handle, Update(h) PROVE Tables /\ Updates
    <2>1. CASE Db!InsertConfig(h, call[h].key, Solving(h), call[h].best)
      BY <1>1, <1>5, <2>1 DEF Db!InsertConfig, Update
    <2>2. CASE Db!InsertValue(h)
      BY <1>1, <2>2 DEF Db!InsertValue
    <2>3. CASE Db!UpdateFails(h)
      BY <1>1, <2>3 DEF Db!UpdateFails
    <2> QED
      BY <1>5, <2>1, <2>2, <2>3 DEF Update
  <1>6. ASSUME NEW h \in Handle, Cleaned(h) \/ Loaded(h) \/ Updated(h) \/ Terminate(h) \/ Crash(h)
        PROVE  Tables /\ Updates
    <2>1. Db!Take(h) \/ Db!Die(h)
      BY <1>6 DEF Cleaned, Loaded, Updated, Terminate, Crash, Dies
    <2> QED
      BY <1>3, <2>1
  <1>7. ASSUME NEW h \in Handle,
               \/ NotSearchable(h) \/ SkipLoad(h) \/ Precompile(h) \/ PrecompileFails(h)
               \/ SearchFailed(h) \/ Score(h) \/ ScoreFails(h)
               \/ Evaluate(h) \/ EvaluateFails(h) \/ PrepareInvoker(h)
               \/ \E c \in Config : Measure(h, c) \/ MeasureFails(h, c)
               \/ \E k \in Key, e \in BOOLEAN : FindConvFwdAlgorithm(h, k, e)
               \/ \E k \in Key, s \in Solver : LoadOrPrepareInvoker(h, k, s)
        PROVE  UNCHANGED dbVars
    BY <1>7 DEF NotSearchable, SkipLoad, Precompile, PrecompileFails, SearchFailed, Score,
                ScoreFails, Evaluate, EvaluateFails, PrepareInvoker, Measure, MeasureFails,
                FindConvFwdAlgorithm, LoadOrPrepareInvoker
  <1>8. ASSUME UNCHANGED vars PROVE Tables /\ Updates
    BY <1>2, <1>8 DEF vars
  <1> HIDE DEF Tables, Updates
  <1>9. Tables /\ Updates
    BY <1>2, <1>4, <1>5, <1>6, <1>7, <1>8 DEF Next, Step
  <1> QED
    BY <1>9 DEF Tables, Updates

\* What is stored, and what an update is about to store, has been measured.
LEMMA MeasuredKept ==
    ASSUME CallsInv, RestInv, MeasuredInv, DP!DbInv, [Next]_vars PROVE MeasuredInv'
  <1>1. Grows /\ ProvenType'
    BY CallsKept DEF MeasuredInv, ProvenType
  <1>2. DP!DbInv'
    BY DbKept
  <1>3. op \in [Handle -> [key : Key, id : Solver, value : Config] \cup {NoOp}]
        /\ op' \in [Handle -> [key : Key, id : Solver, value : Config] \cup {NoOp}]
    BY <1>2 DEF DP!DbInv, DP!DbTypeOK, DP!Op
  <1>4. ASSUME NEW k \in Key, NEW s \in Solver, perf_db'[k][s] # NoConfig
        PROVE  perf_db'[k][s] \in proven'[k][s]
    <2>1. proven[k][s] \subseteq proven'[k][s]
      BY <1>1 DEF Grows
    <2>2. CASE perf_db'[k][s] \in {perf_db[k][s], NoConfig}
      BY <1>4, <2>1, <2>2 DEF MeasuredInv, StoredWasMeasured
    <2>3. ASSUME NEW h \in Handle, op[h] # NoOp, op[h].key = k, op[h].id = s,
                 perf_db'[k][s] = op[h].value
          PROVE  perf_db'[k][s] \in proven'[k][s]
      BY <2>1, <2>3 DEF MeasuredInv
    <2> QED
      BY <2>2, <2>3, DbChanges
  <1>5. ASSUME NEW h \in Handle, op'[h] # NoOp
        PROVE  op'[h].value \in proven'[op'[h].key][op'[h].id]
    <2>1. CASE op'[h] = op[h]
      BY <1>1, <1>3, <1>5, <2>1 DEF MeasuredInv, Grows
    <2>2. CASE /\ At(h, "update") /\ op'[h].key = call[h].key
               /\ op'[h].id = Solving(h) /\ op'[h].value = call[h].best
      <3>1. call[h].best \in proven[call[h].key][Solving(h)]
        BY <2>2, CallFacts DEF CallInv, SearchInv, At, Solving
      <3>2. call[h].key \in Key /\ Solving(h) \in Solver
        BY <2>2, CallFacts DEF Working, At
      <3> QED
        BY <1>1, <2>2, <3>1, <3>2 DEF Grows
    <2> QED
      BY <1>5, <2>1, <2>2, DbChanges
  <1> QED
    BY <1>1, <1>4, <1>5 DEF MeasuredInv, ProvenType, StoredWasMeasured

\* Invokers are made from configs that solutions use.
LEMMA InvokersKept == ASSUME CallsInv, InvokersInv, [Next]_vars PROVE InvokersInv'
  <1>1. ASSUME NEW h \in Handle, NEW W, Register(h, W) PROVE InvokersInv'
    <2> DEFINE new == [s \in Solver |-> IF s \in W /\ invoker[h][call[h].key][s] = NoConfig
                                        THEN call[h].chosen[s]
                                        ELSE invoker[h][call[h].key][s]]
    <2>1. /\ call[h].chosen \in [Solver -> Config \cup {NoConfig}]
          /\ \A s \in Solver : call[h].chosen[s] \in Valid[h] \cup {default[h][s], NoConfig}
          /\ call[h].key \in Key
      BY CallFacts DEF CallInv, Call
    <2>2. /\ new \in [Solver -> Config \cup {NoConfig}]
          /\ \A s \in Solver : new[s] \in Valid[h] \cup {default[h][s], NoConfig}
      BY <2>1 DEF InvokersInv
    <2>3. invoker' = [invoker EXCEPT ![h] = [invoker[h] EXCEPT ![call[h].key] = new]]
      BY <1>1, <2>1 DEF Register, InvokersInv
    <2> HIDE DEF new
    <2> QED
      BY <2>1, <2>2, <2>3 DEF InvokersInv
  <1>2. ASSUME NEW h \in Handle, Dies(h) PROVE InvokersInv'
    BY <1>2 DEF Dies, InvokersInv, NothingChosen
  <1>3. CASE UNCHANGED invoker
    BY <1>3 DEF InvokersInv
  <1>4. ASSUME NEW h \in Handle,
               \/ NotSearchable(h) \/ Clean(h) \/ Cleaned(h) \/ Load(h) \/ LoadRepeats(h)
               \/ LoadAgain(h) \/ Loaded(h) \/ SkipLoad(h) \/ SearchFailed(h) \/ Update(h)
               \/ Updated(h) \/ Precompile(h) \/ PrecompileFails(h) \/ EvaluateFails(h)
               \/ Score(h) \/ ScoreFails(h)
               \/ \E c \in Config : Measure(h, c) \/ MeasureFails(h, c)
               \/ \E k \in Key, e \in BOOLEAN : FindConvFwdAlgorithm(h, k, e)
               \/ \E k \in Key, s \in Solver : LoadOrPrepareInvoker(h, k, s)
        PROVE  UNCHANGED invoker
    BY <1>4 DEF NotSearchable, Clean, Cleaned, Load, LoadRepeats, LoadAgain, Loaded, SkipLoad,
                SearchFailed, Update, Updated, Precompile, PrecompileFails, EvaluateFails, Score,
                ScoreFails, Measure, MeasureFails, FindConvFwdAlgorithm, LoadOrPrepareInvoker,
                localVars
  <1>5. ASSUME NEW h \in Handle, Evaluate(h) \/ PrepareInvoker(h) PROVE InvokersInv'
    BY <1>1, <1>3, <1>5 DEF Evaluate, PrepareInvoker
  <1>6. ASSUME NEW h \in Handle, Terminate(h) \/ Crash(h) PROVE InvokersInv'
    BY <1>2, <1>6 DEF Terminate, Crash
  <1>7. CASE UNCHANGED vars
    BY <1>3, <1>7 DEF vars
  <1> QED
    BY <1>3, <1>4, <1>5, <1>6, <1>7 DEF Next, Step

------------------------------------------------------------------------------
(* The theorems.                                                            *)

\* The initial states satisfy the invariant.
LEMMA InitIInv == Init => IInv
  <1> SUFFICES ASSUME Init PROVE IInv
    OBVIOUS
  <1>1. DP!DbInit
    BY DEF Init, Db!DbInit, DP!DbInit, Db!EmptyRecord, DP!EmptyRecord
  <1>2. DP!DbInv
    BY <1>1, TuningAssumption, DP!InitDbInv
  <1>3. CallsInv
    BY IdleFacts, IdleInv DEF Init, CallsInv
  <1>4. MeasuredInv
    BY TuningAssumption DEF Init, Db!DbInit, Db!EmptyRecord, MeasuredInv, StoredWasMeasured
  <1>5. InvokersInv
    BY DEF Init, InvokersInv, NothingChosen
  <1>6. RestInv
    BY TuningAssumption DEF Init, RestInv
  <1> QED
    BY <1>2, <1>3, <1>4, <1>5, <1>6 DEF IInv

\* Every step keeps it.
LEMMA StepIInv == IInv /\ [Next]_vars => IInv'
  BY CallsKept, RestKept, DbKept, MeasuredKept, InvokersKept DEF IInv, MeasuredInv, ProvenType

\* The invariant holds in every reachable state.
LEMMA Invariance == Spec => []IInv
  BY InitIInv, StepIInv, PTL DEF Spec

\* Every variable keeps its type.
THEOREM TypeCorrect == Spec => []TypeOK
  <1>1. IInv => TypeOK
    BY DEF IInv, TypeOK, CallsInv, MeasuredInv, InvokersInv, RestInv, DP!DbInv, DP!DbTypeOK,
           Db!DbTypeOK, DP!Record, Db!Record, DP!Op, Db!Op, DP!Statuses, Db!Statuses
  <1> QED
    BY <1>1, Invariance, PTL

\* No value of the performance database is without its problem, whoever fails
\* or dies between the statements of an update.
THEOREM ProblemsFirst == Spec => []ValuesHaveProblems
  <1>1. IInv => ValuesHaveProblems
    BY DEF IInv, ValuesHaveProblems, Db!ValuesHaveProblems, DP!DbInv, DP!ValuesHaveProblems,
           DP!EmptyRecord, Db!EmptyRecord
  <1> QED
    BY <1>1, Invariance, PTL

\* A process uses no config that is not valid for it, whoever wrote it.
THEOREM OnlyUsable == Spec => []SolutionsAreUsable
  <1>1. IInv => SolutionsAreUsable
    BY DEF IInv, SolutionsAreUsable, CallsInv, CallInv, InvokersInv
  <1> QED
    BY <1>1, Invariance, PTL

\* Nothing gets into the user's database that no search has measured.
THEOREM OnlyMeasured == Spec => []StoredWasMeasured
  <1>1. IInv => StoredWasMeasured
    BY DEF IInv, MeasuredInv
  <1> QED
    BY <1>1, Invariance, PTL

\* A search keeps the fastest of the configs that it has measured.
THEOREM KeepsBest == Spec => []BestIsBest
  <1>1. ASSUME IInv, NEW h \in Handle PROVE
          LET passed == {c \in Config : call[h].average[c] # 0} IN
          /\ call[h].best \in passed \cup {NoConfig}
          /\ \A c \in passed : call[h].best # NoConfig
                               /\ call[h].average[call[h].best] <= call[h].average[c]
    BY <1>1, CallFacts DEF IInv, CallInv, SearchInv
  <1>2. IInv => BestIsBest
    BY <1>1 DEF BestIsBest
  <1> QED
    BY <1>2, Invariance, PTL

\* While configs are measured nothing is left to compile.
THEOREM AllCompiled == Spec => []Precompiled
  <1>1. IInv => Precompiled
    BY DEF IInv, Precompiled, CallsInv, CallInv, At
  <1> QED
    BY <1>1, Invariance, PTL

\* A step changes the call of one handle, and ends its search or measures.
LEMMA OneCall ==
    ASSUME call \in [Handle -> Call], NEW h \in Handle, Step(h) \/ LoadAgain(h) \/ Crash(h)
    PROVE  /\ \A g \in Handle \ {h} : call'[g] = call[g]
           /\ \/ ~ (At(h, "measure") /\ At(h, "measure")')
              \/ \E c \in Config : Measure(h, c) \/ MeasureFails(h, c)
  <1> DEFINE Others == \A g \in Handle \ {h} : call'[g] = call[g]
             Ends   == ~ (At(h, "measure") /\ At(h, "measure")')
  <1> USE DEF At
  <1>1. ASSUME NEW c, Chooses(h, c) PROVE Others /\ Ends
    BY <1>1 DEF Chooses
  <1>2. ASSUME Drops(h), At(h, "clean") \/ At(h, "load") PROVE Others /\ Ends
    BY <1>2 DEF Drops
  <1>3. ASSUME StartsSearch(h) PROVE Others /\ Ends
    BY <1>3 DEF StartsSearch
  <1>4. ASSUME NEW l, Goto(h, l), l # "measure" \/ At(h, "precompile") PROVE Others /\ Ends
    BY <1>4 DEF Goto
  <1>5. ASSUME call' = [call EXCEPT ![h] = Idle] PROVE Others /\ Ends
    BY <1>5, IdleFacts
  <1>6. ASSUME NEW c \in Config, Measure(h, c) \/ MeasureFails(h, c) PROVE Others
    BY <1>6 DEF Measure, MeasureFails, MeasuredAs
  <1>7. CASE NotSearchable(h) \/ Cleaned(h) \/ Loaded(h) \/ SearchFailed(h) \/ ScoreFails(h)
             \/ Updated(h) \/ SkipLoad(h) \/ PrecompileFails(h)
    BY <1>1, <1>2, <1>3, <1>7 DEF NotSearchable, Cleaned, Loaded, SearchFailed, ScoreFails,
       Updated, SkipLoad, PrecompileFails, ChoosesDefault
  <1>8. CASE Clean(h) \/ Load(h) \/ LoadRepeats(h) \/ LoadAgain(h) \/ Precompile(h) \/ Score(h)
    BY <1>4, <1>8 DEF Clean, Load, LoadRepeats, LoadAgain, Precompile, Score
  <1>9. CASE Evaluate(h) \/ EvaluateFails(h) \/ PrepareInvoker(h) \/ Terminate(h) \/ Crash(h)
    BY <1>5, <1>9 DEF Evaluate, EvaluateFails, PrepareInvoker, Terminate, Crash, Dies
  <1>10. CASE Update(h)
    BY <1>10 DEF Update
  <1> QED
    BY <1>6, <1>7, <1>8, <1>9, <1>10 DEF Step

\* Who measures a config lets its programs go.
LEMMA LetsGo ==
    ASSUME call \in [Handle -> Call], loaded \in [Handle -> SUBSET Program],
           NEW h \in Handle, NEW c \in Config, Measure(h, c) \/ MeasureFails(h, c)
    PROVE  c \in call[h].rest \ call'[h].rest /\ loaded'[h] \subseteq loaded[h] \ programs[c]
  <1>1. c \in call[h].rest /\ \E time \in Time \cup {0} : MeasuredAs(h, c, time)
    BY DEF Measure, MeasureFails
  <1>2. call'[h].rest = call[h].rest \ {c}
    BY <1>1 DEF MeasuredAs, Call
  <1>3. loaded'[h] = loaded[h] \ programs[c]
    BY DEF Measure, MeasureFails, Measured, Keeps
  <1> QED
    BY <1>1, <1>2, <1>3

\* The programs that a handle holds do not grow with the configs it tries.
THEOREM HoldsNoMore == Spec => NothingAccumulates
  <1>1. ASSUME IInv, [Next]_vars, NEW h \in Handle, At(h, "measure"), At(h, "measure")'
        PROVE  \/ call'[h] = call[h]
               \/ \E c \in call[h].rest \ call'[h].rest :
                      loaded'[h] \subseteq loaded[h] \ programs[c]
    <2>1. call \in [Handle -> Call] /\ loaded \in [Handle -> SUBSET Program]
      BY <1>1 DEF IInv, CallsInv, RestInv
    <2>2. ASSUME NEW g \in Handle, Step(g) \/ LoadAgain(g) \/ Crash(g)
          PROVE  \/ call'[h] = call[h]
                 \/ \E c \in Config : Measure(h, c) \/ MeasureFails(h, c)
      BY <1>1, <2>1, <2>2, OneCall
    <2>3. ASSUME NEW g \in Handle, NEW k \in Key, NEW e \in BOOLEAN,
                 FindConvFwdAlgorithm(g, k, e)
          PROVE  call'[h] = call[h]
      BY <1>1, <2>1, <2>3 DEF FindConvFwdAlgorithm, At
    <2>4. ASSUME NEW g \in Handle, NEW k \in Key, NEW s \in Solver, LoadOrPrepareInvoker(g, k, s)
          PROVE  call'[h] = call[h]
      BY <1>1, <2>1, <2>4 DEF LoadOrPrepareInvoker, At
    <2>5. ASSUME UNCHANGED vars PROVE call'[h] = call[h]
      BY <2>5 DEF vars
    <2>6. \/ call'[h] = call[h]
          \/ \E c \in Config : Measure(h, c) \/ MeasureFails(h, c)
      BY <1>1, <2>2, <2>3, <2>4, <2>5 DEF Next
    <2> QED
      BY <2>1, <2>6, LetsGo
  <1> DEFINE Act == \A h \in Handle : At(h, "measure") /\ At(h, "measure")' =>
          \/ call'[h] = call[h]
          \/ \E c \in call[h].rest \ call'[h].rest :
                loaded'[h] \subseteq loaded[h] \ programs[c]
  <1>2. IInv /\ [Next]_vars => [Act]_vars
    BY <1>1
  <1> HIDE DEF Act
  <1>3. Spec => [][Act]_vars
    BY <1>2, Invariance, PTL DEF Spec
  <1> QED
    BY <1>3 DEF NothingAccumulates, Act

\* A search, with all that may fail, uses the performance database as PerfDb
\* describes it, and through it the abstract store of values.
THEOREM Refinement == Spec => ImplementsValueStore
  <1>1. Init => DP!DbInit
    BY DEF Init, Db!DbInit, DP!DbInit, Db!EmptyRecord, DP!EmptyRecord
  <1>2. IInv /\ [Next]_vars => [DP!DbNext]_(DP!dbVars)
    BY DbSteps DEF IInv
  <1>3. Spec => DP!DbSpec
    BY <1>1, <1>2, Invariance, PTL DEF Spec, DP!DbSpec
  <1>4. DP!InstalledRecords /\ NoConfig \notin Config
    BY TuningAssumption DEF DP!InstalledRecords, DP!Record
  <1>5. DP!DbSpec => DP!ImplementsValueStore
    BY <1>4, DP!Refinement
  <1>6. DP!ImplementsValueStore => ImplementsValueStore
    <2> USE DEF DP!UserRecord, Db!UserRecord, DP!EmptyRecord, Db!EmptyRecord
    <2>1. DP!Store!Init => Db!Store!Init
      BY DEF DP!Store!Init, Db!Store!Init, DP!Store!EmptyRecord, Db!Store!EmptyRecord
    <2>2. [DP!Store!Next]_(DP!Store!vars) => [Db!Store!Next]_(Db!Store!vars)
      BY DEF DP!Store!Next, Db!Store!Next, DP!Store!vars, Db!Store!vars,
         DP!Store!Load, Db!Store!Load, DP!Store!Remove, Db!Store!Remove, DP!Store!Update,
         Db!Store!Update, DP!Store!Fail, Db!Store!Fail, DP!Store!Return, Db!Store!Return,
         DP!Store!Answers, Db!Store!Answers, DP!Store!Answer, Db!Store!Answer,
         DP!Store!Set, Db!Store!Set, DP!Store!Preferred, Db!Store!Preferred
    <2> QED
      BY <2>1, <2>2, PTL DEF DP!ImplementsValueStore, ImplementsValueStore,
         Db!ImplementsValueStore, DP!Store!Spec, Db!Store!Spec
  <1> QED
    BY <1>3, <1>5, <1>6
===============================================================================
