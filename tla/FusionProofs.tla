----------------------------- MODULE FusionProofs -----------------------------
(* What holds of Fusion for any graph of the library, any plans and any      *)
(* kernels that cannot be built.                                             *)
EXTENDS Fusion, FiniteSetTheorems, WellFoundedInduction, SequenceTheorems, TLAPS

------------------------------------------------------------------------------
(* The invariant.                                                           *)

\* Handles of one kind of device.
OneDevice == \A g, h \in Handle : supported[g] = supported[h] /\ applicable[g] = applicable[h]

\* Route q is one for the operators ops.
Follows(q, ops) == DOMAIN q = DOMAIN ops /\ \A n \in DOMAIN q : opOf[q[n]] = kind[ops[n]]

\* A solver does for the operators ops on handle h.
Does(s, h, ops) == s = NoSolver \/ s \in applicable[h][ops[1]]

\* Path e came along route q.
CameAlong(e, q) == e.vertex = End(q) /\ e.solver = SolverOn(q) /\ e.weight \in WeightsOn(q)

\* The list of a plan with the operators ops.
PathsInv(ops, paths) ==
    /\ Len(ops) <= MaxOps
    /\ ops = <<>> => paths = Empty
    /\ ops # <<>> => \A n \in DOMAIN paths :
                        \E q \in Route : Follows(q, ops) /\ CameAlong(paths[n], q)
    /\ \A m, n \in DOMAIN paths : m < n => paths[m].weight >= paths[n].weight

\* A kernel was made for a path that has a solution.
MadeFor(k, h) ==
    \E q \in Route : /\ Follows(q, k.config.ops) /\ k.vertex = End(q)
                     /\ Does(SolverOn(q), h, k.config.ops)

\* A plan without operators has not been compiled.
NewInv(p) ==
    op_map[p] = <<>> => /\ ~ is_valid[p] /\ ~ kernel_info_valid[p]
                        /\ conv_algo_set[p] = {} /\ compiled[p] = {}

\* The kernel caches.
CachesInv ==
    /\ kernel_map = [h \in Handle |-> kernel_map[h]]
    /\ \A h \in Handle :
          /\ DOMAIN kernel_map[h] \subseteq Key
          /\ \A key \in DOMAIN kernel_map[h] :
                /\ kernel_map[h][key] \in Seq(Kernel) /\ Len(kernel_map[h][key]) = 1
                /\ MadeFor(kernel_map[h][key][1], h)
    /\ KernelsAreSound

SafeInv ==
    /\ TypeOK /\ CachesInv
    /\ \A p \in Plan : PathsInv(op_map[p], cur_vertex[p]) /\ NewInv(p)

\* Once its convolution is solved, a plan is for a device with all its paths or
\* with none.
SolvedInv(p, h) == kernel_info_valid[p] => Supported(p, h) \in {{}, DOMAIN cur_vertex[p]}

VertexInv == SafeInv /\ \A p \in Plan, h \in Handle : SolvedInv(p, h)

\* What Compile leaves for Execute.
CompiledInv(p, h) ==
    /\ Usable(p, h) /\ KernelsOf(p, h, GetCurVertex(p, h)) # <<>>
    /\ algorithm_name[p] = algorithm[GetCurVertex(p, h)]
    /\ network_config[p] = GetNetworkConfig(p)
    /\ arg_list[p] = [layout |-> layout[GetCurVertex(p, h)], ops |-> op_map[p]]

\* No path was dropped yet.
Full(p) ==
    \A q \in Route : Follows(q, op_map[p]) => \A x \in WeightsOn(q) :
        [vertex |-> End(q), weight |-> x, solver |-> SolverOn(q)] \in Range(cur_vertex[p])

\* Those that were dropped are no heavier, or not for this device.
Narrowed(p, h) ==
    \A n \in DOMAIN cur_vertex[p] :
        /\ cur_vertex[p][n].vertex \in supported[h]
        /\ Does(cur_vertex[p][n].solver, h, op_map[p])
        /\ \A q \in Route : Follows(q, op_map[p]) /\ End(q) \in supported[h]
                            /\ Does(SolverOn(q), h, op_map[p])
              => \A x \in WeightsOn(q) : x <= cur_vertex[p][n].weight

BestInv(p, h) ==
    ~ requested[p] /\ op_map[p] # <<>> => Full(p) \/ Narrowed(p, h)

IInv ==
    /\ SafeInv
    /\ \A p \in Plan : \A h \in compiled[p] : CompiledInv(p, h)
    /\ \A p \in Plan, h \in Handle : BestInv(p, h)

------------------------------------------------------------------------------
(* Sums and smallest elements.  The induction theorems of the library take   *)
(* an operator; a smallest counterexample does without.                      *)

\* A set of natural numbers that is not empty has a least element.
LEMMA NatMin ==
    ASSUME NEW S \in SUBSET Nat, S # {} PROVE \E n \in S : \A m \in S : n <= m
  <1> DEFINE R == OpToRel(<, Nat)
  <1>1. IsWellFoundedOn(R, Nat)
    BY NatLessThanWellFounded
  <1>2. PICK x \in S : \A y \in S : ~(<<y, x>> \in R)
    <2> HIDE DEF R
    <2> QED
      BY <1>1, WFMin
  <1>3. \A y \in S : ~ (y < x)
    BY <1>2 DEF OpToRel
  <1> QED
    BY <1>3

\* f sums up the elements of s at the places in any set.
Adds(f, s, D) ==
    f = [T \in SUBSET D |-> IF T = {} THEN 0
                            ELSE s[CHOOSE x \in T : TRUE] + f[T \ {CHOOSE x \in T : TRUE}]]

\* There is such a function for a finite set: the least size for which there is
\* none would be one more than a size for which there is one.
LEMMA SumsExist ==
    ASSUME NEW D, IsFiniteSet(D), NEW s PROVE \E f : Adds(f, s, D)
  <1> DEFINE Rest(T) == T \ {CHOOSE x \in T : TRUE}
             SumIn(f, T) == IF T = {} THEN 0 ELSE s[CHOOSE x \in T : TRUE] + f[Rest(T)]
             Good(f, k) == \A T \in SUBSET D : Cardinality(T) <= k => f[T] = SumIn(f, T)
             Bad == {k \in Nat : ~ \E f : Good(f, k)}
  <1>1. \A T \in SUBSET D : /\ IsFiniteSet(T) /\ Cardinality(T) \in Nat
                            /\ T # {} => /\ Rest(T) \in SUBSET D
                                         /\ Cardinality(Rest(T)) = Cardinality(T) - 1
    <2> TAKE T \in SUBSET D
    <2>1. IsFiniteSet(T) /\ Cardinality(T) \in Nat
      BY FS_Subset, FS_CardinalityType
    <2>2. ASSUME T # {} PROVE Cardinality(Rest(T)) = Cardinality(T) - 1
      <3>1. (CHOOSE x \in T : TRUE) \in T
        BY <2>2
      <3> QED
        BY <2>1, <3>1, FS_RemoveElement
    <2> QED
      BY <2>1, <2>2
  <1>2. Bad = {}
    <2> SUFFICES ASSUME Bad # {} PROVE FALSE
      OBVIOUS
    <2>1. PICK b \in Bad : \A k \in Bad : b <= k
      <3>1. Bad \in SUBSET Nat
        OBVIOUS
      <3> HIDE DEF Bad
      <3> QED
        BY <3>1, NatMin
    <2> b \in Nat
      BY <2>1
    <2>2. CASE b = 0
      <3> DEFINE f == [T \in SUBSET D |-> 0]
      <3>1. \A T \in SUBSET D : Cardinality(T) <= b => T = {}
        <4> TAKE T \in SUBSET D
        <4> HAVE Cardinality(T) <= b
        <4>1. IsFiniteSet(T) /\ Cardinality(T) \in Nat
          BY <1>1
        <4>2. Cardinality(T) = 0
          BY <4>1, <2>2
        <4> QED
          BY <4>1, <4>2, FS_EmptySet
      <3>2. Good(f, b)
        BY <3>1
      <3> QED
        BY <3>2
    <2>3. CASE b # 0
      <3>1. b - 1 \in Nat /\ b - 1 \notin Bad
        <4>1. b - 1 \in Nat /\ b - 1 < b
          BY <2>3
        <4> HIDE DEF Bad
        <4> QED
          BY <2>1, <4>1
      <3>2. PICK f : Good(f, b - 1)
        BY <3>1
      <3> DEFINE g == [T \in SUBSET D |-> SumIn(f, T)]
      <3>3. \A T \in SUBSET D : Cardinality(T) <= b => SumIn(f, T) = SumIn(g, T)
        <4> TAKE T \in SUBSET D
        <4> HAVE Cardinality(T) <= b
        <4>1. CASE T = {}
          BY <4>1
        <4>2. CASE T # {}
          <5>1. Rest(T) \in SUBSET D /\ Cardinality(Rest(T)) <= b - 1
            <6>1. Cardinality(T) \in Nat /\ Cardinality(T) <= b
              BY <1>1
            <6>2. Rest(T) \in SUBSET D /\ Cardinality(Rest(T)) = Cardinality(T) - 1
              BY <1>1, <4>2
            <6> HIDE DEF Rest
            <6> QED
              BY <6>1, <6>2
          <5>2. f[Rest(T)] = SumIn(f, Rest(T))
            BY <3>2, <5>1
          <5>3. g[Rest(T)] = SumIn(f, Rest(T))
            BY <5>1
          <5> QED
            BY <5>2, <5>3
        <4> QED
          BY <4>1, <4>2
      <3>4. Good(g, b)
        BY <3>3
      <3> QED
        BY <3>4
    <2> QED
      BY <2>2, <2>3
  <1>3. PICK f : Good(f, Cardinality(D))
    <2>1. Cardinality(D) \in Nat /\ Cardinality(D) \notin Bad
      BY <1>2, FS_CardinalityType
    <2> QED
      BY <2>1
  <1>4. \A T \in SUBSET D : Cardinality(T) <= Cardinality(D)
    BY FS_Subset
  <1> DEFINE h == [T \in SUBSET D |-> f[T]]
  <1>5. \A T \in SUBSET D : h[T] = SumIn(h, T)
    <2> TAKE T \in SUBSET D
    <2>1. f[T] = SumIn(f, T)
      BY <1>3, <1>4
    <2>2. T # {} => h[Rest(T)] = f[Rest(T)]
      OBVIOUS
    <2> QED
      BY <2>1, <2>2
  <1>6. Adds(h, s, D)
    <2>1. h = [T \in SUBSET D |-> SumIn(h, T)]
      BY <1>5
    <2> QED
      BY <2>1 DEF Adds
  <1> QED
    BY <1>6

\* A sum of natural numbers is one, a sum of zeros is zero.
LEMMA SumType ==
    ASSUME NEW D, IsFiniteSet(D), NEW s, \A x \in D : s[x] \in Nat, NEW f, Adds(f, s, D)
    PROVE  /\ f[D] \in Nat
           /\ (\A x \in D : s[x] = 0) => f[D] = 0
  <1> DEFINE Rest(T) == T \ {CHOOSE x \in T : TRUE}
             Ok(T) == f[T] \in Nat /\ ((\A x \in D : s[x] = 0) => f[T] = 0)
             Bad == {k \in Nat : \E T \in SUBSET D : Cardinality(T) = k /\ ~ Ok(T)}
  <1>1. Bad = {}
    <2> SUFFICES ASSUME Bad # {} PROVE FALSE
      OBVIOUS
    <2>1. PICK b \in Bad : \A k \in Bad : b <= k
      <3>1. Bad \in SUBSET Nat
        OBVIOUS
      <3> HIDE DEF Bad
      <3> QED
        BY <3>1, NatMin
    <2>2. PICK T \in SUBSET D : Cardinality(T) = b /\ ~ Ok(T)
      BY <2>1
    <2>3. CASE T = {}
      BY <2>2, <2>3 DEF Adds
    <2>4. CASE T # {}
      <3> DEFINE x == CHOOSE x \in T : TRUE
      <3>1. x \in T /\ x \in D
        BY <2>4
      <3>2. IsFiniteSet(T)
        BY FS_Subset
      <3>3. Cardinality(Rest(T)) = b - 1 /\ b \in Nat /\ b - 1 \in Nat
        <4>1. Cardinality(T) = b /\ b \in Nat
          BY <2>2
        <4>2. Cardinality(Rest(T)) = Cardinality(T) - 1 /\ Cardinality(Rest(T)) \in Nat
          BY <3>1, <3>2, FS_RemoveElement, FS_CardinalityType
        <4> HIDE DEF Rest, Bad
        <4> QED
          BY <4>1, <4>2
      <3>4. Ok(Rest(T))
        <4>1. b - 1 \notin Bad
          BY <2>1, <3>3
        <4> QED
          BY <3>3, <4>1
      <3>5. f[T] = s[x] + f[Rest(T)]
        BY <2>4 DEF Adds
      <3> QED
        BY <2>2, <3>1, <3>4, <3>5
    <2> QED
      BY <2>3, <2>4
  <1>2. Cardinality(D) \in Nat /\ D \in SUBSET D
    BY FS_CardinalityType
  <1> QED
    BY <1>1, <1>2

\* The same, for the fold by which Fusion adds up weights.
LEMMA SumOfSeq ==
    ASSUME NEW s \in Seq(Nat)
    PROVE  /\ Total(s) \in Nat
           /\ (\A n \in DOMAIN s : s[n] = 0) => Total(s) = 0
  <1> DEFINE g == CHOOSE f : Adds(f, s, DOMAIN s)
  <1>1. IsFiniteSet(DOMAIN s) /\ \A n \in DOMAIN s : s[n] \in Nat
    BY FS_Interval
  <1>2. Adds(g, s, DOMAIN s)
    BY <1>1, SumsExist
  <1>3. Total(s) = g[DOMAIN s]
    BY DEF Total, FoldSeq, FoldFunction, FoldFunctionOnSet, MapThenFoldSet, Adds
  <1> HIDE DEF g
  <1>4. /\ g[DOMAIN s] \in Nat
        /\ (\A x \in DOMAIN s : s[x] = 0) => g[DOMAIN s] = 0
    BY <1>1, <1>2, SumType
  <1> QED
    BY <1>3, <1>4

------------------------------------------------------------------------------
(* Lists.                                                                   *)

\* The least of some natural numbers.
LEMMA FirstOfPlaces ==
    ASSUME NEW S \in SUBSET Nat, S # {}
    PROVE  FirstOf(S) \in S /\ \A n \in S : FirstOf(S) <= n
  BY NatMin DEF FirstOf

\* The largest of some places in a list.
LEMMA LastOfPlaces ==
    ASSUME NEW k \in Nat, NEW S \in SUBSET (1 .. k), S # {}
    PROVE  LastOf(S) \in S /\ \A n \in S : n <= LastOf(S)
  <1> DEFINE above == {n \in Nat : \A m \in S : m <= n}
  <1>1. PICK x \in above : \A n \in above : x <= n
    <2>1. above \in SUBSET Nat /\ k \in above
      OBVIOUS
    <2> HIDE DEF above
    <2> QED
      BY <2>1, NatMin
  <1>2. x \in S
    <2>1. SUFFICES ASSUME x \notin S PROVE x - 1 \in above
      BY <1>1
    <2>2. PICK n \in S : TRUE
      OBVIOUS
    <2>3. x \in Nat /\ \A m \in S : m \in Nat /\ m <= x /\ m # x /\ m >= 1
      BY <1>1, <2>1
    <2> QED
      BY <2>2, <2>3
  <1>3. \A n \in S : n <= x
    BY <1>1
  <1> HIDE DEF above
  <1> QED
    BY <1>2, <1>3 DEF LastOf

\* What is in a list of a finite set.
LEMMA ListOfSet ==
    ASSUME NEW S, IsFiniteSet(S), NEW q \in SetToSeqs(S)
    PROVE  /\ q \in Seq(S) /\ DOMAIN q = 1 .. Cardinality(S)
           /\ \A n \in DOMAIN q : q[n] \in S
           /\ \A x \in S : \E n \in DOMAIN q : q[n] = x
           /\ S # {} => q # <<>>
  <1> DEFINE c == Cardinality(S)
  <1>1. c \in Nat
    BY FS_CardinalityType
  <1>2. q \in [1 .. c -> S] /\ \A m, n \in 1 .. c : m # n => q[m] # q[n]
    BY DEF SetToSeqs
  <1>3. q \in Injection(1 .. c, S)
    BY <1>2 DEF Injection, IsInjective
  <1>4. Cardinality(1 .. c) = c
    BY <1>1, FS_Interval
  <1>5. q \in Surjection(1 .. c, S)
    BY <1>3, <1>4, FS_Injection
  <1>6. \A x \in S : \E n \in DOMAIN q : q[n] = x
    BY <1>2, <1>5 DEF Surjection
  <1>7. S # {} => q # <<>>
    <2>1. SUFFICES ASSUME NEW x \in S, q = <<>> PROVE FALSE
      OBVIOUS
    <2>2. \E n \in DOMAIN q : TRUE
      BY <1>6
    <2> QED
      BY <2>1, <2>2
  <1> QED
    BY <1>1, <1>2, <1>6, <1>7

------------------------------------------------------------------------------
(* Paths.                                                                   *)

\* What an edge adds to a weight.
LEMMA WeightAfterType ==
    ASSUME NEW u \in Vertex \cup {Root}, NEW v \in Vertex, NEW n \in DOMAIN weights[u][v]
    PROVE  /\ WeightAfter(u, v, n) \in Nat
           /\ u \in Vertex => WeightAfter(u, v, n) = 0
  <1> DEFINE t == SubSeq(weights[u][v], 1, n)
  <1>1. weights[u][v] \in Seq(Nat)
    BY FusionAssumption
  <1>2. n \in 1 .. Len(weights[u][v])
    BY <1>1
  <1>3. /\ t \in Seq(Nat) /\ Len(t) = n
        /\ \A m \in 1 .. n : t[m] = weights[u][v][m]
    BY <1>1, <1>2, SubSeqProperties
  <1>4. ASSUME u \in Vertex PROVE \A m \in DOMAIN t : t[m] = 0
    <2>1. weights[u][v] # <<>>
      BY <1>1, <1>2
    <2> QED
      BY <1>1, <1>2, <1>3, <1>4, <2>1, LibraryEdges
  <1> HIDE DEF t
  <1>5. WeightAfter(u, v, n) = Total(t)
    BY DEF WeightAfter, t
  <1>6. Total(t) \in Nat /\ ((\A m \in DOMAIN t : t[m] = 0) => Total(t) = 0)
    BY <1>3, SumOfSeq
  <1> QED
    BY <1>4, <1>5, <1>6

\* The paths that Advance extends: each comes from one in the list.
LEMMA AdvanceElement ==
    ASSUME NEW paths, NEW o, NEW e
    PROVE  e \in Advance(paths, o) <=>
               \E n \in DOMAIN paths, v \in Vertex :
                   /\ opOf[v] = kind[o]
                   /\ \E m \in DOMAIN weights[paths[n].vertex][v] : e = Extend(paths[n], o, v, m)
  BY DEF Advance

\* It ends at a vertex.
LEMMA AdvanceEnds ==
    ASSUME NEW paths, NEW o, NEW e \in Advance(paths, o) PROVE e.vertex \in Vertex
  <1>1. PICK n \in DOMAIN paths, v \in Vertex :
            \E m \in DOMAIN weights[paths[n].vertex][v] : e = Extend(paths[n], o, v, m)
    BY AdvanceElement
  <1> QED
    BY <1>1 DEF Extend

\* What an edge makes of a path is one.
LEMMA ExtendType ==
    ASSUME NEW e \in Path, NEW o \in Op, NEW v \in Vertex,
           NEW m \in DOMAIN weights[e.vertex][v]
    PROVE  Extend(e, o, v, m) \in Path
  <1>1. WeightAfter(e.vertex, v, m) \in Nat
    BY WeightAfterType DEF Path
  <1> QED
    BY <1>1, FusionAssumption DEF Extend, Path

\* The extended paths are paths.
LEMMA AdvanceType ==
    ASSUME NEW paths \in Seq(Path), NEW o \in Op
    PROVE  Advance(paths, o) \subseteq Path
  <1> SUFFICES ASSUME NEW e \in Advance(paths, o) PROVE e \in Path
    OBVIOUS
  <1>1. PICK n \in DOMAIN paths, v \in Vertex :
            \E m \in DOMAIN weights[paths[n].vertex][v] : e = Extend(paths[n], o, v, m)
    BY AdvanceElement
  <1>2. paths[n] \in Path
    OBVIOUS
  <1> QED
    BY <1>1, <1>2, ExtendType

\* There are finitely many.
LEMMA AdvanceFinite ==
    ASSUME NEW paths \in Seq(Path), NEW o \in Op
    PROVE  IsFiniteSet(Advance(paths, o))
  <1> DEFINE W           == {w \in Vertex : opOf[w] = kind[o]}
             along(n, v) ==
                 {Extend(paths[n], o, v, m) : m \in DOMAIN weights[paths[n].vertex][v]}
             from(n)     == UNION {along(n, v) : v \in W}
  <1>1. ASSUME NEW n \in DOMAIN paths, NEW v \in W PROVE IsFiniteSet(along(n, v))
    <2> DEFINE D == DOMAIN weights[paths[n].vertex][v]
               f == [m \in D |-> Extend(paths[n], o, v, m)]
    <2>1. IsFiniteSet(D)
      <3>1. paths[n] \in Path /\ v \in Vertex
        OBVIOUS
      <3>2. paths[n].vertex \in Vertex \cup {Root}
        BY <3>1 DEF Path
      <3>3. weights[paths[n].vertex][v] \in Seq(Nat)
        BY <3>1, <3>2, FusionAssumption
      <3> QED
        BY <3>3, FS_Interval
    <2>2. f \in Surjection(D, along(n, v))
      BY DEF Surjection
    <2> HIDE DEF D, f, along
    <2> QED
      BY <2>1, <2>2, FS_Surjection
  <1>2. ASSUME NEW n \in DOMAIN paths PROVE IsFiniteSet(from(n))
    <2> DEFINE T == {along(n, v) : v \in W}
               f == [v \in W |-> along(n, v)]
    <2>1. IsFiniteSet(W)
      BY FS_Subset, FusionAssumption
    <2>2. f \in Surjection(W, T)
      <3> HIDE DEF W, along
      <3> QED
        BY DEF Surjection
    <2>3. \A U \in T : IsFiniteSet(U)
      BY <1>1
    <2>4. IsFiniteSet(T)
      <3> HIDE DEF W, T, f
      <3> QED
        BY <2>1, <2>2, FS_Surjection
    <2> HIDE DEF T
    <2> QED
      BY <2>3, <2>4, FS_UNION DEF T
  <1> DEFINE all == {from(n) : n \in DOMAIN paths}
  <1>3. IsFiniteSet(all)
    <2> DEFINE D == DOMAIN paths
               f == [n \in D |-> from(n)]
    <2>1. IsFiniteSet(D)
      BY FS_Interval
    <2>2. f \in Surjection(D, all)
      <3> HIDE DEF from
      <3> QED
        BY DEF Surjection
    <2> HIDE DEF D, all, f
    <2> QED
      BY <2>1, <2>2, FS_Surjection
  <1>4. \A T \in all : IsFiniteSet(T)
    BY <1>2
  <1>5. Advance(paths, o) = UNION all
    BY DEF Advance
  <1> HIDE DEF all
  <1> QED
    BY <1>3, <1>4, <1>5, FS_UNION

\* The list after an operator: it holds the extended paths and no others, the
\* heaviest first.
LEMMA SortedList ==
    ASSUME NEW paths \in Seq(Path), NEW o \in Op, NEW q \in Sorted(Advance(paths, o))
    PROVE  /\ q \in Seq(Path)
           /\ \A n \in DOMAIN q : q[n] \in Advance(paths, o)
           /\ \A e \in Advance(paths, o) : \E n \in DOMAIN q : q[n] = e
           /\ \A m, n \in DOMAIN q : m < n => q[m].weight >= q[n].weight
           /\ Advance(paths, o) # {} => q # <<>>
  <1> DEFINE S == Advance(paths, o)
  <1>1. q \in SetToSeqs(S) /\ \A m, n \in DOMAIN q : m < n => q[m].weight >= q[n].weight
    BY DEF Sorted
  <1>2. IsFiniteSet(S) /\ S \subseteq Path
    BY AdvanceFinite, AdvanceType
  <1> HIDE DEF S
  <1>3. q \in Seq(S)
    BY <1>1, <1>2, ListOfSet
  <1>4. q \in Seq(Path)
    BY <1>2, <1>3
  <1> QED
    BY <1>1, <1>2, <1>4, ListOfSet DEF S

------------------------------------------------------------------------------
(* Routes.                                                                  *)

\* What a route is made of.
LEMMA RouteFacts ==
    ASSUME NEW q \in Route
    PROVE  /\ q \in Seq(Vertex) /\ Len(q) \in 1 .. MaxOps /\ DOMAIN q = 1 .. Len(q)
           /\ q[1] \in Vertex /\ End(q) \in Vertex
           /\ SolverOn(q) \in Solver \cup {NoSolver} /\ WeightsOn(q) \subseteq Nat
           /\ weights[Root][q[1]] # <<>>
           /\ \A n \in 2 .. Len(q) : weights[q[n - 1]][q[n]] # <<>>
  <1>1. PICK k \in 1 .. MaxOps : q \in [1 .. k -> Vertex]
    BY DEF Route
  <1>2. MaxOps \in Nat
    BY FusionAssumption
  <1>3. q \in Seq(Vertex) /\ Len(q) = k /\ DOMAIN q = 1 .. Len(q)
    BY <1>1, <1>2
  <1>4. q[1] \in Vertex /\ End(q) \in Vertex
    BY <1>1, <1>2, <1>3 DEF End
  <1>5. SolverOn(q) \in Solver \cup {NoSolver}
    BY <1>4, FusionAssumption DEF SolverOn
  <1>6. WeightsOn(q) \subseteq Nat
    BY <1>4, WeightAfterType DEF WeightsOn
  <1>7. /\ weights[Root][q[1]] # <<>>
        /\ \A n \in 2 .. Len(q) : weights[q[n - 1]][q[n]] # <<>>
    BY <1>3 DEF Route
  <1> QED
    BY <1>1, <1>3, <1>4, <1>5, <1>6, <1>7

\* Lists with the same places have the same length.
LEMMA SameLength ==
    ASSUME NEW a \in Nat, NEW b \in Nat, 1 .. a = 1 .. b PROVE a = b
  <1>1. Cardinality(1 .. a) = a /\ Cardinality(1 .. b) = b
    BY FS_Interval
  <1> QED
    BY <1>1

\* A list with one more element.
LEMMA Longer ==
    ASSUME NEW S, NEW s \in Seq(S), NEW x \in S
    PROVE  /\ Append(s, x) \in Seq(S) /\ Len(Append(s, x)) = Len(s) + 1
           /\ DOMAIN Append(s, x) = 1 .. Len(s) + 1 /\ Append(s, x)[Len(s) + 1] = x
           /\ \A n \in 1 .. Len(s) : Append(s, x)[n] = s[n]
  OBVIOUS

\* Routes that follow the same operators.
LEMMA SameOperators ==
    ASSUME NEW ops \in Seq(Op), NEW q \in Route, NEW r \in Route, Follows(q, ops), Follows(r, ops)
    PROVE  OpsOn(q) = OpsOn(r)
  BY DEF Follows, OpsOn

\* The first operator of a plan.
LEMMA RouteBegins ==
    ASSUME NEW o \in Op, NEW v \in Vertex, opOf[v] = kind[o], weights[Root][v] # <<>>,
           MaxOps # 0
    PROVE  <<v>> \in Route /\ Follows(<<v>>, <<o>>) /\ End(<<v>>) = v
  <1>1. MaxOps \in Nat
    BY FusionAssumption
  <1>2. <<v>> \in [1 .. 1 -> Vertex] /\ Len(<<v>>) = 1 /\ <<v>>[1] = v
    OBVIOUS
  <1>3. <<v>> \in Route
    BY <1>1, <1>2 DEF Route
  <1> QED
    BY <1>2, <1>3 DEF Follows, End

\* A further operator.
LEMMA RouteContinues ==
    ASSUME NEW ops \in Seq(Op), NEW o \in Op, Len(ops) < MaxOps,
           NEW q \in Route, Follows(q, ops),
           NEW v \in Vertex, opOf[v] = kind[o], weights[End(q)][v] # <<>>
    PROVE  LET r == Append(q, v) IN
           /\ r \in Route /\ Follows(r, Append(ops, o)) /\ End(r) = v
           /\ SolverOn(r) = SolverOn(q) /\ WeightsOn(r) = WeightsOn(q)
  <1> DEFINE r == Append(q, v)
             k == Len(q)
  <1>1. MaxOps \in Nat
    BY FusionAssumption
  <1>2. /\ q \in Seq(Vertex) /\ k \in 1 .. MaxOps /\ DOMAIN q = 1 .. k
        /\ weights[Root][q[1]] # <<>>
        /\ \A n \in 2 .. k : weights[q[n - 1]][q[n]] # <<>>
    BY RouteFacts
  <1>3. Len(ops) = k
    <2>1. DOMAIN q = DOMAIN ops
      BY DEF Follows
    <2>2. Len(ops) \in Nat /\ DOMAIN ops = 1 .. Len(ops) /\ k \in Nat
      BY <1>1, <1>2
    <2> QED
      BY <1>2, <2>1, <2>2, SameLength
  <1>4. r \in [1 .. k + 1 -> Vertex] /\ Len(r) = k + 1 /\ r[k + 1] = v
        /\ \A n \in 1 .. k : r[n] = q[n]
    <2>1. /\ r \in Seq(Vertex) /\ Len(r) = k + 1 /\ DOMAIN r = 1 .. k + 1
          /\ r[k + 1] = v /\ \A n \in 1 .. k : r[n] = q[n]
      BY <1>2, Longer
    <2>2. \A n \in 1 .. k + 1 : r[n] \in Vertex
      BY <2>1
    <2> HIDE DEF r
    <2>3. r = [n \in 1 .. k + 1 |-> r[n]]
      BY <2>1
    <2> QED
      BY <2>1, <2>2, <2>3
  <1> HIDE DEF r
  <1>5. r \in Route
    <2>1. k + 1 \in 1 .. MaxOps
      BY <1>1, <1>2, <1>3
    <2>2. weights[Root][r[1]] # <<>>
      BY <1>2, <1>4
    <2>3. ASSUME NEW n \in DOMAIN r \ {1} PROVE weights[r[n - 1]][r[n]] # <<>>
      <3>1. CASE n = k + 1
        BY <1>2, <1>4, <3>1 DEF End
      <3>2. CASE n # k + 1
        <4>1. n \in 2 .. k /\ n - 1 \in 1 .. k
          BY <1>2, <1>4, <3>2
        <4> QED
          BY <1>2, <1>4, <4>1
      <3> QED
        BY <3>1, <3>2
    <2> QED
      BY <1>4, <2>1, <2>2, <2>3 DEF Route
  <1>6. Follows(r, Append(ops, o))
    <2>1. /\ Len(Append(ops, o)) = k + 1 /\ DOMAIN Append(ops, o) = 1 .. k + 1
          /\ Append(ops, o)[k + 1] = o
          /\ \A n \in 1 .. k : Append(ops, o)[n] = ops[n]
      BY <1>2, <1>3
    <2> QED
      BY <1>2, <1>4, <2>1 DEF Follows
  <1>7. r[1] = q[1]
    BY <1>2, <1>4
  <1>8. End(r) = v /\ SolverOn(r) = SolverOn(q) /\ WeightsOn(r) = WeightsOn(q)
    BY <1>4, <1>7 DEF End, SolverOn, WeightsOn
  <1> QED
    BY <1>5, <1>6, <1>8 DEF r

\* The way up to the last operator.
LEMMA RouteBefore ==
    ASSUME NEW ops \in Seq(Op), ops # <<>>, NEW o \in Op,
           NEW r \in Route, Follows(r, Append(ops, o))
    PROVE  \E q \in Route :
              /\ Follows(q, ops) /\ weights[End(q)][End(r)] # <<>> /\ opOf[End(r)] = kind[o]
              /\ SolverOn(r) = SolverOn(q) /\ WeightsOn(r) = WeightsOn(q)
  <1> DEFINE k == Len(ops)
             q == SubSeq(r, 1, k)
  <1>1. MaxOps \in Nat /\ k \in Nat \ {0}
    BY EmptySeq, FusionAssumption
  <1>2. /\ r \in Seq(Vertex) /\ Len(r) \in 1 .. MaxOps /\ DOMAIN r = 1 .. Len(r)
        /\ weights[Root][r[1]] # <<>>
        /\ \A n \in 2 .. Len(r) : weights[r[n - 1]][r[n]] # <<>>
    BY RouteFacts
  <1>3. /\ Len(Append(ops, o)) = k + 1 /\ DOMAIN Append(ops, o) = 1 .. k + 1
        /\ Append(ops, o)[k + 1] = o
        /\ \A n \in 1 .. k : Append(ops, o)[n] = ops[n]
    BY <1>1
  <1>4. Len(r) = k + 1
    <2>1. DOMAIN r = DOMAIN Append(ops, o)
      BY DEF Follows
    <2>2. Len(r) \in Nat /\ k + 1 \in Nat
      BY <1>1, <1>2
    <2> QED
      BY <1>2, <1>3, <2>1, <2>2, SameLength
  <1>5. q \in Seq(Vertex) /\ Len(q) = k /\ \A n \in 1 .. k : q[n] = r[n]
    BY <1>1, <1>2, <1>4, SubSeqProperties
  <1> HIDE DEF q
  <1>6. q \in Route
    <2>1. q \in [1 .. k -> Vertex] /\ k \in 1 .. MaxOps
      BY <1>1, <1>2, <1>4, <1>5
    <2>2. weights[Root][q[1]] # <<>>
      BY <1>1, <1>2, <1>5
    <2>3. \A n \in DOMAIN q \ {1} : weights[q[n - 1]][q[n]] # <<>>
      <3> TAKE n \in DOMAIN q \ {1}
      <3>1. n \in 2 .. k /\ n \in 2 .. Len(r) /\ n - 1 \in 1 .. k /\ n \in 1 .. k
        BY <1>1, <1>4, <1>5
      <3> QED
        BY <1>2, <1>5, <3>1
    <2> QED
      BY <2>1, <2>2, <2>3 DEF Route
  <1>7. Follows(q, ops)
    BY <1>1, <1>2, <1>3, <1>4, <1>5 DEF Follows
  <1>8. weights[End(q)][End(r)] # <<>>
    <2>1. k + 1 \in 2 .. Len(r) /\ End(q) = r[k + 1 - 1] /\ End(r) = r[k + 1]
      BY <1>1, <1>4, <1>5 DEF End
    <2> QED
      BY <1>2, <2>1
  <1>9. opOf[End(r)] = kind[o] /\ q[1] = r[1]
    BY <1>1, <1>2, <1>3, <1>4, <1>5 DEF Follows, End
  <1>10. SolverOn(r) = SolverOn(q) /\ WeightsOn(r) = WeightsOn(q)
    BY <1>9 DEF SolverOn, WeightsOn
  <1> QED
    BY <1>6, <1>7, <1>8, <1>9, <1>10

------------------------------------------------------------------------------
(* The lists of paths.                                                      *)

\* An extended path came along a route for one more operator.
LEMMA AdvanceRoutes ==
    ASSUME NEW ops \in Seq(Op), NEW paths \in Seq(Path), PathsInv(ops, paths), NEW o \in Op,
           Len(ops) < MaxOps, NEW e \in Advance(paths, o)
    PROVE  \E r \in Route : Follows(r, Append(ops, o)) /\ CameAlong(e, r)
  <1>1. PICK n \in DOMAIN paths, v \in Vertex :
            /\ opOf[v] = kind[o]
            /\ \E m \in DOMAIN weights[paths[n].vertex][v] : e = Extend(paths[n], o, v, m)
    BY AdvanceElement
  <1>2. PICK m \in DOMAIN weights[paths[n].vertex][v] : e = Extend(paths[n], o, v, m)
    BY <1>1
  <1>3. paths[n] \in Path
    OBVIOUS
  <1>4. weights[paths[n].vertex][v] \in Seq(Nat) /\ weights[paths[n].vertex][v] # <<>>
    <2>1. weights[paths[n].vertex][v] \in Seq(Nat)
      BY <1>3, FusionAssumption DEF Path
    <2> QED
      BY <1>2, <2>1
  <1>5. CASE ops = <<>>
    <2>1. paths[n] = [vertex |-> Root, weight |-> 0, solver |-> NoSolver]
      <3>1. paths = Empty
        BY <1>5 DEF PathsInv
      <3> QED
        BY <3>1 DEF Empty
    <2>2. MaxOps # 0 /\ Append(ops, o) = <<o>>
      BY <1>5
    <2>3. <<v>> \in Route /\ Follows(<<v>>, <<o>>) /\ End(<<v>>) = v
      BY <1>1, <1>4, <2>1, <2>2, RouteBegins
    <2>4. /\ e.vertex = v /\ e.weight = 0 + WeightAfter(Root, v, m)
          /\ e.solver = IF kind[o] = "conv" THEN solver[v] ELSE NoSolver
      BY <1>2, <2>1 DEF Extend
    <2>5. WeightAfter(Root, v, m) \in Nat /\ m \in DOMAIN weights[Root][v]
      BY <1>2, <2>1, WeightAfterType
    <2>6. e.weight \in WeightsOn(<<v>>)
      BY <2>4, <2>5 DEF WeightsOn
    <2>7. e.solver = SolverOn(<<v>>)
      BY <1>1, <2>4 DEF SolverOn
    <2>8. CameAlong(e, <<v>>)
      BY <2>3, <2>4, <2>6, <2>7 DEF CameAlong
    <2> QED
      BY <2>2, <2>3, <2>8
  <1>6. CASE ops # <<>>
    <2>1. PICK q \in Route : Follows(q, ops) /\ CameAlong(paths[n], q)
      BY <1>6 DEF PathsInv
    <2>2. End(q) \in Vertex /\ paths[n].vertex = End(q) /\ WeightsOn(q) \subseteq Nat
      BY <2>1, RouteFacts DEF CameAlong
    <2>3. kind[o] # "conv"
      BY <1>1, <1>4, <2>2, LibraryEdges
    <2>4. LET r == Append(q, v) IN
          /\ r \in Route /\ Follows(r, Append(ops, o)) /\ End(r) = v
          /\ SolverOn(r) = SolverOn(q) /\ WeightsOn(r) = WeightsOn(q)
      BY <1>1, <1>4, <2>1, <2>2, RouteContinues
    <2>5. WeightAfter(paths[n].vertex, v, m) = 0
      BY <1>2, <2>2, WeightAfterType
    <2>6. e.vertex = v /\ e.weight = paths[n].weight + 0 /\ e.solver = paths[n].solver
      BY <1>2, <2>3, <2>5 DEF Extend
    <2>7. paths[n].weight \in WeightsOn(q) /\ paths[n].weight \in Nat
      BY <2>1, <2>2 DEF CameAlong
    <2>8. CameAlong(e, Append(q, v))
      BY <2>1, <2>4, <2>6, <2>7 DEF CameAlong
    <2> QED
      BY <2>4, <2>8
  <1> QED
    BY <1>5, <1>6

\* AddOp keeps the invariant of the list ...
LEMMA AddedPaths ==
    ASSUME NEW ops \in Seq(Op), NEW paths \in Seq(Path), PathsInv(ops, paths), NEW o \in Op,
           Len(ops) < MaxOps, NEW q \in Sorted(Advance(paths, o))
    PROVE  q \in Seq(Path) /\ PathsInv(Append(ops, o), q)
  <1>1. /\ q \in Seq(Path)
        /\ \A n \in DOMAIN q : q[n] \in Advance(paths, o)
        /\ \A m, n \in DOMAIN q : m < n => q[m].weight >= q[n].weight
    BY SortedList
  <1>2. \A n \in DOMAIN q : \E r \in Route : Follows(r, Append(ops, o)) /\ CameAlong(q[n], r)
    BY <1>1, AdvanceRoutes
  <1>3. Append(ops, o) # <<>> /\ Len(Append(ops, o)) <= MaxOps
    <2>1. MaxOps \in Nat /\ Len(ops) \in Nat
      BY FusionAssumption
    <2>2. Len(Append(ops, o)) = Len(ops) + 1 /\ Append(ops, o) # <<>>
      OBVIOUS
    <2> QED
      BY <2>1, <2>2
  <1> QED
    BY <1>1, <1>2, <1>3 DEF PathsInv

\* ... and so does SetConvAlgo.
LEMMA KeptPaths ==
    ASSUME NEW ops \in Seq(Op), ops # <<>>, NEW paths \in Seq(Path), PathsInv(ops, paths),
           NEW kept \in SUBSET DOMAIN paths, NEW order \in SetToSeqs(kept),
           \A m, n \in DOMAIN order : m < n => order[m] < order[n]
    PROVE  LET r == [n \in DOMAIN order |-> paths[order[n]]] IN
           r \in Seq(Path) /\ PathsInv(ops, r)
  <1> DEFINE r == [n \in DOMAIN order |-> paths[order[n]]]
  <1>1. IsFiniteSet(kept) /\ Cardinality(kept) \in Nat
    <2>1. IsFiniteSet(DOMAIN paths)
      BY FS_Interval
    <2> QED
      BY <2>1, FS_Subset, FS_CardinalityType
  <1>2. DOMAIN order = 1 .. Cardinality(kept) /\ \A n \in DOMAIN order : order[n] \in DOMAIN paths
    BY <1>1, ListOfSet
  <1>3. r \in Seq(Path)
    BY <1>1, <1>2
  <1>4. \A n \in DOMAIN r : order[n] \in DOMAIN paths /\ r[n] = paths[order[n]]
    BY <1>2
  <1>5. \A m, n \in DOMAIN r : m < n => r[m].weight >= r[n].weight
    <2> DOMAIN r = DOMAIN order
      OBVIOUS
    <2> HIDE DEF r
    <2> QED
      BY <1>4 DEF PathsInv
  <1> HIDE DEF r
  <1>6. PathsInv(ops, r)
    BY <1>4, <1>5 DEF PathsInv
  <1> QED
    BY <1>3, <1>6 DEF r
------------------------------------------------------------------------------
(* What Compile finds in a list.                                            *)

\* The places that Compile goes through are places in the list.
LEMMA Places ==
    ASSUME TypeOK, NEW p \in Plan, NEW h \in Handle
    PROVE  /\ DOMAIN cur_vertex[p] = 1 .. Len(cur_vertex[p]) /\ Len(cur_vertex[p]) \in Nat
           /\ \A n \in DOMAIN cur_vertex[p] : n \in Nat /\ cur_vertex[p][n] \in Path
           /\ Supported(p, h) \in SUBSET (1 .. Len(cur_vertex[p]))
           /\ Supported(p, h) \in SUBSET Nat /\ Candidates(p, h) \in SUBSET Nat
           /\ Candidates(p, h) \subseteq Supported(p, h)
  <1>1. cur_vertex[p] \in Seq(Path)
    BY DEF TypeOK
  <1>2. /\ DOMAIN cur_vertex[p] = 1 .. Len(cur_vertex[p]) /\ Len(cur_vertex[p]) \in Nat
        /\ \A n \in DOMAIN cur_vertex[p] : n \in Nat /\ cur_vertex[p][n] \in Path
    BY <1>1
  <1>3. Supported(p, h) \subseteq DOMAIN cur_vertex[p] /\ Candidates(p, h) \subseteq Supported(p, h)
    BY DEF Supported, Candidates
  <1> QED
    BY <1>2, <1>3

\* A supported path ends at a vertex, and GetCurVertex finds the first.
LEMMA FirstSupported ==
    ASSUME TypeOK, NEW p \in Plan, NEW h \in Handle
    PROVE  /\ \A n \in Supported(p, h) : /\ n \in DOMAIN cur_vertex[p]
                                         /\ cur_vertex[p][n].vertex \in supported[h]
           /\ supported[h] \subseteq Vertex
           /\ Supported(p, h) # {} <=> GetCurVertex(p, h) # Root
           /\ Supported(p, h) # {} =>
                 LET n == FirstOf(Supported(p, h)) IN
                 /\ n \in Supported(p, h) /\ \A m \in Supported(p, h) : n <= m
                 /\ GetCurVertex(p, h) = cur_vertex[p][n].vertex
                 /\ GetCurVertex(p, h) \in supported[h]
  <1>1. supported[h] \subseteq Vertex /\ Root \notin supported[h]
    BY FusionAssumption
  <1>2. \A n \in Supported(p, h) : /\ n \in DOMAIN cur_vertex[p]
                                   /\ cur_vertex[p][n].vertex \in supported[h]
    BY DEF Supported
  <1>3. CASE Supported(p, h) = {}
    BY <1>1, <1>2, <1>3 DEF GetCurVertex
  <1>4. CASE Supported(p, h) # {}
    <2>1. /\ FirstOf(Supported(p, h)) \in Supported(p, h)
          /\ \A m \in Supported(p, h) : FirstOf(Supported(p, h)) <= m
      BY <1>4, Places, FirstOfPlaces
    <2>2. GetCurVertex(p, h) = cur_vertex[p][FirstOf(Supported(p, h))].vertex
      BY <1>4 DEF GetCurVertex
    <2> QED
      BY <1>1, <1>2, <1>4, <2>1, <2>2
  <1> QED
    BY <1>3, <1>4

\* The path that Compile takes.
LEMMA FirstCandidate ==
    ASSUME TypeOK, NEW p \in Plan, NEW h \in Handle, Candidates(p, h) # {}
    PROVE  LET n == FirstOf(Candidates(p, h)) IN
           /\ n \in DOMAIN cur_vertex[p] /\ n \in Supported(p, h) /\ Applies(p, h, n)
           /\ \A m \in Candidates(p, h) : n <= m
           /\ cur_vertex[p][n] \in Path
           /\ cur_vertex[p][n].vertex \in supported[h] /\ cur_vertex[p][n].vertex \in Vertex
           /\ CompileConfig(p, h, n) = {cur_vertex[p][n].vertex}
  <1> DEFINE n == FirstOf(Candidates(p, h))
  <1>1. n \in Candidates(p, h) /\ \A m \in Candidates(p, h) : n <= m
    BY Places, FirstOfPlaces
  <1>2. n \in DOMAIN cur_vertex[p] /\ n \in Supported(p, h) /\ Applies(p, h, n)
    BY <1>1 DEF Candidates, Supported
  <1>3. cur_vertex[p][n].vertex \in supported[h] /\ cur_vertex[p][n].vertex \in Vertex
    BY <1>2, FirstSupported
  <1>4. cur_vertex[p][n] \in Path /\ n \in Nat
    BY <1>2, Places
  <1> HIDE DEF n
  <1>5. n \in Candidates(p, h) /\ \A m \in Candidates(p, h) : m <= n <=> m = n
    <2>1. \A m \in Candidates(p, h) : m \in Nat /\ n <= m
      BY <1>1, Places
    <2> QED
      BY <1>1, <1>4, <2>1
  <1>6. {l \in Supported(p, h) : l <= n /\ AppendsOptions(p, h, l)} = {n}
    BY <1>5 DEF Candidates, AppendsOptions
  <1>7. CompileConfig(p, h, n) = {cur_vertex[p][n].vertex}
    BY <1>6 DEF CompileConfig
  <1> QED
    BY <1>1, <1>2, <1>3, <1>4, <1>7 DEF n

\* A plan that can be compiled has operators.
LEMMA UsablePlan ==
    ASSUME SafeInv, NEW p \in Plan, NEW h \in Handle, Usable(p, h)
    PROVE  /\ op_map[p] # <<>> /\ op_map[p] \in Seq(Op) /\ PathsInv(op_map[p], cur_vertex[p])
           /\ Supported(p, h) # {}
           /\ GetNetworkConfig(p) \in Config /\ GetNetworkConfig(p).ops = op_map[p]
  <1>1. op_map[p] # <<>> /\ PathsInv(op_map[p], cur_vertex[p])
    BY DEF Usable, SafeInv, NewInv
  <1>2. op_map[p] \in Seq(Op) /\ TypeOK
    BY DEF SafeInv, TypeOK
  <1>3. Supported(p, h) # {}
    BY <1>2, FirstSupported DEF Usable
  <1>4. GetNetworkConfig(p) \in Config /\ GetNetworkConfig(p).ops = op_map[p]
    BY <1>2, FusionAssumption DEF GetNetworkConfig, Config
  <1> QED
    BY <1>1, <1>2, <1>3, <1>4

\* Where a path of the list came from.
LEMMA PathRoute ==
    ASSUME SafeInv, NEW p \in Plan, op_map[p] # <<>>, NEW n \in DOMAIN cur_vertex[p]
    PROVE  \E q \in Route : Follows(q, op_map[p]) /\ CameAlong(cur_vertex[p][n], q)
  BY DEF SafeInv, PathsInv

\* The kernel that Compile makes, if it is built.
NewKernel(p, h) ==
    LET n == FirstOf(Candidates(p, h)) IN
    [vertex |-> cur_vertex[p][n].vertex, config |-> GetNetworkConfig(p),
     options |-> CompileConfig(p, h, n)]

\* It is sound, and made for a path that has a solution.
LEMMA NewKernelFacts ==
    ASSUME SafeInv, NEW p \in Plan, NEW h \in Handle, Usable(p, h), Candidates(p, h) # {}
    PROVE  LET k == NewKernel(p, h) IN
           /\ k \in Kernel /\ MadeFor(k, h)
           /\ k.vertex \in supported[h] /\ k.options = {k.vertex}
           /\ k.config = GetNetworkConfig(p)
           /\ k.vertex = cur_vertex[p][FirstOf(Candidates(p, h))].vertex
           /\ <<algorithm[k.vertex], GetNetworkConfig(p)>> \in Key
  <1> DEFINE n == FirstOf(Candidates(p, h))
             v == cur_vertex[p][n].vertex
             k == NewKernel(p, h)
  <1>1. /\ n \in DOMAIN cur_vertex[p] /\ Applies(p, h, n)
        /\ v \in supported[h] /\ v \in Vertex /\ CompileConfig(p, h, n) = {v}
    BY FirstCandidate DEF SafeInv
  <1>2. /\ op_map[p] # <<>> /\ GetNetworkConfig(p) \in Config
        /\ GetNetworkConfig(p).ops = op_map[p]
    BY UsablePlan
  <1>3. k.vertex = v /\ k.config = GetNetworkConfig(p) /\ k.options = {v} /\ k \in Kernel
    BY <1>1, <1>2 DEF NewKernel, Kernel
  <1>4. PICK q \in Route : Follows(q, op_map[p]) /\ CameAlong(cur_vertex[p][n], q)
    BY <1>1, <1>2, PathRoute
  <1> HIDE DEF k, n
  <1>5. MadeFor(k, h)
    <2>1. Does(SolverOn(q), h, op_map[p])
      BY <1>1, <1>4 DEF Applies, Does, CameAlong
    <2> QED
      BY <1>2, <1>3, <1>4, <2>1 DEF MadeFor, CameAlong
  <1>6. <<algorithm[v], GetNetworkConfig(p)>> \in Key
    BY <1>1, <1>2, FusionAssumption DEF Key
  <1> QED
    BY <1>1, <1>3, <1>5, <1>6 DEF k, n
------------------------------------------------------------------------------
(* Safety.                                                                  *)

\* New plans and empty caches.
LEMMA InitSafe == Init => SafeInv
  <1> SUFFICES ASSUME Init PROVE SafeInv
    OBVIOUS
  <1>1. TypeOK
    <2>1. Empty \in Seq(Path)
      BY DEF Empty, Path
    <2>2. \A p \in Plan : [input |-> input[p], ops |-> <<>>] \in Config
      BY FusionAssumption DEF Config
    <2>3. /\ DOMAIN kernel_map = Handle
          /\ \A h \in Handle : DOMAIN kernel_map[h] = {}
      BY DEF Init, Cache!EmptyKernelMap
    <2> QED
      BY <2>1, <2>2, <2>3 DEF Init, TypeOK
  <1>2. \A h \in Handle : DOMAIN kernel_map[h] = {}
    BY DEF Init, Cache!EmptyKernelMap
  <1>3. ASSUME NEW p \in Plan PROVE PathsInv(op_map[p], cur_vertex[p]) /\ NewInv(p)
    <2>1. op_map[p] = <<>> /\ cur_vertex[p] = Empty /\ DOMAIN Empty = {1}
      BY DEF Init, Empty
    <2>2. 0 <= MaxOps
      BY FusionAssumption
    <2>3. Empty[1].weight >= Empty[1].weight /\ ~(1 < 1)
      BY DEF Empty
    <2>4. PathsInv(op_map[p], cur_vertex[p])
      BY <2>1, <2>2, <2>3 DEF PathsInv
    <2> QED
      BY <2>4 DEF Init, NewInv
  <1>4. kernel_map = [h \in Handle |-> kernel_map[h]]
    BY DEF Init
  <1>5. CachesInv
    BY <1>2, <1>4 DEF CachesInv, KernelsAreSound
  <1> QED
    BY <1>1, <1>3, <1>5 DEF SafeInv

\* The kernel caches are left alone.
LEMMA CachesKept ==
    ASSUME SafeInv, UNCHANGED kernel_map PROVE CachesInv'
  <1>1. kernel_map' = kernel_map /\ CachesInv
    BY DEF SafeInv
  <1> QED
    BY <1>1 DEF CachesInv, KernelsAreSound, MadeFor, Does

\* AddOp writes into its own plan only, and leaves the caches alone.
LEMMA AddOpSafe ==
    ASSUME SafeInv, NEW p \in Plan, NEW o \in Op, AddOp(p, o) PROVE SafeInv'
  <1> DEFINE paths == Advance(cur_vertex[p], o)
  <1>1. TypeOK /\ PathsInv(op_map[p], cur_vertex[p])
    BY DEF SafeInv
  <1>2. op_map[p] \in Seq(Op) /\ cur_vertex[p] \in Seq(Path)
    BY <1>1 DEF TypeOK
  <1>3. PICK q \in Sorted(paths) : cur_vertex' = [cur_vertex EXCEPT ![p] = q]
    BY DEF AddOp
  <1>4. q \in Seq(Path) /\ PathsInv(Append(op_map[p], o), q)
    BY <1>1, <1>2, <1>3, AddedPaths DEF AddOp
  <1>5. /\ Append(op_map[p], o) \in Seq(Op) /\ Append(op_map[p], o) # <<>>
        /\ op_map' = [op_map EXCEPT ![p] = Append(@, o)]
    BY <1>2 DEF AddOp
  <1>6. TypeOK'
    <2>1. {algo[e.vertex] : e \in paths} \subseteq ConvAlgo \cup {NoConvAlgo}
      <3>1. ASSUME NEW e \in paths PROVE e.vertex \in Vertex
        BY AdvanceEnds
      <3> HIDE DEF paths
      <3> QED
        BY <3>1, FusionAssumption
    <2>2. conv_algo_set' \in [Plan -> SUBSET (ConvAlgo \cup {NoConvAlgo})]
      <3>1. conv_algo_set' = [conv_algo_set EXCEPT ![p] =
                IF kind[o] = "conv" THEN {algo[e.vertex] : e \in paths} ELSE {}]
        BY DEF AddOp
      <3> HIDE DEF paths
      <3> QED
        BY <1>1, <2>1, <3>1 DEF TypeOK
    <2>3. cur_vertex' \in [Plan -> Seq(Path)]
      BY <1>1, <1>3, <1>4 DEF TypeOK
    <2>4. op_map' \in [Plan -> Seq(Op)]
      BY <1>1, <1>5 DEF TypeOK
    <2>5. is_valid' \in [Plan -> BOOLEAN] /\ compiled' \in [Plan -> SUBSET Handle]
      BY <1>1 DEF AddOp, TypeOK
    <2> QED
      BY <1>1, <2>2, <2>3, <2>4, <2>5, CachesKept DEF AddOp, TypeOK, CachesInv
  <1>7. ASSUME NEW r \in Plan PROVE (PathsInv(op_map[r], cur_vertex[r]) /\ NewInv(r))'
    <2>1. CASE r = p
      <3>1. op_map'[r] = Append(op_map[p], o) /\ cur_vertex'[r] = q
        BY <1>1, <1>3, <1>5, <2>1 DEF TypeOK
      <3> QED
        BY <1>4, <1>5, <3>1 DEF PathsInv, NewInv
    <2>2. CASE r # p
      <3>1. /\ op_map'[r] = op_map[r] /\ cur_vertex'[r] = cur_vertex[r]
            /\ is_valid'[r] = is_valid[r] /\ kernel_info_valid'[r] = kernel_info_valid[r]
            /\ conv_algo_set'[r] = conv_algo_set[r] /\ compiled'[r] = compiled[r]
        BY <1>1, <1>3, <2>2 DEF AddOp, TypeOK
      <3> QED
        BY <3>1 DEF SafeInv, PathsInv, NewInv
    <2> QED
      BY <2>1, <2>2
  <1>8. UNCHANGED kernel_map
    BY DEF AddOp
  <1> QED
    BY <1>6, <1>7, <1>8, CachesKept DEF SafeInv

\* So does SetConvAlgo.
LEMMA SetConvAlgoSafe ==
    ASSUME SafeInv, NEW p \in Plan, NEW a, SetConvAlgo(p, a) PROVE SafeInv'
  <1> DEFINE kept == {n \in DOMAIN cur_vertex[p] : algo[cur_vertex[p][n].vertex] = a}
             list(order) == [n \in DOMAIN order |-> cur_vertex[p][order[n]]]
  <1>1. TypeOK /\ PathsInv(op_map[p], cur_vertex[p])
    BY DEF SafeInv
  <1>2. op_map[p] \in Seq(Op) /\ cur_vertex[p] \in Seq(Path) /\ op_map[p] # <<>>
    BY <1>1 DEF TypeOK, SafeInv, NewInv, SetConvAlgo
  <1>3. PICK order \in SetToSeqs(kept) :
            /\ \A m, n \in DOMAIN order : m < n => order[m] < order[n]
            /\ cur_vertex' = [cur_vertex EXCEPT ![p] = list(order)]
    BY DEF SetConvAlgo
  <1>4. kept \in SUBSET DOMAIN cur_vertex[p]
    OBVIOUS
  <1>5. list(order) \in Seq(Path) /\ PathsInv(op_map[p], list(order))
    <2> HIDE DEF kept
    <2> QED
      BY <1>1, <1>2, <1>3, <1>4, KeptPaths
  <1> HIDE DEF list, kept
  <1>6. TypeOK'
    <2>1. cur_vertex' \in [Plan -> Seq(Path)]
      BY <1>1, <1>3, <1>5 DEF TypeOK
    <2> QED
      BY <1>1, <2>1, CachesKept DEF SetConvAlgo, TypeOK, CachesInv
  <1>7. ASSUME NEW r \in Plan PROVE (PathsInv(op_map[r], cur_vertex[r]) /\ NewInv(r))'
    <2>1. CASE r = p
      <3>1. op_map'[r] = op_map[p] /\ cur_vertex'[r] = list(order)
        BY <1>1, <1>3, <2>1 DEF SetConvAlgo, TypeOK
      <3> QED
        BY <1>2, <1>5, <3>1 DEF PathsInv, NewInv
    <2>2. CASE r # p
      <3>1. /\ op_map'[r] = op_map[r] /\ cur_vertex'[r] = cur_vertex[r]
            /\ is_valid'[r] = is_valid[r] /\ kernel_info_valid'[r] = kernel_info_valid[r]
            /\ conv_algo_set'[r] = conv_algo_set[r] /\ compiled'[r] = compiled[r]
        BY <1>1, <1>3, <2>2 DEF SetConvAlgo, TypeOK
      <3> QED
        BY <3>1 DEF SafeInv, PathsInv, NewInv
    <2> QED
      BY <2>1, <2>2
  <1>8. UNCHANGED kernel_map
    BY DEF SetConvAlgo
  <1> QED
    BY <1>6, <1>7, <1>8, CachesKept DEF SafeInv

\* CompileNew may add a kernel.
LEMMA CachesGrow ==
    ASSUME SafeInv, NEW p \in Plan, NEW h \in Handle, CompileNew(p, h)
    PROVE  LET k   == NewKernel(p, h)
               key == <<algorithm[k.vertex], GetNetworkConfig(p)>>
           IN  /\ CachesInv'
               /\ \A g \in Handle : \A x \in DOMAIN kernel_map[g] :
                     x \in DOMAIN kernel_map'[g] /\ kernel_map'[g][x] = kernel_map[g][x]
               /\ key \in DOMAIN kernel_map'[h]
  <1> DEFINE k   == NewKernel(p, h)
             v   == k.vertex
             key == <<algorithm[v], GetNetworkConfig(p)>>
  <1>1. TypeOK /\ CachesInv /\ Usable(p, h) /\ Candidates(p, h) # {}
    BY DEF SafeInv, CompileNew, Tries
  <1>2. /\ k \in Kernel /\ MadeFor(k, h) /\ k.config = GetNetworkConfig(p)
        /\ v \in supported[h] /\ k.options = {v} /\ key \in Key
        /\ v = cur_vertex[p][FirstOf(Candidates(p, h))].vertex
    BY <1>1, NewKernelFacts
  <1>3. kernel_map' = [kernel_map EXCEPT ![h] =
            IF KernelsOf(p, h, v) # <<>> THEN @ ELSE Cache!AddKernel(@, key, k, 0)]
    BY <1>2 DEF CompileNew, NewKernel
  <1> HIDE DEF k
  <1>4. CASE key \in DOMAIN kernel_map[h]
    <2>1. KernelsOf(p, h, v) # <<>>
      BY <1>1, <1>4 DEF KernelsOf, Cache!GetKernels, CachesInv
    <2>2. kernel_map' = kernel_map
      BY <1>1, <1>3, <2>1 DEF CachesInv
    <2> QED
      BY <1>4, <2>2, CachesKept DEF k
  <1>5. CASE key \notin DOMAIN kernel_map[h]
    <2> DEFINE m == Cache!AddKernel(kernel_map[h], key, k, 0)
    <2>1. KernelsOf(p, h, v) = <<>>
      BY <1>5 DEF KernelsOf, Cache!GetKernels
    <2>2. kernel_map' = [kernel_map EXCEPT ![h] = m]
      BY <1>3, <2>1
    <2>3. /\ DOMAIN m = DOMAIN kernel_map[h] \cup {key}
          /\ m[key] = <<k>>
          /\ \A x \in DOMAIN kernel_map[h] : m[x] = kernel_map[h][x]
      <3> DEFINE size == IF Len(<<>>) > 0 THEN Len(<<>>) ELSE 0 + 1
                 At(n) == IF n = 0 + 1 THEN k ELSE IF n <= Len(<<>>) THEN <<>>[n] ELSE NoKernel
                 s == [n \in 1 .. size |-> At(n)]
      <3>1. Cache!GetKernels(kernel_map[h], key) = <<>>
        BY <1>5 DEF Cache!GetKernels
      <3> HIDE DEF key
      <3>2. m = [x \in DOMAIN kernel_map[h] \cup {key} |->
                    IF x = key THEN s ELSE kernel_map[h][x]]
        BY <3>1 DEF Cache!AddKernel
      <3>3. s = <<k>>
        OBVIOUS
      <3> HIDE DEF s, m
      <3>4. key \notin DOMAIN kernel_map[h]
        BY <1>5 DEF key
      <3> QED
        BY <3>2, <3>3, <3>4
    <2> HIDE DEF m
    <2>4. /\ kernel_map' = [g \in Handle |-> kernel_map'[g]] /\ kernel_map'[h] = m
          /\ \A g \in Handle \ {h} : kernel_map'[g] = kernel_map[g]
      BY <1>1, <2>2 DEF CachesInv
    <2>5. m[key] \in Seq(Kernel) /\ Len(m[key]) = 1 /\ m[key][1] = k
      BY <1>2, <2>3
    <2>6. ASSUME NEW g \in Handle, NEW x \in DOMAIN kernel_map'[g]
          PROVE  /\ x \in Key
                 /\ kernel_map'[g][x] \in Seq(Kernel) /\ Len(kernel_map'[g][x]) = 1
                 /\ MadeFor(kernel_map'[g][x][1], g)
                 /\ x = <<algorithm[kernel_map'[g][x][1].vertex], kernel_map'[g][x][1].config>>
                 /\ kernel_map'[g][x][1].vertex \in supported[g]
                 /\ kernel_map'[g][x][1].options = {kernel_map'[g][x][1].vertex}
      <3>1. CASE g = h /\ x = key
        BY <1>2, <2>3, <2>4, <2>5, <3>1
      <3>2. CASE ~ (g = h /\ x = key)
        <4>1. x \in DOMAIN kernel_map[g] /\ kernel_map'[g][x] = kernel_map[g][x]
          BY <2>3, <2>4, <3>2
        <4> QED
          BY <1>1, <4>1 DEF CachesInv, KernelsAreSound
      <3> QED
        BY <3>1, <3>2
    <2>7. CachesInv'
      BY <2>4, <2>6 DEF CachesInv, KernelsAreSound, MadeFor, Does
    <2> QED
      BY <2>3, <2>4, <2>7 DEF k
  <1> QED
    BY <1>4, <1>5

\* What the calls of Compile write into the plan is well typed.
LEMMA CompileTypes ==
    ASSUME SafeInv, NEW p \in Plan, NEW h \in Handle, Usable(p, h), NEW v \in Vertex
    PROVE  /\ Names(p, v) =>
                 /\ algorithm_name' \in [Plan -> Algorithm \cup {NoAlgorithm}]
                 /\ network_config' \in [Plan -> Config]
           /\ Succeeds(p, h, v) =>
                 /\ arg_list' \in [Plan -> {NoArgs} \cup [layout : Layout, ops : Seq(Op)]]
                 /\ compiled' \in [Plan -> SUBSET Handle]
  <1>1. TypeOK /\ op_map[p] \in Seq(Op) /\ GetNetworkConfig(p) \in Config
    BY UsablePlan DEF SafeInv
  <1>2. algorithm[v] \in Algorithm /\ layout[v] \in Layout
    BY FusionAssumption
  <1>3. [layout |-> layout[v], ops |-> op_map[p]] \in [layout : Layout, ops : Seq(Op)]
    BY <1>1, <1>2
  <1>4. ASSUME Names(p, v)
        PROVE  /\ algorithm_name' \in [Plan -> Algorithm \cup {NoAlgorithm}]
               /\ network_config' \in [Plan -> Config]
    BY <1>1, <1>2, <1>4 DEF Names, TypeOK
  <1>5. ASSUME Succeeds(p, h, v)
        PROVE  /\ arg_list' \in [Plan -> {NoArgs} \cup [layout : Layout, ops : Seq(Op)]]
               /\ compiled' \in [Plan -> SUBSET Handle]
    <2>1. compiled' \in [Plan -> SUBSET Handle]
      BY <1>1, <1>5 DEF Succeeds, TypeOK
    <2> DEFINE A == [layout : Layout, ops : Seq(Op)]
               x == [layout |-> layout[v], ops |-> op_map[p]]
    <2>2. arg_list \in [Plan -> {NoArgs} \cup A] /\ x \in A
          /\ arg_list' = [arg_list EXCEPT ![p] = x]
      BY <1>1, <1>3, <1>5 DEF Succeeds, TypeOK
    <2> HIDE DEF A, x
    <2>3. arg_list' \in [Plan -> {NoArgs} \cup A]
      BY <2>2
    <2> QED
      BY <2>1, <2>3 DEF A
  <1> QED
    BY <1>4, <1>5

\* A list that is cut down to one path or to none.
LEMMA FewerPaths ==
    ASSUME NEW ops, ops # <<>>, NEW paths \in Seq(Path), PathsInv(ops, paths),
           NEW n \in DOMAIN paths
    PROVE  /\ <<>> \in Seq(Path) /\ PathsInv(ops, <<>>)
           /\ <<paths[n]>> \in Seq(Path) /\ PathsInv(ops, <<paths[n]>>)
  <1>1. <<>> \in Seq(Path) /\ DOMAIN <<>> = {}
    OBVIOUS
  <1>2. /\ <<paths[n]>> \in Seq(Path) /\ DOMAIN <<paths[n]>> = {1}
        /\ <<paths[n]>>[1] = paths[n] /\ ~ (1 < 1)
    OBVIOUS
  <1>3. PathsInv(ops, <<>>)
    BY <1>1 DEF PathsInv
  <1>4. PathsInv(ops, <<paths[n]>>)
    BY <1>2 DEF PathsInv
  <1> QED
    BY <1>1, <1>2, <1>3, <1>4

\* What a call of Compile does to the plan, and that it leaves other plans alone.
LEMMA CompileFrame ==
    ASSUME SafeInv, NEW p \in Plan, NEW h \in Handle, Compile(p, h)
    PROVE  /\ Usable(p, h)
           /\ UNCHANGED <<op_map, is_valid, conv_algo_set, requested>>
           /\ \A r \in Plan \ {p} :
                 /\ cur_vertex'[r] = cur_vertex[r]
                 /\ kernel_info_valid'[r] = kernel_info_valid[r]
                 /\ algorithm_name'[r] = algorithm_name[r]
                 /\ network_config'[r] = network_config[r]
                 /\ arg_list'[r] = arg_list[r] /\ compiled'[r] = compiled[r]
           /\ cur_vertex'[p] \in {cur_vertex[p], <<>>}
                                 \cup {<<cur_vertex[p][n]>> : n \in DOMAIN cur_vertex[p]}
           /\ cur_vertex' = [cur_vertex EXCEPT ![p] = cur_vertex'[p]]
           /\ kernel_info_valid' \in [Plan -> BOOLEAN]
           /\ algorithm_name' \in [Plan -> Algorithm \cup {NoAlgorithm}]
           /\ network_config' \in [Plan -> Config]
           /\ arg_list' \in [Plan -> {NoArgs} \cup [layout : Layout, ops : Seq(Op)]]
           /\ compiled' \in [Plan -> SUBSET Handle]
           /\ UNCHANGED kernel_map \/ CompileNew(p, h)
  <1>1. TypeOK
    BY DEF SafeInv
  <1>2. CASE CompileCached(p, h)
    <2> DEFINE v == GetCurVertex(p, h)
    <2>1. Usable(p, h) /\ v \in Vertex
      BY <1>1, <1>2, FirstSupported DEF CompileCached, Usable
    <2>2. Names(p, v) /\ Succeeds(p, h, v)
      BY <1>2 DEF CompileCached
    <2>3. UNCHANGED <<op_map, is_valid, cur_vertex, conv_algo_set, kernel_info_valid, requested,
                      kernel_map>>
      BY <1>2 DEF CompileCached
    <2> HIDE DEF v
    <2>4. /\ algorithm_name' \in [Plan -> Algorithm \cup {NoAlgorithm}]
          /\ network_config' \in [Plan -> Config]
          /\ arg_list' \in [Plan -> {NoArgs} \cup [layout : Layout, ops : Seq(Op)]]
          /\ compiled' \in [Plan -> SUBSET Handle]
      BY <2>1, <2>2, CompileTypes
    <2>5. \A r \in Plan \ {p} :
              /\ algorithm_name'[r] = algorithm_name[r]
              /\ network_config'[r] = network_config[r]
              /\ arg_list'[r] = arg_list[r] /\ compiled'[r] = compiled[r]
      BY <1>1, <2>2 DEF Names, Succeeds, TypeOK
    <2>6. /\ cur_vertex' = [cur_vertex EXCEPT ![p] = cur_vertex'[p]]
          /\ kernel_info_valid' \in [Plan -> BOOLEAN]
      BY <1>1, <2>3 DEF TypeOK
    <2> QED
      BY <2>1, <2>3, <2>4, <2>5, <2>6
  <1>3. CASE CompileNew(p, h) \/ CompileNotBuilt(p, h)
    <2> DEFINE n == FirstOf(Candidates(p, h))
               v == cur_vertex[p][n].vertex
    <2>1. /\ Usable(p, h) /\ Candidates(p, h) # {}
          /\ UNCHANGED <<op_map, is_valid, conv_algo_set, requested>>
          /\ Names(p, v) /\ Narrows(p, n)
          /\ kernel_info_valid' = [kernel_info_valid EXCEPT
                ![p] = @ \/ cur_vertex[p][n].solver # NoSolver]
      BY <1>3 DEF CompileNew, CompileNotBuilt, Tries
    <2>2. /\ Succeeds(p, h, v) \/ UNCHANGED <<arg_list, compiled>>
          /\ UNCHANGED kernel_map \/ CompileNew(p, h)
      BY <1>3 DEF CompileNew, CompileNotBuilt
    <2>3. n \in DOMAIN cur_vertex[p] /\ v \in Vertex
      BY <1>1, <2>1, FirstCandidate
    <2> HIDE DEF n, v
    <2>4. /\ algorithm_name' \in [Plan -> Algorithm \cup {NoAlgorithm}]
          /\ network_config' \in [Plan -> Config]
      BY <2>1, <2>3, CompileTypes
    <2>5. /\ arg_list' \in [Plan -> {NoArgs} \cup [layout : Layout, ops : Seq(Op)]]
          /\ compiled' \in [Plan -> SUBSET Handle]
      <3>1. CASE Succeeds(p, h, v)
        BY <2>1, <2>3, <3>1, CompileTypes
      <3>2. CASE UNCHANGED <<arg_list, compiled>>
        BY <1>1, <3>2 DEF TypeOK
      <3> QED
        BY <2>2, <3>1, <3>2
    <2>6. kernel_info_valid' \in [Plan -> BOOLEAN]
      BY <1>1, <2>1 DEF TypeOK
    <2>7. ASSUME NEW r \in Plan \ {p}
          PROVE  /\ algorithm_name'[r] = algorithm_name[r]
                 /\ network_config'[r] = network_config[r]
                 /\ arg_list'[r] = arg_list[r] /\ compiled'[r] = compiled[r]
                 /\ kernel_info_valid'[r] = kernel_info_valid[r]
      <3>1. /\ algorithm_name'[r] = algorithm_name[r] /\ network_config'[r] = network_config[r]
            /\ kernel_info_valid'[r] = kernel_info_valid[r]
        BY <1>1, <2>1 DEF Names, TypeOK
      <3>2. arg_list'[r] = arg_list[r] /\ compiled'[r] = compiled[r]
        BY <1>1, <2>2 DEF Succeeds, TypeOK
      <3> QED
        BY <3>1, <3>2
    <2>8. /\ cur_vertex' = [cur_vertex EXCEPT ![p] = cur_vertex'[p]]
          /\ cur_vertex'[p] = <<cur_vertex[p][n]>>
          /\ \A r \in Plan \ {p} : cur_vertex'[r] = cur_vertex[r]
      BY <1>1, <2>1 DEF Narrows, TypeOK
    <2> QED
      BY <2>1, <2>2, <2>3, <2>4, <2>5, <2>6, <2>7, <2>8
  <1>4. CASE CompileNotViable(p, h)
    <2> DEFINE v == cur_vertex[p][LastOf(Supported(p, h))].vertex
    <2>1. /\ Usable(p, h) /\ Names(p, v)
          /\ cur_vertex' = [cur_vertex EXCEPT ![p] = IF TakenForSuccess(p, h) THEN <<>> ELSE @]
          /\ UNCHANGED <<op_map, is_valid, conv_algo_set, kernel_info_valid, arg_list,
                         requested, compiled, kernel_map>>
      BY <1>4 DEF CompileNotViable, Tries
    <2>2. v \in Vertex
      <3>1. LastOf(Supported(p, h)) \in Supported(p, h)
        BY <1>1, <2>1, UsablePlan, Places, LastOfPlaces
      <3> QED
        BY <1>1, <3>1, FirstSupported
    <2> HIDE DEF v
    <2>3. /\ algorithm_name' \in [Plan -> Algorithm \cup {NoAlgorithm}]
          /\ network_config' \in [Plan -> Config]
      BY <2>1, <2>2, CompileTypes
    <2>4. \A r \in Plan \ {p} : /\ algorithm_name'[r] = algorithm_name[r]
                                 /\ network_config'[r] = network_config[r]
                                 /\ cur_vertex'[r] = cur_vertex[r]
      BY <1>1, <2>1 DEF Names, TypeOK
    <2>5. /\ cur_vertex' = [cur_vertex EXCEPT ![p] = cur_vertex'[p]]
          /\ cur_vertex'[p] \in {cur_vertex[p], <<>>}
      BY <1>1, <2>1 DEF TypeOK
    <2>6. /\ kernel_info_valid' \in [Plan -> BOOLEAN]
          /\ arg_list' \in [Plan -> {NoArgs} \cup [layout : Layout, ops : Seq(Op)]]
          /\ compiled' \in [Plan -> SUBSET Handle]
      BY <1>1, <2>1 DEF TypeOK
    <2> QED
      BY <2>1, <2>3, <2>4, <2>5, <2>6
  <1> QED
    BY <1>2, <1>3, <1>4 DEF Compile

\* Compile cuts down the list of its plan, and adds at most one sound kernel.
LEMMA CompileSafe ==
    ASSUME SafeInv, NEW p \in Plan, NEW h \in Handle, Compile(p, h) PROVE SafeInv'
  <1>1. /\ TypeOK /\ op_map[p] # <<>> /\ PathsInv(op_map[p], cur_vertex[p])
        /\ cur_vertex[p] \in Seq(Path)
    BY CompileFrame, UsablePlan DEF SafeInv, TypeOK
  <1>2. CachesInv'
    BY CompileFrame, CachesKept, CachesGrow
  <1>3. cur_vertex'[p] \in Seq(Path) /\ PathsInv(op_map[p], cur_vertex'[p])
    <2>1. CASE cur_vertex'[p] = cur_vertex[p]
      BY <1>1, <2>1
    <2>2. CASE cur_vertex'[p] # cur_vertex[p]
      <3>1. PICK n \in DOMAIN cur_vertex[p] : cur_vertex'[p] \in {<<>>, <<cur_vertex[p][n]>>}
        <4>1. Supported(p, h) \subseteq DOMAIN cur_vertex[p] /\ Supported(p, h) # {}
          BY CompileFrame, UsablePlan DEF Supported
        <4> QED
          BY <2>2, <4>1, CompileFrame
      <3> QED
        BY <1>1, <3>1, FewerPaths
    <2> QED
      BY <2>1, <2>2
  <1>4. TypeOK'
    <2>1. cur_vertex' \in [Plan -> Seq(Path)]
      <3>1. cur_vertex' = [cur_vertex EXCEPT ![p] = cur_vertex'[p]]
        BY CompileFrame
      <3> DEFINE c == cur_vertex'[p]
      <3>2. cur_vertex' = [cur_vertex EXCEPT ![p] = c] /\ c \in Seq(Path)
            /\ cur_vertex \in [Plan -> Seq(Path)]
        BY <1>1, <1>3, <3>1 DEF TypeOK
      <3> HIDE DEF c
      <3> QED
        BY <3>2
    <2>2. /\ kernel_info_valid' \in [Plan -> BOOLEAN]
          /\ algorithm_name' \in [Plan -> Algorithm \cup {NoAlgorithm}]
          /\ network_config' \in [Plan -> Config]
          /\ arg_list' \in [Plan -> {NoArgs} \cup [layout : Layout, ops : Seq(Op)]]
          /\ compiled' \in [Plan -> SUBSET Handle]
          /\ UNCHANGED <<op_map, is_valid, conv_algo_set, requested>>
      BY CompileFrame
    <2> QED
      BY <1>1, <1>2, <2>1, <2>2 DEF TypeOK, CachesInv
  <1>5. ASSUME NEW r \in Plan PROVE (PathsInv(op_map[r], cur_vertex[r]) /\ NewInv(r))'
    <2>1. op_map' = op_map /\ is_valid' = is_valid /\ conv_algo_set' = conv_algo_set
      BY CompileFrame
    <2>2. CASE r = p
      BY <1>1, <1>3, <2>1, <2>2 DEF PathsInv, NewInv
    <2>3. CASE r # p
      <3>1. /\ cur_vertex'[r] = cur_vertex[r] /\ compiled'[r] = compiled[r]
            /\ kernel_info_valid'[r] = kernel_info_valid[r]
        BY <2>3, CompileFrame
      <3> QED
        BY <2>1, <3>1 DEF SafeInv, PathsInv, NewInv
    <2> QED
      BY <2>2, <2>3
  <1> QED
    BY <1>2, <1>4, <1>5 DEF SafeInv

\* The safety invariant is one.
LEMMA SafeStep == SafeInv /\ [Next]_vars => SafeInv'
  <1> SUFFICES ASSUME SafeInv, [Next]_vars PROVE SafeInv'
    OBVIOUS
  <1>1. ASSUME NEW p \in Plan, NEW o \in Op, AddOp(p, o) PROVE SafeInv'
    BY <1>1, AddOpSafe
  <1>2. ASSUME NEW p \in Plan, NEW a \in ConvAlgo, SetConvAlgo(p, a) PROVE SafeInv'
    BY <1>2, SetConvAlgoSafe
  <1>3. ASSUME NEW p \in Plan, NEW h \in Handle, Compile(p, h) PROVE SafeInv'
    BY <1>3, CompileSafe
  <1>4. CASE UNCHANGED vars
    BY <1>4 DEF vars, planVars, SafeInv, TypeOK, CachesInv, KernelsAreSound, PathsInv, NewInv,
                MadeFor, Does
  <1> QED
    BY <1>1, <1>2, <1>3, <1>4 DEF Next

\* The invariant that needs no assumption on the handles: the lists of paths come
\* from routes through the graph, the caches hold kernels of such routes.
THEOREM Safety == Spec => []SafeInv
  BY InitSafe, SafeStep, PTL DEF Spec

\* The plans and the caches are well typed.
THEOREM TypeCorrect == Spec => []TypeOK
  <1>1. SafeInv => TypeOK
    BY DEF SafeInv
  <1> QED
    BY <1>1, Safety, PTL

\* Every kernel in a cache is the one its key names, made for the device, with
\* the options of its own vertex: those that Compile collects on the way to it
\* never leak into it.
THEOREM SoundKernels == Spec => []KernelsAreSound
  <1>1. SafeInv => KernelsAreSound
    BY DEF SafeInv, CachesInv
  <1> QED
    BY <1>1, Safety, PTL

------------------------------------------------------------------------------
(* Kernels that are found.                                                  *)

\* The kernel that is found for a path was made for a path of the same solver,
\* which therefore has a solution, and it expects the same arguments.
LEMMA KernelFits ==
    ASSUME SafeInv, NEW p \in Plan, NEW h \in Handle, Usable(p, h), NEW n \in Supported(p, h),
           KernelsOf(p, h, cur_vertex[p][n].vertex) # <<>>
    PROVE  LET v == cur_vertex[p][n].vertex
               k == KernelsOf(p, h, v)[1]
           IN  /\ Applies(p, h, n)
               /\ k.config = GetNetworkConfig(p) /\ layout[k.vertex] = layout[v]
  <1> DEFINE v   == cur_vertex[p][n].vertex
             key == <<algorithm[v], GetNetworkConfig(p)>>
             k   == kernel_map[h][key][1]
  <1>1. /\ TypeOK /\ CachesInv /\ op_map[p] # <<>> /\ op_map[p] \in Seq(Op)
        /\ GetNetworkConfig(p).ops = op_map[p]
    BY UsablePlan DEF SafeInv
  <1>2. key \in DOMAIN kernel_map[h] /\ KernelsOf(p, h, v) = kernel_map[h][key]
    BY DEF KernelsOf, Cache!GetKernels
  <1>3. /\ key = <<algorithm[k.vertex], k.config>> /\ k.vertex \in supported[h]
        /\ MadeFor(k, h)
    BY <1>1, <1>2 DEF CachesInv, KernelsAreSound
  <1>4. algorithm[k.vertex] = algorithm[v] /\ k.config = GetNetworkConfig(p)
    BY <1>3
  <1>5. n \in DOMAIN cur_vertex[p] /\ v \in supported[h]
    BY <1>1, FirstSupported
  <1>6. PICK q \in Route : Follows(q, op_map[p]) /\ CameAlong(cur_vertex[p][n], q)
    BY <1>1, <1>5, PathRoute
  <1> HIDE DEF key, k
  <1>7. PICK r \in Route : /\ Follows(r, op_map[p]) /\ k.vertex = End(r)
                           /\ Does(SolverOn(r), h, op_map[p])
    BY <1>1, <1>3, <1>4 DEF MadeFor
  <1>8. SolverOn(q) = SolverOn(r) /\ layout[End(q)] = layout[End(r)]
    <2>1. OpsOn(q) = OpsOn(r)
      BY <1>1, <1>6, <1>7, SameOperators
    <2>2. End(q) = v /\ {End(q), End(r)} \subseteq supported[h]
      BY <1>3, <1>5, <1>6, <1>7 DEF CameAlong
    <2>3. algorithm[End(q)] = algorithm[End(r)]
      BY <1>4, <1>7, <2>2
    <2> QED
      BY <2>1, <2>2, <2>3, LibraryRoutes
  <1>9. Applies(p, h, n) /\ layout[k.vertex] = layout[v]
    BY <1>6, <1>7, <1>8 DEF Applies, Does, CameAlong
  <1> QED
    BY <1>2, <1>4, <1>9 DEF k

\* If the heaviest supported path has a kernel, it is the one Compile takes.
LEMMA CachedIsFirst ==
    ASSUME SafeInv, NEW p \in Plan, NEW h \in Handle, Usable(p, h),
           KernelsOf(p, h, GetCurVertex(p, h)) # <<>>
    PROVE  /\ Candidates(p, h) # {}
           /\ FirstOf(Candidates(p, h)) = FirstOf(Supported(p, h))
           /\ GetCurVertex(p, h) = cur_vertex[p][FirstOf(Candidates(p, h))].vertex
           /\ Applies(p, h, FirstOf(Supported(p, h)))
  <1> DEFINE n == FirstOf(Supported(p, h))
             m == FirstOf(Candidates(p, h))
  <1>1. TypeOK /\ Supported(p, h) # {}
    BY UsablePlan DEF SafeInv
  <1>2. /\ n \in Supported(p, h) /\ \A l \in Supported(p, h) : n <= l
        /\ GetCurVertex(p, h) = cur_vertex[p][n].vertex
    BY <1>1, FirstSupported
  <1>3. Applies(p, h, n)
    BY <1>2, KernelFits
  <1>4. n \in Candidates(p, h)
    BY <1>2, <1>3 DEF Candidates
  <1>5. m \in Supported(p, h) /\ m <= n
    BY <1>1, <1>4, FirstCandidate
  <1>6. n <= m /\ n \in Nat /\ m \in Nat
    BY <1>1, <1>2, <1>5, Places
  <1> HIDE DEF n, m
  <1>7. m = n
    BY <1>5, <1>6
  <1> QED
    BY <1>2, <1>3, <1>4, <1>7 DEF n, m

------------------------------------------------------------------------------
(* What AddOp extends.                                                      *)

\* An operator after the first keeps the solver and the weight of the path.
LEMMA LaterOperator ==
    ASSUME NEW e \in Path, e.vertex \in Vertex, NEW o \in Op, NEW v \in Vertex, opOf[v] = kind[o],
           NEW m \in DOMAIN weights[e.vertex][v]
    PROVE  /\ Extend(e, o, v, m) = [vertex |-> v, weight |-> e.weight, solver |-> e.solver]
           /\ \A h \in Handle : e.vertex \in supported[h] <=> v \in supported[h]
  <1>1. weights[e.vertex][v] # <<>>
    <2>1. weights[e.vertex][v] \in Seq(Nat)
      BY FusionAssumption
    <2> QED
      BY <2>1
  <1>2. kind[o] # "conv" /\ \A h \in Handle : e.vertex \in supported[h] <=> v \in supported[h]
    BY <1>1, LibraryEdges
  <1>3. WeightAfter(e.vertex, v, m) = 0
    BY WeightAfterType
  <1>4. e.weight + 0 = e.weight
    BY DEF Path
  <1> QED
    BY <1>2, <1>3, <1>4 DEF Extend

\* AddOp extends each of the paths that it can, along every edge.
LEMMA AddOpExtends ==
    ASSUME SafeInv, NEW p \in Plan, NEW o \in Op, AddOp(p, o), op_map[p] # <<>>
    PROVE  /\ op_map'[p] = Append(op_map[p], o) /\ op_map'[p][1] = op_map[p][1]
           /\ requested'[p] = requested[p] /\ kernel_info_valid'[p] = kernel_info_valid[p]
           /\ \A n \in DOMAIN cur_vertex'[p] : \E m \in DOMAIN cur_vertex[p] :
                 /\ cur_vertex'[p][n].solver = cur_vertex[p][m].solver
                 /\ cur_vertex'[p][n].weight = cur_vertex[p][m].weight
                 /\ \A h \in Handle : cur_vertex[p][m].vertex \in supported[h]
                                      <=> cur_vertex'[p][n].vertex \in supported[h]
           /\ \A m \in DOMAIN cur_vertex[p], v \in Vertex :
                 opOf[v] = kind[o] /\ weights[cur_vertex[p][m].vertex][v] # <<>> =>
                    [vertex |-> v, weight |-> cur_vertex[p][m].weight,
                     solver |-> cur_vertex[p][m].solver] \in Range(cur_vertex'[p])
  <1> DEFINE c == cur_vertex[p]
  <1>1. TypeOK /\ op_map[p] \in Seq(Op) /\ c \in Seq(Path)
    BY DEF SafeInv, TypeOK
  <1>2. PICK q \in Sorted(Advance(c, o)) : cur_vertex' = [cur_vertex EXCEPT ![p] = q]
    BY DEF AddOp
  <1>3. /\ \A n \in DOMAIN q : q[n] \in Advance(c, o)
        /\ \A e \in Advance(c, o) : \E n \in DOMAIN q : q[n] = e
    BY <1>1, <1>2, SortedList
  <1>4. /\ op_map'[p] = Append(op_map[p], o) /\ cur_vertex'[p] = q
        /\ requested'[p] = requested[p] /\ kernel_info_valid'[p] = kernel_info_valid[p]
    BY <1>1, <1>2 DEF AddOp, TypeOK
  <1>5. op_map'[p][1] = op_map[p][1]
    <2>1. 1 \in 1 .. Len(op_map[p])
      BY <1>1
    <2> QED
      BY <1>1, <1>4, <2>1, Longer
  <1>6. \A m \in DOMAIN c : c[m] \in Path /\ c[m].vertex \in Vertex
    <2> TAKE m \in DOMAIN c
    <2>1. c[m] \in Path
      BY <1>1
    <2>2. PICK r \in Route : CameAlong(c[m], r)
      BY PathRoute
    <2> QED
      BY <2>1, <2>2, RouteFacts DEF CameAlong
  <1> HIDE DEF c
  <1>7. ASSUME NEW n \in DOMAIN q
        PROVE  \E m \in DOMAIN c :
                   /\ q[n].solver = c[m].solver /\ q[n].weight = c[m].weight
                   /\ \A h \in Handle : c[m].vertex \in supported[h]
                                        <=> q[n].vertex \in supported[h]
    <2>1. PICK m \in DOMAIN c, v \in Vertex :
              /\ opOf[v] = kind[o]
              /\ \E l \in DOMAIN weights[c[m].vertex][v] : q[n] = Extend(c[m], o, v, l)
      BY <1>3, AdvanceElement
    <2>2. PICK l \in DOMAIN weights[c[m].vertex][v] : q[n] = Extend(c[m], o, v, l)
      BY <2>1
    <2>3. /\ q[n] = [vertex |-> v, weight |-> c[m].weight, solver |-> c[m].solver]
          /\ \A h \in Handle : c[m].vertex \in supported[h] <=> v \in supported[h]
      BY <1>6, <2>1, <2>2, LaterOperator
    <2> QED
      BY <2>3
  <1>8. ASSUME NEW m \in DOMAIN c, NEW v \in Vertex, opOf[v] = kind[o],
               weights[c[m].vertex][v] # <<>>
        PROVE  [vertex |-> v, weight |-> c[m].weight, solver |-> c[m].solver] \in Range(q)
    <2>1. 1 \in DOMAIN weights[c[m].vertex][v]
      <3>1. weights[c[m].vertex][v] \in Seq(Nat)
        BY <1>6, FusionAssumption
      <3> QED
        BY <1>8, <3>1
    <2>2. Extend(c[m], o, v, 1) = [vertex |-> v, weight |-> c[m].weight, solver |-> c[m].solver]
      BY <1>6, <1>8, <2>1, LaterOperator
    <2>3. Extend(c[m], o, v, 1) \in Advance(c, o)
      BY <1>8, <2>1, AdvanceElement
    <2> QED
      BY <1>3, <2>2, <2>3 DEF Range
  <1> QED
    BY <1>4, <1>5, <1>7, <1>8 DEF c

------------------------------------------------------------------------------
(* The missing vertex.                                                      *)

\* What AddOp adds is for the devices of the path that it extends.
LEMMA AddOpSolved ==
    ASSUME SafeInv, NEW p \in Plan, NEW o \in Op, AddOp(p, o), NEW h \in Handle, SolvedInv(p, h)
    PROVE  SolvedInv(p, h)'
  <1>1. SUFFICES ASSUME kernel_info_valid'[p]
                 PROVE  Supported(p, h)' \in {{}, DOMAIN cur_vertex'[p]}
    BY DEF SolvedInv
  <1>2. kernel_info_valid[p] /\ NewInv(p)
    BY <1>1 DEF AddOp, SafeInv
  <1>3. op_map[p] # <<>> /\ Supported(p, h) \in {{}, DOMAIN cur_vertex[p]}
    BY <1>2 DEF NewInv, SolvedInv
  <1>4. \A n \in DOMAIN cur_vertex'[p] : \E m \in DOMAIN cur_vertex[p] :
            cur_vertex[p][m].vertex \in supported[h] <=> cur_vertex'[p][n].vertex \in supported[h]
    BY <1>3, AddOpExtends
  <1> QED
    BY <1>3, <1>4 DEF Supported

\* SetConvAlgo keeps some of the paths.
LEMMA SetConvAlgoPlaces ==
    ASSUME SafeInv, NEW p \in Plan, NEW a, SetConvAlgo(p, a)
    PROVE  /\ \A n \in DOMAIN cur_vertex'[p] : \E m \in DOMAIN cur_vertex[p] :
                 cur_vertex'[p][n] = cur_vertex[p][m]
           /\ requested'[p] /\ kernel_info_valid' = kernel_info_valid
  <1> DEFINE kept == {n \in DOMAIN cur_vertex[p] : algo[cur_vertex[p][n].vertex] = a}
             list(order) == [n \in DOMAIN order |-> cur_vertex[p][order[n]]]
  <1>1. TypeOK /\ cur_vertex[p] \in Seq(Path)
    BY DEF SafeInv, TypeOK
  <1>2. PICK order \in SetToSeqs(kept) : cur_vertex' = [cur_vertex EXCEPT ![p] = list(order)]
    BY DEF SetConvAlgo
  <1>3. kept \in SUBSET DOMAIN cur_vertex[p]
    OBVIOUS
  <1>4. IsFiniteSet(kept)
    <2>1. IsFiniteSet(DOMAIN cur_vertex[p])
      BY <1>1, FS_Interval
    <2> HIDE DEF kept
    <2> QED
      BY <1>3, <2>1, FS_Subset
  <1>5. \A n \in DOMAIN order : order[n] \in DOMAIN cur_vertex[p]
    <2> HIDE DEF kept
    <2> QED
      BY <1>2, <1>3, <1>4, ListOfSet
  <1>6. cur_vertex'[p] = list(order)
    BY <1>1, <1>2 DEF TypeOK
  <1>7. requested'[p] /\ kernel_info_valid' = kernel_info_valid
    BY <1>1 DEF SetConvAlgo, TypeOK
  <1> QED
    BY <1>5, <1>6, <1>7

\* Compile leaves all paths, one path or none.
LEMMA CompileSolved ==
    ASSUME SafeInv, NEW p \in Plan, NEW g \in Handle, Compile(p, g), NEW h \in Handle,
           SolvedInv(p, h)
    PROVE  SolvedInv(p, h)'
  <1>1. CASE UNCHANGED <<cur_vertex, kernel_info_valid>>
    BY <1>1 DEF SolvedInv, Supported
  <1>2. CASE \E e : cur_vertex'[p] = <<e>>
    <2>1. PICK e : cur_vertex'[p] = <<e>>
      BY <1>2
    <2>2. DOMAIN cur_vertex'[p] = {1}
      BY <2>1
    <2> QED
      BY <2>2 DEF SolvedInv, Supported
  <1>3. CASE cur_vertex'[p] = <<>>
    BY <1>3 DEF SolvedInv, Supported
  <1>4. \/ UNCHANGED <<cur_vertex, kernel_info_valid>>
        \/ \E e : cur_vertex'[p] = <<e>>
        \/ cur_vertex'[p] = <<>>
    <2>1. TypeOK /\ cur_vertex = [cur_vertex EXCEPT ![p] = @]
      BY DEF SafeInv, TypeOK
    <2>2. CASE CompileCached(p, g)
      BY <2>2 DEF CompileCached
    <2>3. CASE CompileNew(p, g) \/ CompileNotBuilt(p, g)
      BY <2>1, <2>3 DEF CompileNew, CompileNotBuilt, Narrows, TypeOK
    <2>4. CASE CompileNotViable(p, g)
      <3>1. /\ UNCHANGED kernel_info_valid
            /\ cur_vertex' = [cur_vertex EXCEPT ![p] = IF TakenForSuccess(p, g) THEN <<>> ELSE @]
        BY <2>4 DEF CompileNotViable
      <3> QED
        BY <2>1, <3>1 DEF TypeOK
    <2> QED
      BY <2>2, <2>3, <2>4 DEF Compile
  <1> QED
    BY <1>1, <1>2, <1>3, <1>4

\* Init and every step.
LEMMA VertexInvariance == (Init => VertexInv) /\ (VertexInv /\ [Next]_vars => VertexInv')
  <1>1. Init => VertexInv
    <2> SUFFICES ASSUME Init PROVE VertexInv
      OBVIOUS
    <2>1. \A p \in Plan : ~ kernel_info_valid[p]
      BY DEF Init
    <2> QED
      BY <2>1, InitSafe DEF VertexInv, SolvedInv
  <1>2. ASSUME VertexInv, [Next]_vars PROVE VertexInv'
    <2>1. SafeInv /\ SafeInv' /\ TypeOK
      BY <1>2, SafeStep DEF VertexInv, SafeInv
    <2>2. ASSUME NEW p \in Plan, NEW h \in Handle,
                 cur_vertex'[p] = cur_vertex[p], kernel_info_valid'[p] = kernel_info_valid[p]
          PROVE  SolvedInv(p, h)'
      BY <1>2, <2>2 DEF VertexInv, SolvedInv, Supported
    <2>3. ASSUME NEW p \in Plan, \A h \in Handle : SolvedInv(p, h)',
                 \A r \in Plan \ {p} : /\ cur_vertex'[r] = cur_vertex[r]
                                       /\ kernel_info_valid'[r] = kernel_info_valid[r]
          PROVE  VertexInv'
      BY <2>1, <2>2, <2>3 DEF VertexInv
    <2>4. ASSUME NEW p \in Plan, NEW o \in Op, AddOp(p, o) PROVE VertexInv'
      <3>1. \A h \in Handle : SolvedInv(p, h)'
        BY <1>2, <2>1, <2>4, AddOpSolved DEF VertexInv
      <3>2. \A r \in Plan \ {p} : /\ cur_vertex'[r] = cur_vertex[r]
                                   /\ kernel_info_valid'[r] = kernel_info_valid[r]
        BY <2>1, <2>4 DEF AddOp, TypeOK
      <3> QED
        BY <2>3, <3>1, <3>2
    <2>5. ASSUME NEW p \in Plan, NEW a \in ConvAlgo, SetConvAlgo(p, a) PROVE VertexInv'
      <3>1. ASSUME NEW h \in Handle PROVE SolvedInv(p, h)'
        <4>1. /\ \A n \in DOMAIN cur_vertex'[p] : \E m \in DOMAIN cur_vertex[p] :
                    cur_vertex'[p][n] = cur_vertex[p][m]
              /\ kernel_info_valid' = kernel_info_valid
          BY <2>1, <2>5, SetConvAlgoPlaces
        <4> QED
          BY <1>2, <4>1 DEF VertexInv, SolvedInv, Supported
      <3>2. \A r \in Plan \ {p} : /\ cur_vertex'[r] = cur_vertex[r]
                                   /\ kernel_info_valid'[r] = kernel_info_valid[r]
        BY <2>1, <2>5 DEF SetConvAlgo, TypeOK
      <3> QED
        BY <2>3, <3>1, <3>2
    <2>6. ASSUME NEW p \in Plan, NEW h \in Handle, Compile(p, h) PROVE VertexInv'
      <3>1. \A g \in Handle : SolvedInv(p, g)'
        BY <1>2, <2>1, <2>6, CompileSolved DEF VertexInv
      <3>2. \A r \in Plan \ {p} : /\ cur_vertex'[r] = cur_vertex[r]
                                   /\ kernel_info_valid'[r] = kernel_info_valid[r]
        BY <2>1, <2>6, CompileFrame
      <3> QED
        BY <2>3, <3>1, <3>2
    <2>7. CASE UNCHANGED vars
      BY <2>1, <2>2, <2>7 DEF VertexInv, vars, planVars
    <2> QED
      BY <1>2, <2>4, <2>5, <2>6, <2>7 DEF Next
  <1> QED
    BY <1>1, <1>2

\* When a list without a solution is taken for a success, GetLocalWGSz ends the
\* call: there is no kernel, and the convolution has never been solved.  For any
\* handles, also of different devices.
THEOREM VertexNotMissed == Spec => []NoMissingVertex
  <1>1. VertexInv => NoMissingVertex
    <2> SUFFICES ASSUME VertexInv, NEW p \in Plan, NEW h \in Handle, Tries(p, h),
                        Candidates(p, h) = {}, TakenForSuccess(p, h)
                 PROVE  /\ KernelsOf(p, h, cur_vertex[p][LastOf(Supported(p, h))].vertex) = <<>>
                        /\ ~ kernel_info_valid[p]
      BY DEF NoMissingVertex
    <2> DEFINE n == LastOf(Supported(p, h))
    <2>1. SafeInv /\ TypeOK /\ SolvedInv(p, h) /\ Usable(p, h) /\ Supported(p, h) # {}
      BY UsablePlan DEF VertexInv, SafeInv, Tries
    <2>2. n \in Supported(p, h)
      BY <2>1, Places, LastOfPlaces
    <2>3. ~ Applies(p, h, n)
      BY <2>2 DEF Candidates
    <2> HIDE DEF n
    <2>4. KernelsOf(p, h, cur_vertex[p][n].vertex) = <<>>
      BY <2>1, <2>2, <2>3, KernelFits
    <2>5. ASSUME kernel_info_valid[p] PROVE FALSE
      <3>1. Supported(p, h) = DOMAIN cur_vertex[p]
        BY <2>1, <2>5 DEF SolvedInv
      <3>2. Len(cur_vertex[p]) \in DOMAIN cur_vertex[p]
        <4>1. DOMAIN cur_vertex[p] = 1 .. Len(cur_vertex[p]) /\ Len(cur_vertex[p]) \in Nat
          BY <2>1, Places
        <4> QED
          BY <2>2, <3>1, <4>1
      <3> QED
        BY <3>1, <3>2 DEF TakenForSuccess
    <2> QED
      BY <2>4, <2>5 DEF n
  <1> QED
    BY <1>1, VertexInvariance, PTL DEF Spec

------------------------------------------------------------------------------
(* One kind of device: what is compiled runs.                               *)

\* All handles see the same paths.
LEMMA SameDevice ==
    ASSUME OneDevice, NEW p \in Plan, NEW g \in Handle, NEW h \in Handle
    PROVE  /\ supported[g] = supported[h] /\ applicable[g] = applicable[h]
           /\ Supported(p, g) = Supported(p, h) /\ Candidates(p, g) = Candidates(p, h)
           /\ GetCurVertex(p, g) = GetCurVertex(p, h) /\ Usable(p, g) = Usable(p, h)
           /\ \A s, ops : Does(s, g, ops) = Does(s, h, ops)
  <1>1. supported[g] = supported[h] /\ applicable[g] = applicable[h]
    BY DEF OneDevice
  <1>2. Supported(p, g) = Supported(p, h)
    BY <1>1 DEF Supported
  <1>3. \A n : Applies(p, g, n) = Applies(p, h, n)
    BY <1>1 DEF Applies
  <1>4. Candidates(p, g) = Candidates(p, h)
    BY <1>2, <1>3 DEF Candidates
  <1>5. GetCurVertex(p, g) = GetCurVertex(p, h)
    BY <1>2 DEF GetCurVertex
  <1>6. Usable(p, g) = Usable(p, h)
    BY <1>5 DEF Usable
  <1>7. \A s, ops : Does(s, g, ops) = Does(s, h, ops)
    BY <1>1 DEF Does
  <1> QED
    BY <1>1, <1>2, <1>4, <1>5, <1>6, <1>7

\* A plan that a step leaves alone, while kernels are only added, stays as
\* Compile left it.
LEMMA OtherPlan ==
    ASSUME NEW r \in Plan, NEW g \in Handle,
           op_map'[r] = op_map[r], is_valid'[r] = is_valid[r], cur_vertex'[r] = cur_vertex[r],
           requested'[r] = requested[r], algorithm_name'[r] = algorithm_name[r],
           network_config'[r] = network_config[r],
           arg_list'[r] = arg_list[r],
           \A x \in DOMAIN kernel_map[g] :
               x \in DOMAIN kernel_map'[g] /\ kernel_map'[g][x] = kernel_map[g][x]
    PROVE  /\ CompiledInv(r, g) => CompiledInv(r, g)'
           /\ BestInv(r, g) => BestInv(r, g)'
  <1>1. BestInv(r, g) => BestInv(r, g)'
    BY DEF BestInv, Full, Narrowed, Does, Follows, Range
  <1>2. GetCurVertex(r, g)' = GetCurVertex(r, g) /\ GetNetworkConfig(r)' = GetNetworkConfig(r)
    BY DEF GetCurVertex, Supported, GetNetworkConfig
  <1>3. Usable(r, g)' = Usable(r, g)
    BY <1>2 DEF Usable
  <1>4. ASSUME NEW v, KernelsOf(r, g, v) # <<>> PROVE KernelsOf(r, g, v)' # <<>>
    <2>1. <<algorithm[v], GetNetworkConfig(r)>> \in DOMAIN kernel_map[g]
      BY <1>4 DEF KernelsOf, Cache!GetKernels
    <2> QED
      BY <1>2, <1>4, <2>1 DEF KernelsOf, Cache!GetKernels
  <1>5. CompiledInv(r, g) => CompiledInv(r, g)'
    <2> SUFFICES ASSUME CompiledInv(r, g) PROVE CompiledInv(r, g)'
      OBVIOUS
    <2>1. (KernelsOf(r, g, GetCurVertex(r, g)) # <<>>)'
      BY <1>2, <1>4 DEF CompiledInv
    <2> QED
      BY <1>2, <1>3, <2>1 DEF CompiledInv
  <1> QED
    BY <1>1, <1>5

\* After the first operator the list has every path ...
LEMMA AddOpFirst ==
    ASSUME SafeInv, NEW p \in Plan, NEW o \in Op, AddOp(p, o), op_map[p] = <<>>
    PROVE  Full(p)'
  <1>1. TypeOK /\ cur_vertex[p] = Empty /\ Empty \in Seq(Path)
    BY DEF SafeInv, PathsInv, TypeOK
  <1>2. PICK s \in Sorted(Advance(Empty, o)) : cur_vertex' = [cur_vertex EXCEPT ![p] = s]
    BY <1>1 DEF AddOp
  <1>3. op_map'[p] = <<o>> /\ cur_vertex'[p] = s
    BY <1>1, <1>2 DEF AddOp, TypeOK
  <1>4. SUFFICES ASSUME NEW q \in Route, Follows(q, <<o>>), NEW x \in WeightsOn(q)
                 PROVE  [vertex |-> End(q), weight |-> x, solver |-> SolverOn(q)] \in Range(s)
    BY <1>3 DEF Full, Follows
  <1> DEFINE e == [vertex |-> End(q), weight |-> x, solver |-> SolverOn(q)]
             v == q[1]
  <1>5. Len(q) = 1 /\ v \in Vertex /\ opOf[v] = kind[o] /\ End(q) = v
    <2>1. DOMAIN q = 1 .. 1 /\ opOf[v] = kind[o]
      BY <1>4 DEF Follows
    <2>2. DOMAIN q = 1 .. Len(q) /\ Len(q) \in Nat /\ v \in Vertex
      BY RouteFacts
    <2>3. Len(q) = 1
      BY <2>1, <2>2, SameLength
    <2> QED
      BY <2>1, <2>2, <2>3 DEF End
  <1>6. PICK m \in DOMAIN weights[Root][v] : x = WeightAfter(Root, v, m)
    BY <1>4 DEF WeightsOn
  <1>7. /\ Empty[1] = [vertex |-> Root, weight |-> 0, solver |-> NoSolver]
        /\ 1 \in DOMAIN Empty
    BY DEF Empty
  <1>8. x \in Nat
    BY <1>5, <1>6, WeightAfterType
  <1>9. e = Extend(Empty[1], o, v, m)
    BY <1>5, <1>6, <1>7, <1>8 DEF Extend, SolverOn
  <1>10. e \in Advance(Empty, o)
    <2> HIDE DEF e, v
    <2>1. m \in DOMAIN weights[Empty[1].vertex][v]
      BY <1>6, <1>7
    <2> QED
      BY <1>5, <1>7, <1>9, <2>1, AdvanceElement
  <1> HIDE DEF e
  <1>11. e \in Range(s)
    BY <1>1, <1>2, <1>10, SortedList DEF Range
  <1> QED
    BY <1>11 DEF e

\* ... and a further operator keeps it so, or drops none that matters.
LEMMA AddOpBest ==
    ASSUME IInv, NEW p \in Plan, NEW o \in Op, AddOp(p, o), NEW h \in Handle
    PROVE  BestInv(p, h)'
  <1>1. SafeInv /\ BestInv(p, h) /\ TypeOK /\ op_map[p] \in Seq(Op)
    BY DEF IInv, SafeInv, TypeOK
  <1>2. CASE op_map[p] = <<>>
    BY <1>1, <1>2, AddOpFirst DEF BestInv
  <1>3. CASE op_map[p] # <<>>
    <2>1. op_map'[p] = Append(op_map[p], o) /\ op_map'[p][1] = op_map[p][1]
          /\ requested'[p] = requested[p]
      BY <1>1, <1>3, AddOpExtends
    <2>2. ASSUME NEW r \in Route, Follows(r, op_map'[p])
          PROVE  \E q \in Route :
                    /\ Follows(q, op_map[p]) /\ weights[End(q)][End(r)] # <<>>
                    /\ opOf[End(r)] = kind[o] /\ End(r) \in Vertex /\ End(q) \in Vertex
                    /\ SolverOn(r) = SolverOn(q) /\ WeightsOn(r) = WeightsOn(q)
      BY <1>1, <1>3, <2>1, <2>2, RouteBefore, RouteFacts
    <2>3. CASE Full(p)
      <3>1. ASSUME NEW r \in Route, Follows(r, op_map'[p]), NEW x \in WeightsOn(r)
            PROVE  [vertex |-> End(r), weight |-> x, solver |-> SolverOn(r)]
                       \in Range(cur_vertex'[p])
        <4>1. PICK q \in Route :
                 /\ Follows(q, op_map[p]) /\ weights[End(q)][End(r)] # <<>>
                 /\ opOf[End(r)] = kind[o] /\ End(r) \in Vertex
                 /\ SolverOn(r) = SolverOn(q) /\ WeightsOn(r) = WeightsOn(q)
          BY <2>2, <3>1
        <4>2. PICK m \in DOMAIN cur_vertex[p] :
                  cur_vertex[p][m] = [vertex |-> End(q), weight |-> x, solver |-> SolverOn(q)]
          BY <2>3, <3>1, <4>1 DEF Full, Range
        <4>3. /\ cur_vertex[p][m].vertex = End(q) /\ cur_vertex[p][m].weight = x
              /\ cur_vertex[p][m].solver = SolverOn(r)
          BY <4>1, <4>2
        <4> QED
          BY <1>1, <1>3, <4>1, <4>3, AddOpExtends
      <3>2. Full(p)'
        BY <3>1 DEF Full, Follows
      <3> QED
        BY <3>2 DEF BestInv
    <2>4. CASE Narrowed(p, h)
      <3>1. ASSUME NEW n \in DOMAIN cur_vertex'[p]
            PROVE  /\ cur_vertex'[p][n].vertex \in supported[h]
                   /\ Does(cur_vertex'[p][n].solver, h, op_map'[p])
                   /\ \A r \in Route : Follows(r, op_map'[p]) /\ End(r) \in supported[h]
                                       /\ Does(SolverOn(r), h, op_map'[p])
                         => \A x \in WeightsOn(r) : x <= cur_vertex'[p][n].weight
        <4>1. PICK m \in DOMAIN cur_vertex[p] :
                 /\ cur_vertex'[p][n].solver = cur_vertex[p][m].solver
                 /\ cur_vertex'[p][n].weight = cur_vertex[p][m].weight
                 /\ \A g \in Handle : cur_vertex[p][m].vertex \in supported[g]
                                      <=> cur_vertex'[p][n].vertex \in supported[g]
          BY <1>1, <1>3, AddOpExtends
        <4>2. /\ cur_vertex[p][m].vertex \in supported[h]
              /\ Does(cur_vertex[p][m].solver, h, op_map[p])
          BY <2>4 DEF Narrowed
        <4>3. Does(cur_vertex'[p][n].solver, h, op_map'[p])
          BY <2>1, <4>1, <4>2 DEF Does
        <4>4. ASSUME NEW r \in Route, Follows(r, op_map'[p]), End(r) \in supported[h],
                     Does(SolverOn(r), h, op_map'[p]), NEW x \in WeightsOn(r)
              PROVE  x <= cur_vertex'[p][n].weight
          <5>1. PICK q \in Route :
                   /\ Follows(q, op_map[p]) /\ weights[End(q)][End(r)] # <<>>
                   /\ End(r) \in Vertex /\ End(q) \in Vertex
                   /\ SolverOn(r) = SolverOn(q) /\ WeightsOn(r) = WeightsOn(q)
            BY <2>2, <4>4
          <5>2. End(q) \in supported[h]
            BY <4>4, <5>1, LibraryEdges
          <5>3. Does(SolverOn(q), h, op_map[p])
            BY <2>1, <4>4, <5>1 DEF Does
          <5> QED
            BY <2>4, <4>1, <4>4, <5>1, <5>2, <5>3 DEF Narrowed
        <4> QED
          BY <4>1, <4>2, <4>3, <4>4
      <3>2. Narrowed(p, h)'
        BY <3>1 DEF Narrowed, Follows, Does
      <3> QED
        BY <3>2 DEF BestInv
    <2>5. CASE requested[p]
      BY <2>1, <2>5 DEF BestInv
    <2> QED
      BY <1>1, <1>3, <2>3, <2>4, <2>5 DEF BestInv
  <1> QED
    BY <1>2, <1>3

\* What is left when Compile takes a path, with or without a kernel for it: the
\* heaviest that has a solution.
LEMMA CompileTakes ==
    ASSUME OneDevice, IInv, NEW p \in Plan, NEW h \in Handle,
           CompileNew(p, h) \/ CompileNotBuilt(p, h), NEW g \in Handle
    PROVE  LET v == cur_vertex[p][FirstOf(Candidates(p, h))].vertex IN
           /\ BestInv(p, g)'
           /\ Usable(p, g)' /\ GetCurVertex(p, g)' = v
           /\ algorithm_name'[p] = algorithm[v] /\ network_config'[p] = GetNetworkConfig(p)'
           /\ GetNetworkConfig(p)' = GetNetworkConfig(p)
  <1> DEFINE n == FirstOf(Candidates(p, h))
             e == cur_vertex[p][n]
  <1>1. SafeInv /\ TypeOK /\ BestInv(p, h) /\ PathsInv(op_map[p], cur_vertex[p])
    BY DEF IInv, SafeInv
  <1>2. /\ Usable(p, h) /\ Candidates(p, h) # {}
        /\ UNCHANGED <<op_map, is_valid, requested>>
        /\ Names(p, e.vertex) /\ Narrows(p, n)
    BY DEF CompileNew, CompileNotBuilt, Tries
  <1>3. /\ n \in DOMAIN cur_vertex[p] /\ Applies(p, h, n) /\ \A m \in Candidates(p, h) : n <= m
        /\ e \in Path /\ e.vertex \in supported[h] /\ e.vertex \in Vertex
    BY <1>1, <1>2, FirstCandidate
  <1>4. op_map[p] # <<>> /\ supported[g] = supported[h]
        /\ \A s, ops : Does(s, g, ops) = Does(s, h, ops)
    BY <1>1, <1>2, UsablePlan, SameDevice
  <1> HIDE DEF n
  <1>5. /\ cur_vertex'[p] = <<e>> /\ algorithm_name'[p] = algorithm[e.vertex]
        /\ network_config'[p] = GetNetworkConfig(p)
    BY <1>1, <1>2 DEF Narrows, Names, TypeOK
  <1>6. Does(e.solver, h, op_map[p])
    BY <1>3 DEF Applies, Does
  <1>7. BestInv(p, g)'
    <2> SUFFICES ASSUME ~ requested[p] PROVE Narrowed(p, g)'
      BY <1>2 DEF BestInv
    <2>1. ASSUME NEW q \in Route, Follows(q, op_map[p]), End(q) \in supported[h],
                 Does(SolverOn(q), h, op_map[p]), NEW x \in WeightsOn(q)
          PROVE  x <= e.weight
      <3>1. CASE Full(p)
        <4>1. PICK m \in DOMAIN cur_vertex[p] :
                  cur_vertex[p][m] = [vertex |-> End(q), weight |-> x, solver |-> SolverOn(q)]
          BY <2>1, <3>1 DEF Full, Range
        <4>2. m \in Candidates(p, h)
          BY <2>1, <4>1 DEF Candidates, Supported, Applies, Does
        <4>3. n <= m /\ n \in Nat /\ m \in Nat /\ x \in Nat
          BY <1>1, <1>3, <2>1, <4>2, Places, RouteFacts
        <4>4. cur_vertex[p][m].weight = x
          BY <4>1
        <4>5. CASE n = m
          BY <4>3, <4>4, <4>5
        <4>6. CASE n # m
          <5>1. n < m
            BY <4>3, <4>6
          <5>2. e.weight >= cur_vertex[p][m].weight
            BY <1>1, <1>3, <4>1, <5>1 DEF PathsInv
          <5>3. e.weight \in Nat
            BY <1>3 DEF Path
          <5> QED
            BY <4>3, <4>4, <5>2, <5>3
        <4> QED
          BY <4>5, <4>6
      <3>2. CASE Narrowed(p, h)
        BY <1>3, <2>1, <3>2 DEF Narrowed
      <3> QED
        BY <1>1, <1>4, <3>1, <3>2 DEF BestInv
    <2>2. \A m \in DOMAIN cur_vertex'[p] : cur_vertex'[p][m] = e
      BY <1>5
    <2> HIDE DEF e
    <2> QED
      BY <1>2, <1>3, <1>4, <1>6, <2>1, <2>2 DEF Narrowed, Follows, Does
  <1>8. GetCurVertex(p, g)' = e.vertex /\ GetCurVertex(p, g)' # Root
    <2>1. cur_vertex'[p][1] = e /\ DOMAIN cur_vertex'[p] = {1}
      BY <1>5
    <2>2. Supported(p, g)' = {1}
      BY <1>3, <1>4, <2>1 DEF Supported
    <2>3. FirstOf(Supported(p, g)') = 1
      BY <2>2, FirstOfPlaces
    <2>4. GetCurVertex(p, g)' = cur_vertex'[p][FirstOf(Supported(p, g)')].vertex
      BY <2>2 DEF GetCurVertex
    <2> QED
      BY <1>3, <2>1, <2>3, <2>4, FusionAssumption
  <1>9. Usable(p, g)' /\ GetNetworkConfig(p)' = GetNetworkConfig(p)
    BY <1>2, <1>8 DEF Usable, GetNetworkConfig
  <1> QED
    BY <1>5, <1>7, <1>8, <1>9 DEF n

\* A plan that a handle has compiled has a path for it that has a solution.
LEMMA CompiledTakes ==
    ASSUME OneDevice, IInv, NEW p \in Plan, NEW g \in compiled[p], NEW h \in Handle
    PROVE  /\ g \in Handle /\ CompiledInv(p, g) /\ Candidates(p, h) # {}
           /\ GetCurVertex(p, g) = cur_vertex[p][FirstOf(Candidates(p, h))].vertex
  <1>1. g \in Handle /\ CompiledInv(p, g) /\ SafeInv
    BY DEF IInv, SafeInv, TypeOK
  <1>2. /\ Candidates(p, g) # {}
        /\ GetCurVertex(p, g) = cur_vertex[p][FirstOf(Candidates(p, g))].vertex
    BY <1>1, CachedIsFirst DEF CompiledInv
  <1> QED
    BY <1>1, <1>2, SameDevice

\* Compile keeps the invariant.
LEMMA CompileKeeps ==
    ASSUME OneDevice, IInv, NEW p \in Plan, NEW h \in Handle, Compile(p, h), NEW g \in Handle
    PROVE  /\ BestInv(p, g)'
           /\ g \in compiled'[p] => CompiledInv(p, g)'
  <1>1. /\ SafeInv /\ TypeOK /\ BestInv(p, g)
        /\ g \in compiled[p] => CompiledInv(p, g)
    BY DEF IInv, SafeInv
  <1>2. CASE CompileCached(p, h)
    <2> DEFINE v == GetCurVertex(p, h)
    <2>1. /\ UNCHANGED <<op_map, is_valid, cur_vertex, kernel_info_valid, requested, kernel_map>>
          /\ Usable(p, h) /\ KernelsOf(p, h, v) # <<>>
      BY <1>2 DEF CompileCached
    <2>2. /\ algorithm_name'[p] = algorithm[v] /\ network_config'[p] = GetNetworkConfig(p)
          /\ arg_list'[p] = [layout |-> layout[v], ops |-> op_map[p]]
          /\ compiled'[p] = compiled[p] \cup {h}
      BY <1>1, <1>2 DEF CompileCached, Names, Succeeds, TypeOK
    <2>3. BestInv(p, g)'
      BY <1>1, <2>1 DEF BestInv, Full, Narrowed, Does, Follows
    <2>4. /\ GetCurVertex(p, g)' = GetCurVertex(p, g) /\ Usable(p, g)' = Usable(p, g)
          /\ GetNetworkConfig(p)' = GetNetworkConfig(p)
      BY <2>1 DEF GetCurVertex, Supported, Usable, GetNetworkConfig
    <2>5. GetCurVertex(p, g) = v /\ Usable(p, g)
      BY <2>1, SameDevice
    <2>6. ASSUME g \in compiled'[p] PROVE KernelsOf(p, g, v) # <<>>
      BY <1>1, <2>1, <2>2, <2>5, <2>6 DEF CompiledInv
    <2> HIDE DEF v
    <2>7. (KernelsOf(p, g, GetCurVertex(p, g)))' = KernelsOf(p, g, v)
      BY <2>1, <2>4, <2>5 DEF KernelsOf
    <2>8. ASSUME g \in compiled'[p] PROVE CompiledInv(p, g)'
      BY <2>1, <2>2, <2>4, <2>5, <2>6, <2>7, <2>8 DEF CompiledInv
    <2> QED
      BY <2>3, <2>8
  <1>3. CASE CompileNew(p, h)
    <2> DEFINE v == cur_vertex[p][FirstOf(Candidates(p, h))].vertex
               key == <<algorithm[v], GetNetworkConfig(p)>>
    <2>1. /\ BestInv(p, g)'
          /\ Usable(p, g)' /\ GetCurVertex(p, g)' = v
          /\ algorithm_name'[p] = algorithm[v] /\ network_config'[p] = GetNetworkConfig(p)'
          /\ GetNetworkConfig(p)' = GetNetworkConfig(p)
      BY <1>3, CompileTakes
    <2>2. /\ arg_list'[p] = [layout |-> layout[v], ops |-> op_map'[p]]
          /\ compiled'[p] = compiled[p] \cup {h}
      BY <1>1, <1>3 DEF CompileNew, Succeeds, TypeOK
    <2>3. /\ CachesInv' /\ key \in DOMAIN kernel_map'[h]
          /\ \A x \in DOMAIN kernel_map[g] :
                x \in DOMAIN kernel_map'[g] /\ kernel_map'[g][x] = kernel_map[g][x]
      <3>1. NewKernel(p, h).vertex = v
        BY DEF NewKernel
      <3> HIDE DEF v
      <3> QED
        BY <1>1, <1>3, <3>1, CachesGrow
    <2>4. ASSUME g \in compiled'[p] PROVE key \in DOMAIN kernel_map'[g]
      <3>1. CASE g = h
        BY <2>3, <3>1
      <3>2. CASE g # h
        <4>1. g \in compiled[p]
          BY <2>2, <2>4, <3>2
        <4>2. KernelsOf(p, g, v) # <<>>
          BY <4>1, CompiledTakes DEF CompiledInv
        <4>3. key \in DOMAIN kernel_map[g]
          BY <4>2 DEF KernelsOf, Cache!GetKernels
        <4> QED
          BY <2>3, <4>3
      <3> QED
        BY <3>1, <3>2
    <2> HIDE DEF v
    <2>5. ASSUME g \in compiled'[p] PROVE (KernelsOf(p, g, GetCurVertex(p, g)) # <<>>)'
      <3>1. kernel_map'[g][key] # <<>>
        BY <2>3, <2>4, <2>5 DEF CachesInv
      <3>2. (KernelsOf(p, g, GetCurVertex(p, g)))' = kernel_map'[g][key]
        BY <2>1, <2>4, <2>5 DEF KernelsOf, Cache!GetKernels
      <3> QED
        BY <3>1, <3>2
    <2>6. ASSUME g \in compiled'[p] PROVE CompiledInv(p, g)'
      BY <2>1, <2>2, <2>5, <2>6 DEF CompiledInv
    <2> QED
      BY <2>1, <2>6
  <1>4. CASE CompileNotBuilt(p, h)
    <2> DEFINE v == cur_vertex[p][FirstOf(Candidates(p, h))].vertex
    <2>1. /\ BestInv(p, g)'
          /\ Usable(p, g)' /\ GetCurVertex(p, g)' = v
          /\ algorithm_name'[p] = algorithm[v] /\ network_config'[p] = GetNetworkConfig(p)'
          /\ GetNetworkConfig(p)' = GetNetworkConfig(p)
      BY <1>4, CompileTakes
    <2>2. UNCHANGED <<op_map, arg_list, compiled, kernel_map>>
      BY <1>4 DEF CompileNotBuilt
    <2>3. ASSUME g \in compiled[p]
          PROVE  /\ v = GetCurVertex(p, g) /\ KernelsOf(p, g, v) # <<>>
                 /\ arg_list[p] = [layout |-> layout[v], ops |-> op_map[p]]
      BY <2>3, CompiledTakes DEF CompiledInv
    <2> HIDE DEF v
    <2>4. (KernelsOf(p, g, GetCurVertex(p, g)))' = KernelsOf(p, g, v)
      BY <2>1, <2>2 DEF KernelsOf
    <2>5. ASSUME g \in compiled'[p] PROVE CompiledInv(p, g)'
      BY <2>1, <2>2, <2>3, <2>4, <2>5 DEF CompiledInv
    <2> QED
      BY <2>1, <2>5
  <1>5. CASE CompileNotViable(p, h)
    <2>1. /\ UNCHANGED <<op_map, kernel_info_valid, requested, compiled>>
          /\ cur_vertex'[p] \in {cur_vertex[p], <<>>} /\ Candidates(p, h) = {}
      BY <1>1, <1>5 DEF CompileNotViable, TypeOK
    <2>2. g \notin compiled'[p]
      BY <2>1, CompiledTakes
    <2>3. CASE cur_vertex'[p] = cur_vertex[p]
      <3>1. BestInv(p, g)'
        BY <1>1, <2>1, <2>3 DEF BestInv, Full, Narrowed, Does, Follows
      <3> QED
        BY <2>2, <3>1
    <2>4. CASE cur_vertex'[p] = <<>>
      <3>1. Narrowed(p, g)'
        BY <2>4 DEF Narrowed
      <3> QED
        BY <2>2, <3>1 DEF BestInv
    <2> QED
      BY <2>1, <2>3, <2>4
  <1> QED
    BY <1>2, <1>3, <1>4, <1>5 DEF Compile

\* There are no operators yet, and nothing is compiled.
LEMMA InitInv == Init => IInv
  <1> SUFFICES ASSUME Init PROVE IInv
    OBVIOUS
  <1>1. SafeInv
    BY InitSafe
  <1>2. \A p \in Plan : op_map[p] = <<>> /\ ~ kernel_info_valid[p] /\ compiled[p] = {}
    BY DEF Init
  <1> QED
    BY <1>1, <1>2 DEF IInv, BestInv

\* Steps of one plan leave the others as they are (OtherPlan); the plan itself
\* is new to compile after AddOp and SetConvAlgo, and as above after Compile.
LEMMA InvStep == OneDevice /\ IInv /\ [Next]_vars => IInv'
  <1> SUFFICES ASSUME OneDevice, IInv, [Next]_vars PROVE IInv'
    OBVIOUS
  <1>1. SafeInv /\ SafeInv' /\ TypeOK
    BY SafeStep DEF IInv, SafeInv
  <1>2. ASSUME NEW p \in Plan, UNCHANGED kernel_map, compiled'[p] = {},
               \A g \in Handle : BestInv(p, g)',
               \A r \in Plan \ {p} :
                   /\ op_map'[r] = op_map[r] /\ is_valid'[r] = is_valid[r]
                   /\ cur_vertex'[r] = cur_vertex[r]
                   /\ requested'[r] = requested[r] /\ algorithm_name'[r] = algorithm_name[r]
                   /\ network_config'[r] = network_config[r] /\ arg_list'[r] = arg_list[r]
                   /\ compiled'[r] = compiled[r]
        PROVE  IInv'
    <2>1. ASSUME NEW r \in Plan \ {p}, NEW g \in Handle
          PROVE  /\ g \in compiled[r] => CompiledInv(r, g)'
                 /\ BestInv(r, g)'
      <3>1. /\ BestInv(r, g)
            /\ g \in compiled[r] => CompiledInv(r, g)
        BY DEF IInv
      <3> QED
        BY <1>2, <3>1, OtherPlan
    <2>2. \A r \in Plan : compiled'[r] \subseteq Handle
      BY <1>1 DEF SafeInv, TypeOK
    <2> QED
      BY <1>1, <1>2, <2>1, <2>2 DEF IInv
  <1>3. ASSUME NEW p \in Plan, NEW o \in Op, AddOp(p, o) PROVE IInv'
    <2>1. UNCHANGED kernel_map /\ compiled'[p] = {}
      BY <1>1, <1>3 DEF AddOp, TypeOK
    <2>2. \A g \in Handle : BestInv(p, g)'
      BY <1>3, AddOpBest
    <2>3. \A r \in Plan \ {p} :
              /\ op_map'[r] = op_map[r] /\ is_valid'[r] = is_valid[r]
              /\ cur_vertex'[r] = cur_vertex[r]
              /\ requested'[r] = requested[r] /\ algorithm_name'[r] = algorithm_name[r]
              /\ network_config'[r] = network_config[r] /\ arg_list'[r] = arg_list[r]
              /\ compiled'[r] = compiled[r]
      BY <1>1, <1>3 DEF AddOp, TypeOK
    <2> QED
      BY <1>2, <2>1, <2>2, <2>3
  <1>4. ASSUME NEW p \in Plan, NEW a \in ConvAlgo, SetConvAlgo(p, a) PROVE IInv'
    <2>1. UNCHANGED kernel_map /\ compiled'[p] = {}
      BY <1>1, <1>4 DEF SetConvAlgo, TypeOK
    <2>2. \A g \in Handle : BestInv(p, g)'
      BY <1>1, <1>4, SetConvAlgoPlaces DEF BestInv
    <2>3. \A r \in Plan \ {p} :
              /\ op_map'[r] = op_map[r] /\ is_valid'[r] = is_valid[r]
              /\ cur_vertex'[r] = cur_vertex[r]
              /\ requested'[r] = requested[r] /\ algorithm_name'[r] = algorithm_name[r]
              /\ network_config'[r] = network_config[r] /\ arg_list'[r] = arg_list[r]
              /\ compiled'[r] = compiled[r]
      BY <1>1, <1>4 DEF SetConvAlgo, TypeOK
    <2> QED
      BY <1>2, <2>1, <2>2, <2>3
  <1>5. ASSUME NEW p \in Plan, NEW h \in Handle, Compile(p, h) PROVE IInv'
    <2>1. ASSUME NEW g \in Handle
          PROVE  \A x \in DOMAIN kernel_map[g] :
                     x \in DOMAIN kernel_map'[g] /\ kernel_map'[g][x] = kernel_map[g][x]
      <3>1. CASE CompileNew(p, h)
        BY <1>1, <3>1, CachesGrow
      <3>2. CASE UNCHANGED kernel_map
        BY <3>2
      <3> QED
        BY <1>1, <1>5, <3>1, <3>2, CompileFrame
    <2>2. ASSUME NEW r \in Plan \ {p}, NEW g \in Handle
          PROVE  /\ g \in compiled'[r] => CompiledInv(r, g)'
                 /\ BestInv(r, g)'
      <3>1. /\ BestInv(r, g)
            /\ g \in compiled[r] => CompiledInv(r, g)
        BY DEF IInv
      <3>2. /\ op_map' = op_map /\ is_valid' = is_valid /\ requested' = requested
            /\ cur_vertex'[r] = cur_vertex[r]
            /\ algorithm_name'[r] = algorithm_name[r] /\ network_config'[r] = network_config[r]
            /\ arg_list'[r] = arg_list[r] /\ compiled'[r] = compiled[r]
        BY <1>1, <1>5, CompileFrame
      <3> QED
        BY <2>1, <3>1, <3>2, OtherPlan
    <2>3. \A g \in Handle : /\ g \in compiled'[p] => CompiledInv(p, g)'
                            /\ BestInv(p, g)'
      BY <1>5, CompileKeeps
    <2>4. \A r \in Plan : compiled'[r] \subseteq Handle
      BY <1>1 DEF SafeInv, TypeOK
    <2> QED
      BY <1>1, <2>2, <2>3, <2>4 DEF IInv
  <1>6. CASE UNCHANGED vars
    <2>1. ASSUME NEW r \in Plan, NEW g \in Handle
          PROVE  /\ g \in compiled'[r] => CompiledInv(r, g)'
                 /\ BestInv(r, g)'
      <3>1. /\ BestInv(r, g)
            /\ g \in compiled[r] => CompiledInv(r, g)
        BY DEF IInv
      <3> QED
        BY <1>6, <3>1, OtherPlan DEF vars, planVars
    <2>2. \A r \in Plan : compiled'[r] \subseteq Handle
      BY <1>1 DEF SafeInv, TypeOK
    <2> QED
      BY <1>1, <2>1, <2>2 DEF IInv
  <1> QED
    BY <1>3, <1>4, <1>5, <1>6 DEF Next

\* The invariant of handles of one kind of device: what is compiled stays so, and
\* what Compile drops from a list is no better than what it keeps.
THEOREM Invariance == OneDevice => (Spec => []IInv)
  <1> SUFFICES ASSUME OneDevice PROVE Spec => []IInv
    OBVIOUS
  <1>1. IInv /\ [Next]_vars => IInv'
    BY InvStep
  <1> QED
    BY <1>1, InitInv, PTL DEF Spec

\* What Execute finds.
LEMMA WhatRuns ==
    ASSUME IInv, NEW p \in Plan, NEW h \in compiled[p]
    PROVE  /\ h \in Handle /\ SafeInv /\ CompiledInv(p, h) /\ Executes(p, h)
           /\ Found(p, h) = KernelsOf(p, h, GetCurVertex(p, h))
           /\ Launched(p, h).config = GetNetworkConfig(p)
           /\ layout[Launched(p, h).vertex] = layout[GetCurVertex(p, h)]
  <1>1. h \in Handle /\ SafeInv /\ TypeOK /\ CompiledInv(p, h)
    BY DEF IInv, SafeInv, TypeOK
  <1>2. Found(p, h) = KernelsOf(p, h, GetCurVertex(p, h))
    BY <1>1 DEF Found, KernelsOf, CompiledInv
  <1>3. arg_list[p] # NoArgs
    <2> DEFINE x == [layout |-> layout[GetCurVertex(p, h)], ops |-> op_map[p]]
    <2>1. GetCurVertex(p, h) \in Vertex /\ op_map[p] \in Seq(Op)
      BY <1>1, UsablePlan, FirstSupported DEF CompiledInv
    <2>2. x \in [layout : Layout, ops : Seq(Op)]
      BY <2>1, FusionAssumption
    <2> QED
      BY <1>1, <2>2, FusionAssumption DEF CompiledInv
  <1>4. Executes(p, h)
    BY <1>1, <1>2, <1>3 DEF Executes, CompiledInv
  <1>5. /\ Launched(p, h).config = GetNetworkConfig(p)
        /\ layout[Launched(p, h).vertex] = layout[GetCurVertex(p, h)]
    <2> DEFINE n == FirstOf(Supported(p, h))
    <2>1. n \in Supported(p, h) /\ GetCurVertex(p, h) = cur_vertex[p][n].vertex
      BY <1>1, UsablePlan, FirstSupported DEF CompiledInv
    <2> HIDE DEF n
    <2> QED
      BY <1>1, <1>2, <2>1, KernelFits DEF CompiledInv, Launched
  <1> QED
    BY <1>1, <1>2, <1>4, <1>5

\* Once Compile has succeeded for a handle, Execute runs there: neither other
\* plans, nor other handles, nor a later Compile that fails, take its kernel or
\* its arguments away.
THEOREM CompiledPlansRun == OneDevice => (Spec => []CompiledRuns)
  <1>1. IInv => CompiledRuns
    BY WhatRuns DEF CompiledRuns
  <1> QED
    BY <1>1, Invariance, PTL

\* Whoever made the kernel that Execute finds, the arguments of this plan are the
\* ones it expects.
THEOREM RightArguments == OneDevice => (Spec => []ArgumentsFit)
  <1>1. IInv => ArgumentsFit
    <2> SUFFICES ASSUME IInv, NEW p \in Plan, NEW h \in compiled[p]
                 PROVE  /\ Launched(p, h).config = GetNetworkConfig(p)
                        /\ arg_list[p] = [layout |-> layout[Launched(p, h).vertex],
                                          ops |-> op_map[p]]
      BY DEF ArgumentsFit
    <2> QED
      BY WhatRuns DEF CompiledInv
  <1> QED
    BY <1>1, Invariance, PTL

\* The path of a compiled plan is as heavy as any that has a solution.
LEMMA Heaviest ==
    ASSUME IInv, NEW p \in Plan, NEW h \in compiled[p], ~ requested[p]
    PROVE  \E q \in Route :
              /\ Follows(q, op_map[p]) /\ End(q) = GetCurVertex(p, h)
              /\ End(q) \in supported[h] /\ Does(SolverOn(q), h, op_map[p])
              /\ \E w \in WeightsOn(q) :
                    \A r \in Route : Follows(r, op_map[p]) /\ End(r) \in supported[h]
                                     /\ Does(SolverOn(r), h, op_map[p])
                       => \A x \in WeightsOn(r) : x <= w
  <1> DEFINE n == FirstOf(Supported(p, h))
             e == cur_vertex[p][n]
  <1>1. /\ h \in Handle /\ SafeInv /\ TypeOK /\ CompiledInv(p, h) /\ BestInv(p, h)
        /\ Usable(p, h)
    BY WhatRuns DEF IInv, SafeInv, CompiledInv
  <1>2. op_map[p] # <<>> /\ PathsInv(op_map[p], cur_vertex[p]) /\ Supported(p, h) # {}
    BY <1>1, UsablePlan
  <1>3. /\ n \in Supported(p, h) /\ \A m \in Supported(p, h) : n <= m
        /\ GetCurVertex(p, h) = e.vertex /\ e.vertex \in supported[h]
        /\ n \in DOMAIN cur_vertex[p]
    BY <1>1, <1>2, FirstSupported
  <1>4. Applies(p, h, n)
    BY <1>1, CachedIsFirst DEF CompiledInv
  <1> HIDE DEF n
  <1>5. PICK q \in Route : Follows(q, op_map[p]) /\ CameAlong(e, q)
    BY <1>1, <1>2, <1>3, PathRoute
  <1>6. Does(SolverOn(q), h, op_map[p]) /\ End(q) = e.vertex /\ e.weight \in WeightsOn(q)
    BY <1>4, <1>5 DEF Applies, Does, CameAlong
  <1>7. ASSUME NEW r \in Route, Follows(r, op_map[p]), End(r) \in supported[h],
               Does(SolverOn(r), h, op_map[p]), NEW x \in WeightsOn(r)
        PROVE  x <= e.weight
    <2>1. CASE Full(p)
      <3>1. PICK m \in DOMAIN cur_vertex[p] :
                cur_vertex[p][m] = [vertex |-> End(r), weight |-> x, solver |-> SolverOn(r)]
        BY <1>7, <2>1 DEF Full, Range
      <3>2. cur_vertex[p][m].weight = x /\ m \in Supported(p, h)
        BY <1>7, <3>1 DEF Supported
      <3>3. n <= m /\ n \in Nat /\ m \in Nat /\ x \in Nat /\ e.weight \in Nat
        <4>1. e \in Path /\ n \in Nat /\ m \in Nat
          BY <1>1, <1>3, <3>1, Places
        <4> QED
          BY <1>3, <1>7, <3>2, <4>1, RouteFacts DEF Path
      <3>4. CASE n = m
        BY <3>2, <3>3, <3>4
      <3>5. CASE n # m
        <4>1. n < m
          BY <3>3, <3>5
        <4>2. e.weight >= cur_vertex[p][m].weight
          BY <1>2, <1>3, <3>1, <4>1 DEF PathsInv
        <4> QED
          BY <3>2, <3>3, <4>2
      <3> QED
        BY <3>4, <3>5
    <2>2. CASE Narrowed(p, h)
      BY <1>3, <1>7, <2>2 DEF Narrowed
    <2> QED
      BY <1>1, <1>2, <2>1, <2>2 DEF BestInv
  <1> QED
    BY <1>3, <1>5, <1>6, <1>7

\* Plans of the same operators run the same kernel on a handle, whatever the
\* order in which they were compiled and however paths of one weight were sorted.
THEOREM SameKernels == OneDevice => (Spec => []SamePlanSameKernel)
  <1>1. IInv => SamePlanSameKernel
    <2> SUFFICES ASSUME IInv, NEW p \in Plan, NEW q \in Plan,
                        NEW h \in compiled[p] \cap compiled[q],
                        ~ requested[p], ~ requested[q], GetNetworkConfig(p) = GetNetworkConfig(q)
                 PROVE  Launched(p, h) = Launched(q, h)
      BY DEF SamePlanSameKernel
    <2>1. op_map[p] = op_map[q]
      BY DEF GetNetworkConfig
    <2>2. /\ h \in Handle /\ SafeInv /\ op_map[p] \in Seq(Op)
          /\ CompiledInv(p, h) /\ CompiledInv(q, h)
          /\ Found(p, h) = KernelsOf(p, h, GetCurVertex(p, h))
          /\ Found(q, h) = KernelsOf(q, h, GetCurVertex(q, h))
      BY WhatRuns DEF SafeInv, TypeOK
    <2>3. PICK r \in Route :
              /\ Follows(r, op_map[p]) /\ End(r) = GetCurVertex(p, h)
              /\ End(r) \in supported[h] /\ Does(SolverOn(r), h, op_map[p])
              /\ \E w \in WeightsOn(r) :
                    \A s \in Route : Follows(s, op_map[p]) /\ End(s) \in supported[h]
                                     /\ Does(SolverOn(s), h, op_map[p])
                       => \A x \in WeightsOn(s) : x <= w
      BY Heaviest
    <2>4. PICK s \in Route :
              /\ Follows(s, op_map[p]) /\ End(s) = GetCurVertex(q, h)
              /\ End(s) \in supported[h] /\ Does(SolverOn(s), h, op_map[p])
              /\ \E w \in WeightsOn(s) :
                    \A t \in Route : Follows(t, op_map[p]) /\ End(t) \in supported[h]
                                     /\ Does(SolverOn(t), h, op_map[p])
                       => \A x \in WeightsOn(t) : x <= w
      BY <2>1, Heaviest
    <2>5. PICK w \in WeightsOn(r) : \A x \in WeightsOn(s) : x <= w
      BY <2>3, <2>4
    <2>6. PICK x \in WeightsOn(s) : \A y \in WeightsOn(r) : y <= x
      BY <2>3, <2>4
    <2>7. w = x
      <3>1. w \in Nat /\ x \in Nat
        BY RouteFacts
      <3> QED
        BY <2>5, <2>6, <3>1
    <2>8. algorithm[End(r)] = algorithm[End(s)]
      <3>1. OpsOn(r) = OpsOn(s)
        BY <2>2, <2>3, <2>4, SameOperators
      <3>2. WeightsOn(r) \cap WeightsOn(s) # {} /\ {End(r), End(s)} \subseteq supported[h]
        BY <2>3, <2>4, <2>7
      <3> QED
        BY <2>2, <3>1, <3>2, LibraryRoutes
    <2>9. KernelsOf(p, h, GetCurVertex(p, h)) = KernelsOf(q, h, GetCurVertex(q, h))
      BY <2>3, <2>4, <2>8 DEF KernelsOf
    <2> QED
      BY <2>2, <2>9 DEF Launched
  <1> QED
    BY <1>1, Invariance, PTL

\* A plan that is compiled for a handle finds its kernel when it is compiled
\* for it again.
THEOREM NothingBuiltAgain == OneDevice => (Spec => RecompileBuildsNothing)
  <1>1. IInv => \A p \in Plan : \A h \in compiled[p] : Compile(p, h) => UNCHANGED kernel_map
    <2> SUFFICES ASSUME IInv, NEW p \in Plan, NEW h \in compiled[p], Compile(p, h)
                 PROVE  UNCHANGED kernel_map
      OBVIOUS
    <2>1. ~ Tries(p, h)
      BY WhatRuns DEF CompiledInv, Tries
    <2>2. CompileCached(p, h)
      BY <2>1 DEF Compile, CompileNew, CompileNotBuilt, CompileNotViable
    <2> QED
      BY <2>2 DEF CompileCached
  <1> QED
    BY <1>1, Invariance, PTL DEF RecompileBuildsNothing
===============================================================================
