------------------------- MODULE SharedBoundsProofs -------------------------
(***************************************************************************)
(* The bounds of variables that workers share, for every problem, whatever *)
(* its variables, symmetries, workers and neighborhoods: no worker misses  *)
(* a change and, unless neighborhoods run beside the main thread, a        *)
(* solution that improves is kept as long as there is one.                 *)
(*                                                                         *)
(* A fixing excludes solutions that improve, so that nothing can be said   *)
(* of all of them; but those within the bounds of the manager are within   *)
(* all other bounds (KeptByAll), and the optimal solution of a fragment    *)
(* may exchange its values with any of them without being worse            *)
(* (FragmentsExchange).                                                    *)
(***************************************************************************)
EXTENDS SharedBounds, SetLemmas

(* What no run of a portfolio with several threads satisfies, unless it is *)
(* interleaved: see finding 4.                                             *)
NoParallelNeighborhoods ==
  \A c \in Configurations : c.interleave_search \/ c.lns = {}

(* Boxes only shrink.                                                      *)
Within(i, j) == j.lb <= i.lb /\ i.ub <= j.ub
BoxesShrink ==
  /\ \A i \in Ids, v \in Vars : Within(box[i][v], Domain[v])
  /\ \A v \in Vars : Within(bounds[v], Domain[v]) /\ Within(synchronized[v], Domain[v])

(* The solutions that matter, and what keeps them.                         *)
Kept == {s \in Improving : Inside(s, Expanded(bounds))}
SomeIsKept == \A s \in Improving : \E t \in Kept : Cost[t] <= Cost[s]
SymmetriesKeepAll == HasSymmetry => Kept = Improving
KeptByAll ==
  \A s \in Kept : Inside(s, Expanded(synchronized)) /\ \A i \in Ids : Inside(s, box[i])

(* What a neighborhood read is still true while it runs.                   *)
IsRunning(l) == task[l].state \in {"generating", "solving"}
GraphIsOfTheBox ==
  main # "recompute" => graph = {v \in Vars : IsFixed(box[Helper][v])}
TasksEndFirst ==
  main # "search" => \A l \in config.lns : task[l].state = "idle"
FragmentsFollowTheGraph ==
  \A l \in config.lns : IsRunning(l) =>
    /\ \A v \in graph : IsFixed(task[l].box[v]) /\ task[l].box[v] = box[Helper][v]
    /\ \A s \in Kept : \A v \in Relaxed(task[l].box) :
         task[l].box[v].lb <= s[v] /\ s[v] <= task[l].box[v].ub
    /\ task[l].state = "solving" => task[l].fixable = FixableIn(task[l].box)

SolutionsInv == SomeIsKept /\ SymmetriesKeepAll /\ KeptByAll /\ ProofsAreSound
FragmentInv == GraphIsOfTheBox /\ TasksEndFirst /\ FragmentsFollowTheGraph

-----------------------------------------------------------------------------
(* The configuration.                                                      *)
LEMMA ConfigurationFacts ==
  ASSUME config \in Configurations
  PROVE  /\ ConfigurationOK(config) /\ ProblemOK(config.problem)
         /\ Domain \in Boxes /\ Feasible \subseteq [Vars -> Int] /\ Cost \in [Feasible -> Int]
         /\ \A s \in Feasible : Inside(s, Domain)
         /\ config.full \subseteq FullWorkers /\ config.lns \subseteq LnsWorkers
BY BoundsAssumption DEF ConfigurationOK, ProblemOK, Domain, Feasible, Cost

(* The orbits of variables, and the least of each.                         *)
LEMMA OrbitsAreFinite ==
  ASSUME NEW v \in Vars
  PROVE  OrbitOf(v) \subseteq Vars /\ v \in OrbitOf(v) /\ IsFiniteSet(OrbitOf(v))
<1>1. OrbitOf(v) \subseteq Vars /\ v \in OrbitOf(v)
  BY DEF OrbitOf
<1> QED
  BY <1>1, BoundsAssumption, FS_Subset

\* The representative of a variable is a variable of its own orbit.
LEMMA RepresentativeIsInOrbit ==
  ASSUME NEW v \in Vars
  PROVE  Representative(v) \in OrbitOf(v) /\ Representative(v) \in Vars
<1>1. OrbitOf(v) \in SUBSET Int /\ OrbitOf(v) # {}
  BY OrbitsAreFinite, BoundsAssumption
<1> QED
  BY <1>1, OrbitsAreFinite, MinOfSet DEF Representative

\* Variables of one orbit have the same orbit and the same domain.
LEMMA OrbitsAreClasses ==
  ASSUME config \in Configurations, NEW v \in Vars, NEW u \in OrbitOf(v)
  PROVE  /\ OrbitOf(u) = OrbitOf(v)
         /\ Domain[u] = Domain[v]
<1>1. \A O, P \in config.orbits : O = P \/ O \cap P = {}
  BY ConfigurationFacts DEF ConfigurationOK
<1>2. \A O \in config.orbits : O \subseteq Vars
  BY ConfigurationFacts DEF ConfigurationOK
<1>3. CASE u = v
  BY <1>3
<1>4. ASSUME NEW O \in config.orbits, {u, v} \subseteq O PROVE OrbitOf(u) = O /\ OrbitOf(v) = O
  BY <1>1, <1>2, <1>4 DEF OrbitOf
<1>5. ASSUME NEW O \in config.orbits, {u, v} \subseteq O PROVE Domain[u] = Domain[v]
  BY <1>5, ConfigurationFacts DEF ConfigurationOK, Domain
<1> QED
  BY <1>3, <1>4, <1>5 DEF OrbitOf

\* A representative represents itself and shares the domain of what it stands
\* for; without symmetry every variable is alone in its orbit.
LEMMA Representatives ==
  ASSUME config \in Configurations, NEW v \in Vars
  PROVE  /\ Representative(v) \in Vars
         /\ Representative(Representative(v)) = Representative(v)
         /\ Domain[Representative(v)] = Domain[v]
         /\ ~ HasSymmetry => OrbitOf(v) = {v} /\ Representative(v) = v
<1>1. Representative(v) \in OrbitOf(v) /\ Representative(v) \in Vars
  BY RepresentativeIsInOrbit
<1>2. OrbitOf(Representative(v)) = OrbitOf(v) /\ Domain[Representative(v)] = Domain[v]
  BY <1>1, OrbitsAreClasses
<1>3. Representative(Representative(v)) = Representative(v)
  BY <1>2 DEF Representative
<1>4. ~ HasSymmetry => OrbitOf(v) = {v}
  BY DEF HasSymmetry, OrbitOf
<1> QED
  BY <1>1, <1>2, <1>3, <1>4

(* Variables of an orbit take each other's values in solutions that are    *)
(* not worse.                                                              *)
LEMMA OrbitsExchange ==
  ASSUME TypeOK, NEW v \in Vars, NEW u \in OrbitOf(v), NEW s \in Improving
  PROVE  \E t \in Improving : t[u] = s[v]
<1>1. CASE u = v
  BY <1>1
<1>2. ASSUME NEW O \in config.orbits, {u, v} \subseteq O PROVE \E t \in Improving : t[u] = s[v]
  <2>1. PICK f \in Permutations(Vars) : f[u] = v /\ IsSymmetry(f, config.problem)
    BY <1>2, ConfigurationFacts DEF TypeOK, SearchTypeOK, ConfigurationOK
  <2> DEFINE t == [x \in Vars |-> s[f[x]]]
  <2>2. t \in Feasible /\ Cost[t] = Cost[s]
    BY <2>1 DEF IsSymmetry, Improving, Feasible, Cost
  <2>3. t \in Improving
    BY <2>2 DEF Improving, IsImproving
  <2>4. u \in Vars
    BY OrbitsAreFinite
  <2> QED
    BY <2>1, <2>3, <2>4
<1> QED
  BY <1>1, <1>2 DEF OrbitOf

-----------------------------------------------------------------------------
(* Intervals.                                                              *)
LEMMA MeetOfIntervals ==
  ASSUME NEW i \in IntIntervals, NEW j \in IntIntervals
  PROVE  /\ Meet(i, j) \in IntIntervals
         /\ Meet(i, j).lb = IF i.lb >= j.lb THEN i.lb ELSE j.lb
         /\ Meet(i, j).ub = IF i.ub <= j.ub THEN i.ub ELSE j.ub
<1>1. \A a, b \in Int : Max({a, b}) = IF a >= b THEN a ELSE b
  BY DEF Max
<1>2. \A a, b \in Int : Min({a, b}) = IF a <= b THEN a ELSE b
  BY DEF Min
<1>3. i.lb \in Int /\ i.ub \in Int /\ j.lb \in Int /\ j.ub \in Int
  BY DEF IntIntervals
<1>4. Meet(i, j) = [lb |-> IF i.lb >= j.lb THEN i.lb ELSE j.lb,
                    ub |-> IF i.ub <= j.ub THEN i.ub ELSE j.ub]
  BY <1>1, <1>2, <1>3 DEF Meet, Interval
<1> QED
  BY <1>3, <1>4 DEF IntIntervals

\* The interval a report leaves for a variable lies within the stored one, and
\* keeps every value that the stored one and the reports on the orbit all allow.
LEMMA TightenedIsTight ==
  ASSUME bounds \in Boxes, NEW v \in Vars, NEW b \in Boxes
  PROVE  /\ Tightened(v, b) \in IntIntervals /\ Within(Tightened(v, b), bounds[v])
         /\ \A value \in Int :
              /\ bounds[v].lb <= value /\ value <= bounds[v].ub
              /\ \A u \in OrbitOf(v) : b[u].lb <= value /\ value <= b[u].ub
              => Tightened(v, b).lb <= value /\ value <= Tightened(v, b).ub
<1> DEFINE orbit == OrbitOf(v)
           f == [u \in orbit |-> b[u].lb]
           g == [u \in orbit |-> b[u].ub]
           L == {f[u] : u \in orbit}
           U == {g[u] : u \in orbit}
<1>1. orbit \subseteq Vars /\ IsFiniteSet(orbit)
  BY OrbitsAreFinite
<1>2. bounds[v] \in IntIntervals /\ bounds[v].lb \in Int /\ bounds[v].ub \in Int
  BY DEF Boxes, IntIntervals
<1>3. \A u \in orbit : b[u].lb \in Int /\ b[u].ub \in Int /\ f[u] = b[u].lb /\ g[u] = b[u].ub
  BY <1>1 DEF Boxes, IntIntervals
<1>4. DOMAIN f = orbit /\ DOMAIN g = orbit
  OBVIOUS
<1>5. {b[u].lb : u \in orbit} = L /\ {b[u].ub : u \in orbit} = U
  BY <1>3
<1> HIDE DEF f, g, orbit
<1>6. IsFiniteSet(L) /\ IsFiniteSet(U) /\ L \subseteq Int /\ U \subseteq Int
  BY <1>1, <1>3, <1>4, ImagesAreFinite
<1>7. IsFiniteSet({bounds[v].lb} \cup L) /\ IsFiniteSet({bounds[v].ub} \cup U)
  <2> HIDE DEF L, U
  <2>1. IsFiniteSet(L \cup {bounds[v].lb}) /\ IsFiniteSet(U \cup {bounds[v].ub})
    BY <1>6, FS_AddElement
  <2>2. {bounds[v].lb} \cup L = L \cup {bounds[v].lb} /\ {bounds[v].ub} \cup U = U \cup {bounds[v].ub}
    OBVIOUS
  <2> QED
    BY <2>1, <2>2
<1> DEFINE lb == Max({bounds[v].lb} \cup L)
           ub == Min({bounds[v].ub} \cup U)
<1>8. lb \in {bounds[v].lb} \cup L /\ \A y \in {bounds[v].lb} \cup L : lb >= y
  BY <1>2, <1>6, <1>7, MaxOfSet
<1>9. ub \in {bounds[v].ub} \cup U /\ \A y \in {bounds[v].ub} \cup U : ub <= y
  BY <1>2, <1>6, <1>7, MinOfSet
<1>10. Tightened(v, b) = [lb |-> lb, ub |-> ub]
  BY <1>5 DEF Tightened, Interval, orbit
<1> HIDE DEF lb, ub
<1>11. lb \in Int /\ ub \in Int /\ lb >= bounds[v].lb /\ ub <= bounds[v].ub
  BY <1>2, <1>6, <1>8, <1>9
<1>12. Tightened(v, b) \in IntIntervals /\ Within(Tightened(v, b), bounds[v])
  BY <1>2, <1>10, <1>11 DEF IntIntervals, Within
<1>13. ASSUME NEW value \in Int, bounds[v].lb <= value, value <= bounds[v].ub,
              \A u \in OrbitOf(v) : b[u].lb <= value /\ value <= b[u].ub
       PROVE  lb <= value /\ value <= ub
  <2>1. \A y \in L : y <= value
    BY <1>3, <1>13 DEF orbit
  <2>2. \A y \in U : value <= y
    BY <1>3, <1>13 DEF orbit
  <2> QED
    BY <1>8, <1>9, <1>13, <2>1, <2>2
<1> QED
  BY <1>10, <1>12, <1>13

-----------------------------------------------------------------------------
(* What the two methods that change the bounds do to them.                 *)
BoundsTighten ==
  /\ bounds' \in Boxes
  /\ \A v \in Vars : Within(bounds'[v], bounds[v])
  /\ changed' \subseteq Vars
  /\ \A v \in Vars \ changed' : v \notin changed /\ bounds'[v] = bounds[v]
  /\ HasSymmetry => \A v \in changed' : v = Representative(v)
  /\ UNCHANGED <<synchronized, id_to_changed>>

\* Storing intervals that lie within the stored ones, on representatives only
\* when there is symmetry, is a tightening of the shared bounds.
LEMMA SettingTightens ==
  ASSUME TypeOK, NEW b \in Boxes, SetBounds(b),
         \A v \in Vars : Within(b[v], bounds[v]),
         HasSymmetry => \A v \in Vars : v # Representative(v) => b[v] = bounds[v]
  PROVE  BoundsTighten
BY DEF TypeOK, ManagerTypeOK, SetBounds, BoundsTighten

\* An interval lies within itself.
LEMMA WithinItself == \A i \in IntIntervals : Within(i, i)
BY DEF Within, IntIntervals

\* ReportPotentialNewBounds only tightens the shared bounds.
LEMMA ReportTightens ==
  ASSUME TypeOK, NEW i \in Ids, ReportPotentialNewBounds(box[i])
  PROVE  BoundsTighten
<1> DEFINE b == [v \in Vars |->
                   IF v = Representative(v) THEN Tightened(v, box[i]) ELSE bounds[v]]
<1>1. bounds \in Boxes /\ box[i] \in Boxes
  BY DEF TypeOK, ManagerTypeOK, SearchTypeOK
<1>2. \A v \in Vars : b[v] \in IntIntervals /\ Within(b[v], bounds[v])
  BY <1>1, TightenedIsTight, WithinItself DEF Boxes
<1>3. b \in Boxes
  BY <1>2 DEF Boxes
<1>4. SetBounds(b)
  BY DEF ReportPotentialNewBounds
<1>5. \A v \in Vars : v # Representative(v) => b[v] = bounds[v]
  OBVIOUS
<1> HIDE DEF b
<1> QED
  BY <1>2, <1>3, <1>4, <1>5, SettingTightens

\* FixVariablesFromPartialSolution only tightens the shared bounds.
LEMMA FixingTightens ==
  ASSUME TypeOK, ~ HasSymmetry, NEW s \in Feasible, NEW C \in SUBSET Vars,
         FixVariablesFromPartialSolution(s, C)
  PROVE  BoundsTighten
<1> DEFINE b == [v \in Vars |-> IF v \in C THEN Interval(s[v], s[v]) ELSE bounds[v]]
<1>1. bounds \in Boxes /\ \A v \in Vars : s[v] \in Int
  BY ConfigurationFacts DEF TypeOK, ManagerTypeOK, SearchTypeOK
<1>2. CASE IsCompatible(s, C)
  <2>1. \A v \in Vars : b[v] \in IntIntervals /\ Within(b[v], bounds[v])
    BY <1>1, <1>2, WithinItself DEF Boxes, IsCompatible, Interval, IntIntervals, Within
  <2>2. b \in Boxes
    BY <2>1 DEF Boxes
  <2>3. SetBounds(b)
    BY <1>2 DEF FixVariablesFromPartialSolution
  <2> HIDE DEF b
  <2> QED
    BY <2>1, <2>2, <2>3, SettingTightens
<1>3. CASE ~ IsCompatible(s, C)
  BY <1>1, <1>3, WithinItself
     DEF FixVariablesFromPartialSolution, managerVars, BoundsTighten, TypeOK, ManagerTypeOK, Boxes
<1> QED
  BY <1>2, <1>3

-----------------------------------------------------------------------------
(* What an importer knows of a bound.                                      *)
LEMMA SmallerBoxKnows ==
  ASSUME NEW i \in IntIntervals, NEW j \in IntIntervals, NEW k \in IntIntervals,
         Within(k, i), Knows(i, j)
  PROVE  Knows(k, j)
<1>1. /\ Meet(i, j) \in IntIntervals /\ Meet(k, j) \in IntIntervals
      /\ Meet(i, j).lb = (IF i.lb >= j.lb THEN i.lb ELSE j.lb)
      /\ Meet(i, j).ub = (IF i.ub <= j.ub THEN i.ub ELSE j.ub)
      /\ Meet(k, j).lb = (IF k.lb >= j.lb THEN k.lb ELSE j.lb)
      /\ Meet(k, j).ub = (IF k.ub <= j.ub THEN k.ub ELSE j.ub)
  BY MeetOfIntervals
<1>2. CASE IsEmpty(Meet(i, j))
  BY <1>1, <1>2 DEF IsEmpty, IntIntervals, Within, Knows
<1>3. CASE i = Meet(i, j)
  <2>1. k.lb >= j.lb /\ k.ub <= j.ub
    BY <1>1, <1>3 DEF IntIntervals, Within
  <2>2. Meet(k, j).lb = k.lb /\ Meet(k, j).ub = k.ub
    BY <1>1, <2>1
  <2>3. Meet(k, j) = k
    BY <1>1, <2>2 DEF IntIntervals
  <2> QED
    BY <2>3 DEF Knows
<1> QED
  BY <1>2, <1>3 DEF Knows

\* Whoever holds an interval within another one knows the other one.
LEMMA BoxWithinKnows ==
  ASSUME NEW i \in IntIntervals, NEW j \in IntIntervals, Within(i, j)
  PROVE  Knows(i, j)
<1>1. Meet(i, j).lb = i.lb /\ Meet(i, j).ub = i.ub /\ Meet(i, j) \in IntIntervals
  BY MeetOfIntervals DEF IntIntervals, Within
<1>2. Meet(i, j) = i
  BY <1>1 DEF IntIntervals
<1> QED
  BY <1>2 DEF Knows

\* What an importer takes over is an interval within the one it had.
LEMMA MeetIsWithin ==
  ASSUME NEW i \in IntIntervals, NEW j \in IntIntervals
  PROVE  /\ Meet(i, j) \in IntIntervals /\ MeetOrOld(i, j) \in IntIntervals
         /\ Within(Meet(i, j), i) /\ Within(Meet(i, j), j) /\ Within(MeetOrOld(i, j), i)
BY MeetOfIntervals DEF IntIntervals, Within, MeetOrOld

\* An importer that takes an interval over knows it afterwards.
LEMMA ImporterKnows ==
  ASSUME NEW i \in IntIntervals, NEW j \in IntIntervals
  PROVE  Knows(Meet(i, j), j) /\ Knows(MeetOrOld(i, j), j)
BY MeetIsWithin, BoxWithinKnows DEF MeetOrOld, Knows

-----------------------------------------------------------------------------
\* No step changes the configuration.
LEMMA ConfigurationIsKept == ASSUME [Next]_vars PROVE config' = config
<1>1. CASE UNCHANGED vars
  BY <1>1 DEF vars
<1>2. ASSUME NEW w \in config.full, WorkerNext(w) PROVE config' = config
  BY <1>2 DEF WorkerNext, Deduce, ExportBounds, SynchronizeAfterExport, RegisterImport,
     ImportBounds, FindSolution, ProveInfeasible
<1>3. ASSUME NEW l \in config.lns, TaskNext(l) PROVE config' = config
  BY <1>3 DEF TaskNext, ReadDomains, DetectComponents, FixFragment, ReportFragment, GiveUpFragment
<1>4. CASE MainNext
  BY <1>4 DEF MainNext, MainSynchronize, HelperImport, RecomputeHelperData
<1> QED
  BY <1>1, <1>2, <1>3, <1>4 DEF Next

\* While the configuration stays, so does the problem: the domains, the
\* solutions, their cost and the orbits.
LEMMA ProblemIsKept ==
  ASSUME config' = config
  PROVE  /\ Domain' = Domain /\ Feasible' = Feasible /\ Cost' = Cost
         /\ HasSymmetry' <=> HasSymmetry
         /\ \A v \in Vars : OrbitOf(v)' = OrbitOf(v) /\ Representative(v)' = Representative(v)
         /\ NoTask' = NoTask
BY DEF Domain, Feasible, Cost, HasSymmetry, OrbitOf, Representative, NoTask

\* The record of an idle fragment task is well formed.
LEMMA NoTaskType ==
  ASSUME config \in Configurations
  PROVE  NoTask \in [state : TaskStates, box : Boxes, fixable : SUBSET Vars, found : SUBSET Feasible]
BY ConfigurationFacts DEF NoTask, TaskStates

-----------------------------------------------------------------------------
(* Types, boxes that only shrink, and sets of changes.                     *)
DataInv == TypeOK /\ BoxesShrink /\ NoChangeIsMissed

\* What DataInv says of the shapes of the data, in the form the proofs cite.
LEMMA DataFacts ==
  ASSUME DataInv
  PROVE  /\ Domain \in Boxes /\ Feasible \subseteq [Vars -> Int]
         /\ bounds \in Boxes /\ synchronized \in Boxes /\ Registered \subseteq Ids
         /\ \A i \in Ids : box[i] \in Boxes
         /\ \A v \in Vars : /\ Domain[v] \in IntIntervals /\ bounds[v] \in IntIntervals
                            /\ synchronized[v] \in IntIntervals
                            /\ \A i \in Ids : box[i][v] \in IntIntervals
                            /\ Representative(v) \in Vars
                            /\ Domain[Representative(v)] = Domain[v]
         /\ config.full \subseteq FullWorkers /\ config.lns \subseteq LnsWorkers
BY ConfigurationFacts, Representatives
   DEF DataInv, TypeOK, ManagerTypeOK, SearchTypeOK, Boxes, Registered, Ids

\* Lying within is transitive.
LEMMA WithinIsTransitive ==
  ASSUME NEW i \in IntIntervals, NEW j \in IntIntervals, NEW k \in IntIntervals,
         Within(i, j), Within(j, k)
  PROVE  Within(i, k)
BY DEF Within, IntIntervals

\* DataInv holds at first.
LEMMA InitData == Init => DataInv
<1> SUFFICES ASSUME Init PROVE DataInv
  OBVIOUS
<1>1. config \in Configurations /\ Domain \in Boxes
  BY ConfigurationFacts DEF Init
<1>2. TypeOK
  BY <1>1, NoTaskType
     DEF Init, TypeOK, ManagerTypeOK, SearchTypeOK, TaskTypeOK, WorkerStates
<1>3. \A v \in Vars : Domain[v] \in IntIntervals /\ Within(Domain[v], Domain[v])
  BY <1>1, WithinItself DEF Boxes
<1>4. BoxesShrink
  BY <1>3 DEF Init, BoxesShrink
<1>5. \A v \in Vars : Domain[Representative(v)] = Domain[v] /\ Representative(v) \in Vars
  BY <1>1, Representatives
<1>6. \A i \in Registered : i \in Ids
  BY <1>1, ConfigurationFacts DEF Registered, Ids
<1>7. \A v \in Vars : Knows(Domain[v], Domain[v])
  BY <1>3, BoxWithinKnows
<1>8. NoChangeIsMissed
  BY <1>5, <1>6, <1>7 DEF Init, NoChangeIsMissed
<1> QED
  BY <1>2, <1>4, <1>8 DEF DataInv

(* Steps that leave the boxes, and what the manager has synchronized.      *)
LEMMA TighteningKeepsData ==
  ASSUME DataInv, config' = config, BoundsTighten, box' = box, Registered' \subseteq Registered,
         SearchTypeOK', TaskTypeOK'
  PROVE  DataInv'
<1>1. ManagerTypeOK'
  BY ProblemIsKept DEF DataInv, TypeOK, ManagerTypeOK, BoundsTighten
<1>2. BoxesShrink'
  <2>1. \A v \in Vars : bounds'[v] \in IntIntervals /\ Within(bounds'[v], bounds[v])
    BY DEF BoundsTighten, Boxes
  <2>2. \A v \in Vars : Within(bounds'[v], Domain[v])
    BY <2>1, DataFacts, WithinIsTransitive DEF DataInv, BoxesShrink
  <2> QED
    BY <2>2, ProblemIsKept DEF DataInv, BoxesShrink, BoundsTighten
<1>3. NoChangeIsMissed'
  BY ProblemIsKept DEF DataInv, NoChangeIsMissed, BoundsTighten
<1> QED
  BY <1>1, <1>2, <1>3 DEF DataInv, TypeOK

\* Publishing the stored bounds keeps DataInv.
LEMMA SynchronizeKeepsData ==
  ASSUME DataInv, config' = config, Synchronize, box' = box, Registered' \subseteq Registered,
         SearchTypeOK', TaskTypeOK'
  PROVE  DataInv'
<1>1. ManagerTypeOK'
  BY DataFacts DEF DataInv, TypeOK, ManagerTypeOK, Synchronize, Boxes
<1>2. \A v \in Vars : synchronized'[v] = bounds[v] /\ bounds'[v] = bounds[v]
  BY DEF DataInv, NoChangeIsMissed, Synchronize
<1>3. BoxesShrink'
  BY <1>2, ProblemIsKept DEF DataInv, BoxesShrink
<1>4. ASSUME NEW i \in Registered', NEW v \in Vars, Representative(v) \notin id_to_changed'[i]
      PROVE  Knows(box[i][v], synchronized'[Representative(v)])
  <2>1. i \in Registered /\ i \in Ids /\ Representative(v) \in Vars
    BY DataFacts
  <2>2. id_to_changed'[i] = id_to_changed[i] \cup changed
    BY <2>1 DEF Synchronize
  <2>3. synchronized'[Representative(v)] = synchronized[Representative(v)]
    BY <1>4, <2>1, <2>2 DEF Synchronize
  <2> QED
    BY <1>4, <2>1, <2>2, <2>3 DEF DataInv, NoChangeIsMissed
<1>5. NoChangeIsMissed'
  BY <1>2, <1>4, ProblemIsKept DEF NoChangeIsMissed
<1> QED
  BY <1>1, <1>3, <1>5 DEF DataInv, TypeOK

(* Steps in which boxes shrink: some keep their sets of changes, and those *)
(* of an import know what was in it.                                       *)
LEMMA ShrinkingKeepsData ==
  ASSUME DataInv, config' = config, SearchTypeOK', TaskTypeOK',
         UNCHANGED <<bounds, changed, synchronized>>,
         id_to_changed' \in [Ids -> SUBSET Vars],
         \A i \in Ids, v \in Vars : Within(box'[i][v], box[i][v]),
         \A i \in Registered' :
           \/ i \in Registered /\ id_to_changed'[i] = id_to_changed[i]
           \/ \A v \in Vars : Representative(v) \notin id_to_changed'[i] =>
                Knows(box'[i][v], synchronized[Representative(v)])
  PROVE  DataInv'
<1>1. ManagerTypeOK'
  BY ProblemIsKept DEF DataInv, TypeOK, ManagerTypeOK
<1>2. \A i \in Ids, v \in Vars : box'[i][v] \in IntIntervals
  BY DEF SearchTypeOK, Boxes
<1>3. BoxesShrink'
  <2>1. \A i \in Ids, v \in Vars : Within(box'[i][v], Domain[v])
    BY <1>2, DataFacts, WithinIsTransitive DEF DataInv, BoxesShrink
  <2> QED
    BY <2>1, ProblemIsKept DEF DataInv, BoxesShrink
<1>4. ASSUME NEW i \in Registered', NEW v \in Vars, Representative(v) \notin id_to_changed'[i]
      PROVE  Knows(box'[i][v], synchronized[Representative(v)])
  <2>1. CASE i \in Registered /\ id_to_changed'[i] = id_to_changed[i]
    <3>1. i \in Ids /\ Representative(v) \in Vars
      BY <2>1, DataFacts
    <3>2. Knows(box[i][v], synchronized[Representative(v)])
      BY <1>4, <2>1 DEF DataInv, NoChangeIsMissed
    <3> QED
      BY <1>2, <3>1, <3>2, DataFacts, SmallerBoxKnows
  <2> QED
    BY <1>4, <2>1
<1>5. NoChangeIsMissed'
  BY <1>4, ProblemIsKept DEF DataInv, NoChangeIsMissed
<1> QED
  BY <1>1, <1>3, <1>5 DEF DataInv, TypeOK

\* A deduction of a worker keeps DataInv.
LEMMA DeduceKeepsData ==
  ASSUME DataInv, config' = config, NEW w \in config.full, NEW v \in Vars,
         NEW i \in Intervals(box[w][v]), Deduce(w, v, i)
  PROVE  DataInv'
<1>1. w \in Ids /\ box[w][v] \in IntIntervals
  BY DataFacts DEF Ids
<1>2. i \in IntIntervals
  BY <1>1 DEF Intervals, Interval, IntIntervals
<1>3. Within(i, box[w][v])
  BY <1>1, <1>2, MeetIsWithin, MeetOfIntervals DEF Deduce, Within, IntIntervals
<1>4. box' = [box EXCEPT ![w][v] = i] /\ DOMAIN box = Ids
  BY DEF Deduce, DataInv, TypeOK, SearchTypeOK
<1>5. SearchTypeOK' /\ TaskTypeOK'
  <2>1. box' \in [Ids -> Boxes]
    BY <1>2, <1>4 DEF DataInv, TypeOK, SearchTypeOK, Boxes
  <2> QED
    BY <2>1, ProblemIsKept
       DEF Deduce, DataInv, TypeOK, SearchTypeOK, TaskTypeOK, helperVars, searchVars
<1>6. \A j \in Ids, u \in Vars : Within(box'[j][u], box[j][u])
  <2>1. \A j \in Ids, u \in Vars :
          box'[j][u] = IF j = w /\ u = v THEN i ELSE box[j][u]
    BY <1>1, <1>4, DataFacts DEF Boxes
  <2> QED
    BY <1>3, <2>1, DataFacts, WithinItself
<1>7. Registered' = Registered /\ id_to_changed' = id_to_changed
  BY DEF Deduce, Registered, managerVars
<1> QED
  BY <1>5, <1>6, <1>7, ShrinkingKeepsData
     DEF Deduce, managerVars, DataInv, TypeOK, ManagerTypeOK

\* The export of a worker's level-zero bounds keeps DataInv.
LEMMA ExportKeepsData ==
  ASSUME DataInv, config' = config, NEW w \in config.full, ExportBounds(w)
  PROVE  DataInv'
<1>1. w \in Ids
  BY DataFacts DEF Ids
<1>2. BoundsTighten
  BY <1>1, ReportTightens DEF DataInv, ExportBounds
<1>3. SearchTypeOK' /\ TaskTypeOK'
  BY ProblemIsKept
     DEF ExportBounds, AfterExport, DataInv, TypeOK, SearchTypeOK, TaskTypeOK, WorkerStates,
         helperVars, searchVars
<1>4. Registered' \subseteq Registered
  <2>1. worker'[w] \in {"searching", "exporting"} => worker[w] = "searching"
    BY DataFacts
       DEF ExportBounds, AfterExport, Searching, DataInv, TypeOK, SearchTypeOK, WorkerStates
  <2>2. \A x \in FullWorkers \ {w} : worker'[x] = worker[x]
    BY DEF ExportBounds, DataInv, TypeOK, SearchTypeOK
  <2>3. worker'[w] # "done"
    BY DataFacts DEF ExportBounds, AfterExport, DataInv, TypeOK, SearchTypeOK
  <2> QED
    BY <2>1, <2>2, <2>3, DataFacts DEF Registered
<1> QED
  BY <1>2, <1>3, <1>4, TighteningKeepsData DEF ExportBounds

\* The synchronization that follows an export keeps DataInv.
LEMMA SynchronizeAfterExportKeepsData ==
  ASSUME DataInv, config' = config, NEW w \in config.full, SynchronizeAfterExport(w)
  PROVE  DataInv'
<1>1. SearchTypeOK' /\ TaskTypeOK'
  BY ProblemIsKept
     DEF SynchronizeAfterExport, DataInv, TypeOK, SearchTypeOK, TaskTypeOK, WorkerStates,
         helperVars, searchVars
<1>2. Registered' \subseteq Registered
  <2>1. worker'[w] = "searching" => worker[w] = "exporting"
    BY DataFacts DEF SynchronizeAfterExport, DataInv, TypeOK, SearchTypeOK
  <2>2. worker'[w] \in {"registering", "searching"}
    BY DataFacts DEF SynchronizeAfterExport, DataInv, TypeOK, SearchTypeOK
  <2>3. \A x \in FullWorkers \ {w} : worker'[x] = worker[x]
    BY DEF SynchronizeAfterExport, DataInv, TypeOK, SearchTypeOK
  <2> QED
    BY <2>1, <2>2, <2>3, DataFacts DEF Registered
<1> QED
  BY <1>1, <1>2, SynchronizeKeepsData DEF SynchronizeAfterExport

\* The registration of an importer keeps DataInv.
LEMMA RegisterKeepsData ==
  ASSUME DataInv, config' = config, NEW w \in config.full, RegisterImport(w)
  PROVE  DataInv'
<1>1. w \in Ids /\ w \in FullWorkers
  BY DataFacts DEF Ids
<1>2. SearchTypeOK' /\ TaskTypeOK'
  BY ProblemIsKept
     DEF RegisterImport, DataInv, TypeOK, SearchTypeOK, TaskTypeOK, WorkerStates,
         helperVars, searchVars
<1>3. id_to_changed' = [id_to_changed EXCEPT ![w] = ChangedBefore]
  BY DEF RegisterImport, RegisterNewId
<1>4. id_to_changed' \in [Ids -> SUBSET Vars]
  BY <1>3 DEF DataInv, TypeOK, ManagerTypeOK, ChangedBefore
<1>5. ASSUME NEW v \in Vars, Representative(v) \notin id_to_changed'[w]
      PROVE  Knows(box'[w][v], synchronized[Representative(v)])
  <2>1. synchronized[Representative(v)] = Domain[v]
    BY <1>1, <1>3, <1>5, DataFacts DEF ChangedBefore, DataInv, TypeOK, ManagerTypeOK
  <2>2. Within(box[w][v], Domain[v])
    BY <1>1 DEF DataInv, BoxesShrink
  <2> QED
    BY <1>1, <2>1, <2>2, DataFacts, BoxWithinKnows DEF RegisterImport
<1>6. \A i \in Registered' \ {w} : i \in Registered /\ id_to_changed'[i] = id_to_changed[i]
  <2>1. \A x \in FullWorkers \ {w} : worker'[x] = worker[x]
    BY DEF RegisterImport, DataInv, TypeOK, SearchTypeOK
  <2>2. \A i \in Ids \ {w} : id_to_changed'[i] = id_to_changed[i]
    BY <1>3 DEF DataInv, TypeOK, ManagerTypeOK
  <2> QED
    BY <2>1, <2>2, DataFacts DEF Registered, Ids
<1>7. \A i \in Ids, v \in Vars : Within(box'[i][v], box[i][v])
  BY DataFacts, WithinItself DEF RegisterImport
<1> QED
  BY <1>2, <1>4, <1>5, <1>6, <1>7, ShrinkingKeepsData DEF RegisterImport, RegisterNewId

(* GetChangedBounds() and what the caller makes of it.                     *)
LEMMA ImportedBounds ==
  ASSUME DataInv, NEW i \in Ids, NEW v \in Vars
  PROVE  /\ ChangedBounds(i)[v] \in IntIntervals
         /\ Representative(v) \in id_to_changed[i] =>
              ChangedBounds(i)[v] = synchronized[Representative(v)]
BY DataFacts DEF ChangedBounds

\* An import of the changed bounds, by a worker or by the helper of the
\* neighborhoods, keeps DataInv.
LEMMA ImportKeepsData ==
  ASSUME DataInv, config' = config, NEW i \in Ids, GetChangedBounds(i),
         SearchTypeOK', TaskTypeOK', Registered' = Registered, i \in Registered,
         \A j \in Ids \ {i} : box'[j] = box[j],
         \A v \in Vars : \/ box'[i][v] = Meet(box[i][v], ChangedBounds(i)[v])
                         \/ box'[i][v] = MeetOrOld(box[i][v], ChangedBounds(i)[v])
  PROVE  DataInv'
<1>1. id_to_changed' = [id_to_changed EXCEPT ![i] = {}]
  BY DEF GetChangedBounds
<1>2. id_to_changed' \in [Ids -> SUBSET Vars]
  BY <1>1 DEF DataInv, TypeOK, ManagerTypeOK
<1>3. \A v \in Vars : Within(box'[i][v], box[i][v])
  BY DataFacts, ImportedBounds, MeetIsWithin
<1>4. \A j \in Ids, v \in Vars : Within(box'[j][v], box[j][v])
  BY <1>3, DataFacts, WithinItself
<1>5. ASSUME NEW v \in Vars PROVE Knows(box'[i][v], synchronized[Representative(v)])
  <2>1. CASE Representative(v) \in id_to_changed[i]
    BY <2>1, DataFacts, ImportedBounds, ImporterKnows
  <2>2. CASE Representative(v) \notin id_to_changed[i]
    <3>1. Knows(box[i][v], synchronized[Representative(v)])
      BY <2>2 DEF DataInv, NoChangeIsMissed
    <3>2. box'[i][v] \in IntIntervals
      BY DEF SearchTypeOK, Boxes
    <3> QED
      BY <1>3, <3>1, <3>2, DataFacts, SmallerBoxKnows
  <2> QED
    BY <2>1, <2>2
<1>6. \A j \in Registered \ {i} : id_to_changed'[j] = id_to_changed[j]
  BY <1>1, DataFacts DEF DataInv, TypeOK, ManagerTypeOK
<1> QED
  BY <1>2, <1>4, <1>5, <1>6, ShrinkingKeepsData DEF GetChangedBounds

\* The import of a worker keeps DataInv.
LEMMA ImportBoundsKeepsData ==
  ASSUME DataInv, config' = config, NEW w \in config.full, ImportBounds(w)
  PROVE  DataInv'
<1>1. w \in Ids
  BY DataFacts DEF Ids
<1> DEFINE b == [v \in Vars |-> Meet(box[w][v], ChangedBounds(w)[v])]
<1>2. b \in Boxes
  BY <1>1, DataFacts, ImportedBounds, MeetIsWithin DEF Boxes
<1>3. box' = [box EXCEPT ![w] = b]
  BY DEF ImportBounds
<1>4. \A v \in Vars : b[v] = Meet(box[w][v], ChangedBounds(w)[v])
  OBVIOUS
<1> HIDE DEF b
<1>5. SearchTypeOK' /\ TaskTypeOK'
  BY <1>2, <1>3, ProblemIsKept
     DEF ImportBounds, DataInv, TypeOK, SearchTypeOK, TaskTypeOK, helperVars, searchVars
<1>6. box'[w] = b /\ \A j \in Ids \ {w} : box'[j] = box[j]
  BY <1>1, <1>3 DEF DataInv, TypeOK, SearchTypeOK
<1>7. Registered' = Registered /\ w \in Registered
  BY DEF ImportBounds, Registered
<1>8. GetChangedBounds(w)
  BY DEF ImportBounds
<1> QED
  BY <1>1, <1>4, <1>5, <1>6, <1>7, <1>8, ImportKeepsData

\* The import of the neighborhood helper keeps DataInv.
LEMMA HelperImportKeepsData ==
  ASSUME DataInv, config' = config, HelperImport, ~ solved
  PROVE  DataInv'
<1>1. Helper \in Ids
  BY DEF Ids
<1> DEFINE b == [v \in Vars |-> MeetOrOld(box[Helper][v], ChangedBounds(Helper)[v])]
<1>2. b \in Boxes
  BY <1>1, DataFacts, ImportedBounds, MeetIsWithin DEF Boxes
<1>3. box' = [box EXCEPT ![Helper] = b]
  BY DEF HelperImport
<1>4. \A v \in Vars : b[v] = MeetOrOld(box[Helper][v], ChangedBounds(Helper)[v])
  OBVIOUS
<1> HIDE DEF b
<1>5. SearchTypeOK' /\ TaskTypeOK'
  BY <1>2, <1>3, ProblemIsKept
     DEF HelperImport, DataInv, TypeOK, SearchTypeOK, TaskTypeOK, helperVars, searchVars
<1>6. box'[Helper] = b /\ \A j \in Ids \ {Helper} : box'[j] = box[j]
  BY <1>1, <1>3 DEF DataInv, TypeOK, SearchTypeOK
<1>7. Registered' = Registered /\ Helper \in Registered
  BY DEF HelperImport, Registered
<1>8. GetChangedBounds(Helper)
  BY DEF HelperImport
<1> QED
  BY <1>1, <1>4, <1>5, <1>6, <1>7, <1>8, ImportKeepsData

(* Every other step leaves the manager and the boxes, but for a fixing.    *)
LEMMA TaskStepKeepsData ==
  ASSUME DataInv, config' = config, NEW l \in config.lns, TaskNext(l)
  PROVE  DataInv'
<1> USE DEF DataInv, TypeOK, SearchTypeOK, TaskTypeOK, TaskStates
<1>1. l \in LnsWorkers
  BY DataFacts
<1>2. UNCHANGED <<main, worker, box, graph>> /\ Registered' = Registered
  BY DEF TaskNext, ReadDomains, DetectComponents, FixFragment, ReportFragment, GiveUpFragment,
     searchVars, Registered
<1>3. TaskTypeOK'
  <2>1. ASSUME NEW base \in pool, NEW relaxed \in SUBSET Vars, ReadDomains(l, base, relaxed)
        PROVE  TaskTypeOK'
    <3> DEFINE b == [v \in Vars |->
                       IF v \in relaxed THEN box[Helper][v]
                       ELSE LET value == Closest(base[v], box[Helper][v])
                            IN Interval(value, value)]
    <3>1. \A v \in Vars : base[v] \in Int /\ box[Helper][v] \in IntIntervals
      BY DataFacts DEF Ids
    <3>2. b \in Boxes
      BY <3>1 DEF Boxes, IntIntervals, Interval, Closest
    <3>3. task' = [task EXCEPT ![l].state = "generating", ![l].box = b]
      BY <2>1 DEF ReadDomains
    <3> HIDE DEF b
    <3> QED
      BY <1>1, <3>2, <3>3, ProblemIsKept
  <2>2. CASE DetectComponents(l)
    <3>1. FixableIn(task[l].box) \subseteq Vars
      BY DEF FixableIn, Relaxed
    <3> QED
      BY <1>1, <2>2, <3>1, ProblemIsKept DEF DetectComponents
  <2>3. ASSUME NEW s \in Feasible, FixFragment(l, s) PROVE TaskTypeOK'
    BY <1>1, <2>3, ProblemIsKept DEF FixFragment
  <2>4. CASE ReportFragment(l)
    BY <1>1, <2>4, ProblemIsKept, NoTaskType DEF ReportFragment
  <2>5. CASE GiveUpFragment(l)
    BY <1>1, <2>5, ProblemIsKept, NoTaskType DEF GiveUpFragment
  <2> QED
    BY <2>1, <2>2, <2>3, <2>4, <2>5 DEF TaskNext
<1>4. pool' \subseteq Feasible /\ solved' = solved
  BY <1>1 DEF TaskNext, ReadDomains, DetectComponents, FixFragment, ReportFragment,
     GiveUpFragment, searchVars, NewSolution
<1>5. SearchTypeOK'
  BY <1>2, <1>4, ProblemIsKept
<1>6. BoundsTighten \/ UNCHANGED managerVars
  <2>1. ASSUME NEW s \in Feasible, FixFragment(l, s) PROVE BoundsTighten \/ UNCHANGED managerVars
    BY <1>1, <2>1, FixingTightens DEF FixFragment
  <2> QED
    BY <2>1 DEF TaskNext, ReadDomains, DetectComponents, ReportFragment, GiveUpFragment
<1>7. CASE UNCHANGED managerVars
  BY <1>2, <1>3, <1>5, <1>7, ShrinkingKeepsData, DataFacts, WithinItself
     DEF managerVars, ManagerTypeOK
<1> HIDE DEF DataInv, TypeOK, SearchTypeOK, TaskTypeOK
<1> QED
  BY <1>2, <1>3, <1>5, <1>6, <1>7, TighteningKeepsData

\* A step that touches no bounds keeps DataInv.
LEMMA QuietStepsKeepData ==
  ASSUME DataInv, config' = config, UNCHANGED <<managerVars, box, task>>, SearchTypeOK',
         Registered' = Registered
  PROVE  DataInv'
BY ProblemIsKept, ShrinkingKeepsData, DataFacts, WithinItself
   DEF managerVars, DataInv, TypeOK, ManagerTypeOK, TaskTypeOK

\* A worker that closes its search keeps DataInv.
LEMMA ProveInfeasibleKeepsData ==
  ASSUME DataInv, config' = config, NEW w \in config.full, ProveInfeasible(w)
  PROVE  DataInv'
<1>1. UNCHANGED <<managerVars, box, task>>
  BY DEF helperVars, ProveInfeasible
<1>2. SearchTypeOK'
  BY <1>1, ProblemIsKept
     DEF helperVars, ProveInfeasible, DataInv, TypeOK, SearchTypeOK, WorkerStates
<1>3. Registered' = Registered
  <2>1. worker'[w] = "done" /\ worker[w] = "searching"
    BY DataFacts DEF ProveInfeasible, DataInv, TypeOK, SearchTypeOK
  <2>2. \A x \in FullWorkers \ {w} : worker'[x] = worker[x]
    BY DEF ProveInfeasible, DataInv, TypeOK, SearchTypeOK
  <2> QED
    BY <2>1, <2>2, DataFacts DEF Registered
<1> QED
  BY <1>1, <1>2, <1>3, QuietStepsKeepData

\* A worker that reports a solution keeps DataInv.
LEMMA FindSolutionKeepsData ==
  ASSUME DataInv, config' = config, NEW w \in config.full, NEW s \in Feasible, FindSolution(w, s)
  PROVE  DataInv'
<1>1. UNCHANGED <<managerVars, box, task>> /\ Registered' = Registered
  BY DEF helperVars, FindSolution, Registered
<1>2. SearchTypeOK'
  BY ProblemIsKept DEF helperVars, FindSolution, NewSolution, DataInv, TypeOK, SearchTypeOK
<1> QED
  BY <1>1, <1>2, QuietStepsKeepData

\* Every step of the driver keeps DataInv.
LEMMA MainStepKeepsData ==
  ASSUME DataInv, config' = config, MainNext
  PROVE  DataInv'
<1>1. Registered' = Registered
  BY DEF MainNext, MainSynchronize, HelperImport, RecomputeHelperData, Registered
<1>2. CASE MainSynchronize
  <2>1. SearchTypeOK' /\ TaskTypeOK'
    BY <1>2, ProblemIsKept
       DEF MainSynchronize, helperVars, searchVars, DataInv, TypeOK, SearchTypeOK, TaskTypeOK
  <2> QED
    BY <1>1, <1>2, <2>1, SynchronizeKeepsData DEF MainSynchronize
<1>3. CASE HelperImport /\ solved
  <2>1. SearchTypeOK'
    BY <1>3, ProblemIsKept
       DEF HelperImport, helperVars, searchVars, DataInv, TypeOK, SearchTypeOK
  <2> QED
    BY <1>1, <1>3, <2>1, QuietStepsKeepData DEF HelperImport, helperVars
<1>4. CASE RecomputeHelperData
  <2>1. SearchTypeOK'
    BY <1>4, ProblemIsKept
       DEF RecomputeHelperData, searchVars, DataInv, TypeOK, SearchTypeOK
  <2> QED
    BY <1>1, <1>4, <2>1, QuietStepsKeepData DEF RecomputeHelperData
<1> QED
  BY <1>2, <1>3, <1>4, HelperImportKeepsData DEF MainNext

\* Every step of a full worker keeps DataInv.
LEMMA WorkerStepKeepsData ==
  ASSUME DataInv, config' = config, NEW w \in config.full, WorkerNext(w)
  PROVE  DataInv'
BY DeduceKeepsData, ExportKeepsData, SynchronizeAfterExportKeepsData, RegisterKeepsData,
   ImportBoundsKeepsData, FindSolutionKeepsData, ProveInfeasibleKeepsData DEF WorkerNext

\* Every step keeps DataInv.
LEMMA DataStep == ASSUME DataInv, [Next]_vars PROVE DataInv'
<1>1. config' = config
  BY ConfigurationIsKept
<1>2. CASE UNCHANGED vars
  <2>1. SearchTypeOK' /\ Registered' = Registered
    BY <1>2, ProblemIsKept
       DEF vars, searchVars, helperVars, Registered, DataInv, TypeOK, SearchTypeOK
  <2> QED
    BY <1>1, <1>2, <2>1, QuietStepsKeepData DEF vars, helperVars
<1>3. ASSUME NEW w \in config.full, WorkerNext(w) PROVE DataInv'
  BY <1>1, <1>3, WorkerStepKeepsData
<1>4. ASSUME NEW l \in config.lns, TaskNext(l) PROVE DataInv'
  BY <1>1, <1>4, TaskStepKeepsData
<1>5. CASE MainNext
  BY <1>1, <1>5, MainStepKeepsData
<1> QED
  BY <1>2, <1>3, <1>4, <1>5 DEF Next

\* DataInv holds throughout.
LEMMA DataInvariant == Spec => []DataInv
<1>1. DataInv /\ [Next]_vars => DataInv'
  BY DataStep
<1> QED
  BY <1>1, InitData, PTL DEF Spec

(* All is of its type; with symmetry only representatives change           *)
(* (SharedBoundsManager::Synchronize).                                     *)
THEOREM TypeCorrect == Spec => []TypeOK
<1>1. DataInv => TypeOK
  BY DEF DataInv
<1> QED
  BY <1>1, DataInvariant, PTL

(* GetChangedBounds() gives each caller every change since its last call,  *)
(* or, with RegisterNewId(), since the beginning: whatever is in no set of *)
(* changes is known.                                                       *)
THEOREM NoChangesAreMissed == Spec => []NoChangeIsMissed
<1>1. DataInv => NoChangeIsMissed
  BY DEF DataInv
<1> QED
  BY <1>1, DataInvariant, PTL

-----------------------------------------------------------------------------
(* What is kept.                                                           *)
LEMMA KeptFacts ==
  ASSUME DataInv
  PROVE  /\ Improving \subseteq Feasible /\ Kept \subseteq Improving
         /\ \A s \in Feasible : Cost[s] \in Int /\ s \in [Vars -> Int] /\ Inside(s, Domain)
         /\ \A s \in Feasible, v \in Vars : s[v] \in Int
         /\ \A s \in Improving : s \in Kept <=>
              \A v \in Vars : /\ bounds[Representative(v)].lb <= s[v]
                              /\ s[v] <= bounds[Representative(v)].ub
         /\ pool \subseteq Feasible
BY ConfigurationFacts, DataFacts
   DEF DataInv, TypeOK, SearchTypeOK, Improving, Kept, Inside, Expanded

(* A better solution leaves fewer that improve, and all that are better    *)
(* than one that is left.                                                  *)
LEMMA NewSolutionImproves ==
  ASSUME DataInv, config' = config, NEW s \in Feasible, NewSolution(s) \/ pool' = pool
  PROVE  /\ Improving' \subseteq Improving
         /\ \A x \in Improving', y \in Improving : Cost[y] <= Cost[x] => y \in Improving'
<1>1. CASE pool' = pool
  BY <1>1, ProblemIsKept DEF Improving, IsImproving
<1>2. CASE NewSolution(s) /\ IsImproving(s)
  <2>1. pool' = {s}
    BY <1>2 DEF NewSolution
  <2>2. \A x : x \in Improving' <=> x \in Feasible /\ Cost[x] < Cost[s]
    BY <2>1, ProblemIsKept DEF Improving, IsImproving
  <2>3. \A x \in Improving' : \A t \in pool : Cost[x] < Cost[t]
    BY <1>2, <2>2, KeptFacts DEF IsImproving
  <2> QED
    BY <2>2, <2>3, KeptFacts DEF Improving, IsImproving
<1>3. CASE NewSolution(s) /\ ~ IsImproving(s)
  BY <1>3, ProblemIsKept DEF NewSolution, Improving, IsImproving
<1> QED
  BY <1>1, <1>2, <1>3

(* Bounds that tighten keep less.                                          *)
LEMMA KeptShrinks ==
  ASSUME DataInv, config' = config, Improving' \subseteq Improving,
         bounds' = bounds \/ BoundsTighten
  PROVE  Kept' \subseteq Kept
<1> SUFFICES ASSUME NEW s \in Kept' PROVE s \in Kept
  OBVIOUS
<1>1. s \in Improving /\ \A v \in Vars : s[v] \in Int
  BY KeptFacts DEF Kept
<1>2. \A v \in Vars : /\ bounds'[Representative(v)].lb <= s[v]
                      /\ s[v] <= bounds'[Representative(v)].ub
  BY ProblemIsKept DEF Kept, Inside, Expanded
<1>3. \A v \in Vars : /\ bounds'[v] \in IntIntervals /\ bounds[v] \in IntIntervals
                      /\ Within(bounds'[v], bounds[v])
  BY DataFacts, WithinItself DEF BoundsTighten, Boxes
<1>4. ASSUME NEW v \in Vars
      PROVE  bounds[Representative(v)].lb <= s[v] /\ s[v] <= bounds[Representative(v)].ub
  <2> DEFINE r == Representative(v)
  <2>1. r \in Vars
    BY DataFacts
  <2> HIDE DEF r
  <2>2. s[v] \in Int /\ bounds'[r].lb <= s[v] /\ s[v] <= bounds'[r].ub
    BY <1>1, <1>2 DEF r
  <2>3. bounds[r].lb <= s[v] /\ s[v] <= bounds[r].ub
    BY <1>3, <2>1, <2>2 DEF Within, IntIntervals
  <2> QED
    BY <2>3 DEF r
<1> QED
  BY <1>1, <1>4, KeptFacts

(* Whatever a worker exports keeps them.                                   *)
LEMMA ReportKeeps ==
  ASSUME DataInv, SymmetriesKeepAll, KeptByAll, NEW i \in Ids,
         ReportPotentialNewBounds(box[i]), NEW s \in Kept
  PROVE  \A v \in Vars : /\ bounds'[Representative(v)].lb <= s[v]
                         /\ s[v] <= bounds'[Representative(v)].ub
<1> SUFFICES ASSUME NEW v \in Vars
             PROVE  /\ bounds'[Representative(v)].lb <= s[v]
                    /\ s[v] <= bounds'[Representative(v)].ub
  OBVIOUS
<1> DEFINE r == Representative(v)
<1>1. r \in Vars /\ Representative(r) = r /\ OrbitOf(r) = OrbitOf(v)
  BY Representatives, RepresentativeIsInOrbit, OrbitsAreClasses DEF DataInv, TypeOK, SearchTypeOK
<1>2. bounds'[r] = Tightened(r, box[i])
  BY <1>1 DEF ReportPotentialNewBounds, SetBounds
<1>3. s \in Improving /\ s[v] \in Int /\ bounds[r].lb <= s[v] /\ s[v] <= bounds[r].ub
  BY KeptFacts
<1>4. ASSUME NEW u \in OrbitOf(r) PROVE box[i][u].lb <= s[v] /\ s[v] <= box[i][u].ub
  <2>1. u \in Vars
    BY <1>1, OrbitsAreFinite
  <2>2. CASE HasSymmetry
    <3>1. PICK t \in Improving : t[u] = s[v]
      BY <1>1, <1>3, <1>4, OrbitsExchange DEF DataInv
    <3>2. t \in Kept
      BY <2>2, <3>1 DEF SymmetriesKeepAll
    <3> QED
      BY <2>1, <3>1, <3>2 DEF KeptByAll, Inside
  <2>3. CASE ~ HasSymmetry
    <3>1. u = v
      BY <1>1, <1>4, <2>3, Representatives DEF DataInv, TypeOK, SearchTypeOK
    <3> QED
      BY <3>1 DEF KeptByAll, Inside
  <2> QED
    BY <2>2, <2>3
<1>5. bounds \in Boxes /\ box[i] \in Boxes
  BY DataFacts
<1> HIDE DEF r
<1>6. Tightened(r, box[i]).lb <= s[v] /\ s[v] <= Tightened(r, box[i]).ub
  BY <1>1, <1>3, <1>4, <1>5, TightenedIsTight
<1> QED
  BY <1>2, <1>6 DEF r

(* Steps that keep what was kept, of the solutions that still improve.     *)
LEMMA KeepingSolutions ==
  ASSUME DataInv, SolutionsInv, config' = config, Improving' \subseteq Improving,
         Kept' = Kept \cap Improving',
         \A x \in Improving', y \in Improving : Cost[y] <= Cost[x] => y \in Improving',
         \A s \in Kept' : /\ Inside(s, Expanded(synchronized'))
                          /\ \A i \in Ids : Inside(s, box'[i]),
         solved' = solved \/ Improving = {}
  PROVE  SolutionsInv'
<1>1. SomeIsKept'
  <2> SUFFICES ASSUME NEW x \in Improving' PROVE \E y \in Kept' : Cost[y] <= Cost[x]
    BY ProblemIsKept DEF SomeIsKept
  <2>1. PICK y \in Kept : Cost[y] <= Cost[x]
    BY DEF SolutionsInv, SomeIsKept
  <2> QED
    BY <2>1, KeptFacts
<1>2. SymmetriesKeepAll'
  BY ProblemIsKept DEF SolutionsInv, SymmetriesKeepAll
<1>3. KeptByAll'
  BY ProblemIsKept DEF KeptByAll, Inside, Expanded
<1>4. ProofsAreSound'
  BY DEF SolutionsInv, ProofsAreSound
<1> QED
  BY <1>1, <1>2, <1>3, <1>4 DEF SolutionsInv

\* While the pool stays, so does the set of improving solutions.
LEMMA SameImproving ==
  ASSUME config' = config, pool' = pool
  PROVE  Improving' = Improving
BY ProblemIsKept DEF Improving, IsImproving

\* While the shared bounds stay, the kept solutions are the improving ones that
\* the shared bounds admit.
LEMMA SameKept ==
  ASSUME DataInv, config' = config, bounds' = bounds
  PROVE  Kept' = {s \in Improving' : \A v \in Vars : /\ bounds[Representative(v)].lb <= s[v]
                                                     /\ s[v] <= bounds[Representative(v)].ub}
BY ProblemIsKept DEF Kept, Inside, Expanded

(* Solutions that are kept are within what is imported.                    *)
LEMMA ImportKeeps ==
  ASSUME DataInv, SolutionsInv, NEW i \in Ids, NEW s \in Kept, NEW v \in Vars
  PROVE  LET m == Meet(box[i][v], ChangedBounds(i)[v])
             o == MeetOrOld(box[i][v], ChangedBounds(i)[v])
         IN m.lb <= s[v] /\ s[v] <= m.ub /\ o.lb <= s[v] /\ s[v] <= o.ub
<1>1. /\ box[i][v] \in IntIntervals /\ ChangedBounds(i)[v] \in IntIntervals /\ s[v] \in Int
      /\ s \in Feasible
  BY DataFacts, ImportedBounds, KeptFacts
<1>2. box[i][v].lb <= s[v] /\ s[v] <= box[i][v].ub
  BY DEF SolutionsInv, KeptByAll, Inside
<1>3. /\ synchronized[Representative(v)].lb <= s[v] /\ s[v] <= synchronized[Representative(v)].ub
      /\ Domain[v].lb <= s[v] /\ s[v] <= Domain[v].ub
  BY <1>1, KeptFacts DEF SolutionsInv, KeptByAll, Inside, Expanded
<1>4. ChangedBounds(i)[v].lb <= s[v] /\ s[v] <= ChangedBounds(i)[v].ub
  BY <1>3 DEF ChangedBounds
<1> QED
  BY <1>1, <1>2, <1>4, MeetOfIntervals DEF MeetOrOld

\* Every step of a full worker keeps SolutionsInv.
LEMMA WorkerStepKeepsSolutions ==
  ASSUME DataInv, SolutionsInv, config' = config, NEW w \in config.full, WorkerNext(w)
  PROVE  SolutionsInv'
<1>1. w \in Ids
  BY DataFacts DEF Ids
<1>2. \A s \in Kept : Inside(s, Expanded(synchronized)) /\ \A i \in Ids : Inside(s, box[i])
  BY DEF SolutionsInv, KeptByAll
<1>3. ASSUME UNCHANGED <<bounds, synchronized, pool>>,
             \A s \in Kept : \A i \in Ids : Inside(s, box'[i]),
             solved' = solved \/ Improving = {}
      PROVE  SolutionsInv'
  BY <1>2, <1>3, SameImproving, SameKept, KeptFacts, KeepingSolutions
<1>4. ASSUME NEW v \in Vars, NEW i \in Intervals(box[w][v]), Deduce(w, v, i)
      PROVE  SolutionsInv'
  <2>1. box' = [box EXCEPT ![w][v] = i] /\ DOMAIN box = Ids
    BY <1>4 DEF Deduce, DataInv, TypeOK, SearchTypeOK
  <2>2. \A j \in Ids, u \in Vars : box'[j][u] = IF j = w /\ u = v THEN i ELSE box[j][u]
    BY <1>1, <2>1, DataFacts DEF Boxes
  <2>3. \A s \in Kept : i.lb <= s[v] /\ s[v] <= i.ub
    BY <1>1, <1>2, <1>4, KeptFacts DEF Deduce
  <2>4. \A s \in Kept : \A j \in Ids : Inside(s, box'[j])
    BY <1>2, <2>2, <2>3 DEF Inside
  <2> QED
    BY <1>3, <1>4, <2>4 DEF Deduce, managerVars, searchVars
<1>5. CASE ExportBounds(w)
  <2>1. UNCHANGED <<synchronized, pool, box, solved>>
    BY <1>5 DEF ExportBounds, ReportPotentialNewBounds, SetBounds, searchVars
  <2>2. Improving' = Improving
    BY <2>1, SameImproving
  <2>3. BoundsTighten
    BY <1>1, <1>5, ReportTightens DEF ExportBounds, DataInv
  <2>4. Kept' \subseteq Kept
    BY <2>2, <2>3, KeptShrinks
  <2>5. Kept \subseteq Kept'
    <3> SUFFICES ASSUME NEW s \in Kept PROVE s \in Kept'
      OBVIOUS
    <3>1. \A v \in Vars : /\ bounds'[Representative(v)].lb <= s[v]
                          /\ s[v] <= bounds'[Representative(v)].ub
      BY <1>1, <1>5, ReportKeeps DEF ExportBounds, SolutionsInv
    <3> QED
      BY <2>2, <3>1, KeptFacts, ProblemIsKept DEF Kept, Inside, Expanded
  <2> QED
    BY <1>2, <2>1, <2>2, <2>4, <2>5, KeptFacts, KeepingSolutions
<1>6. CASE SynchronizeAfterExport(w)
  <2>1. \A v \in Vars : synchronized'[v] = bounds[v]
    BY <1>6 DEF SynchronizeAfterExport, Synchronize, DataInv, NoChangeIsMissed
  <2>2. UNCHANGED <<bounds, pool, box, solved>>
    BY <1>6 DEF SynchronizeAfterExport, Synchronize, searchVars
  <2>3. Improving' = Improving /\ Kept' = Kept
    BY <2>2, SameImproving, SameKept, KeptFacts
  <2>4. \A s \in Kept : Inside(s, Expanded(synchronized'))
    BY <2>1, DataFacts, KeptFacts DEF Inside, Expanded
  <2> QED
    BY <1>2, <2>2, <2>3, <2>4, KeptFacts, KeepingSolutions
<1>7. CASE RegisterImport(w)
  BY <1>2, <1>3, <1>7 DEF RegisterImport, RegisterNewId, searchVars
<1>8. CASE ImportBounds(w)
  <2>1. box' = [box EXCEPT ![w] = [v \in Vars |-> Meet(box[w][v], ChangedBounds(w)[v])]]
    BY <1>8 DEF ImportBounds
  <2>2. \A s \in Kept : Inside(s, box'[w])
    BY <1>1, <2>1, ImportKeeps DEF Inside, DataInv, TypeOK, SearchTypeOK
  <2>3. \A j \in Ids \ {w} : box'[j] = box[j]
    BY <2>1 DEF DataInv, TypeOK, SearchTypeOK
  <2> QED
    BY <1>2, <1>3, <1>8, <2>2, <2>3 DEF ImportBounds, GetChangedBounds, searchVars
<1>9. ASSUME NEW s \in Feasible, FindSolution(w, s) PROVE SolutionsInv'
  <2>1. UNCHANGED <<bounds, synchronized, box, solved>> /\ NewSolution(s)
    BY <1>9 DEF FindSolution, managerVars
  <2>2. /\ Improving' \subseteq Improving
        /\ \A x \in Improving', y \in Improving : Cost[y] <= Cost[x] => y \in Improving'
    BY <2>1, NewSolutionImproves
  <2>3. Kept' = Kept \cap Improving'
    BY <2>1, <2>2, SameKept, KeptFacts
  <2> QED
    BY <1>2, <2>1, <2>2, <2>3, KeepingSolutions
<1>10. CASE ProveInfeasible(w)
  <2>1. Kept = {}
    BY <1>1, <1>2, <1>10, KeptFacts DEF ProveInfeasible
  <2>2. Improving = {}
    BY <2>1 DEF SolutionsInv, SomeIsKept
  <2> QED
    BY <1>2, <1>3, <1>10, <2>2 DEF ProveInfeasible, managerVars
<1> QED
  BY <1>4, <1>5, <1>6, <1>7, <1>8, <1>9, <1>10 DEF WorkerNext

\* Every step of the driver keeps SolutionsInv.
LEMMA MainStepKeepsSolutions ==
  ASSUME DataInv, SolutionsInv, config' = config, MainNext
  PROVE  SolutionsInv'
<1>1. Helper \in Ids
  BY DEF Ids
<1>2. \A s \in Kept : Inside(s, Expanded(synchronized)) /\ \A i \in Ids : Inside(s, box[i])
  BY DEF SolutionsInv, KeptByAll
<1>3. UNCHANGED <<bounds, pool, solved>>
  BY DEF MainNext, MainSynchronize, Synchronize, HelperImport, GetChangedBounds,
     RecomputeHelperData, managerVars, searchVars
<1>4. Improving' = Improving /\ Kept' = Kept
  BY <1>3, SameImproving, SameKept, KeptFacts
<1>5. CASE MainSynchronize
  <2>1. \A v \in Vars : synchronized'[v] = bounds[v]
    BY <1>5 DEF MainSynchronize, Synchronize, DataInv, NoChangeIsMissed
  <2>2. \A s \in Kept : Inside(s, Expanded(synchronized'))
    BY <2>1, DataFacts, KeptFacts DEF Inside, Expanded
  <2> QED
    BY <1>2, <1>3, <1>4, <1>5, <2>2, KeptFacts, KeepingSolutions DEF MainSynchronize
<1>6. CASE HelperImport
  <2>1. CASE solved
    BY <1>2, <1>3, <1>4, <1>6, <2>1, KeptFacts, KeepingSolutions DEF HelperImport, managerVars
  <2>2. CASE ~ solved
    <3>1. box' = [box EXCEPT ![Helper] = [v \in Vars |->
                     MeetOrOld(box[Helper][v], ChangedBounds(Helper)[v])]]
      BY <1>6, <2>2 DEF HelperImport
    <3>2. \A s \in Kept : Inside(s, box'[Helper])
      BY <1>1, <3>1, ImportKeeps DEF Inside, DataInv, TypeOK, SearchTypeOK
    <3>3. \A j \in Ids \ {Helper} : box'[j] = box[j]
      BY <3>1 DEF DataInv, TypeOK, SearchTypeOK
    <3>4. synchronized' = synchronized
      BY <1>6, <2>2 DEF HelperImport, GetChangedBounds
    <3> QED
      BY <1>2, <1>3, <1>4, <3>2, <3>3, <3>4, KeptFacts, KeepingSolutions
  <2> QED
    BY <2>1, <2>2
<1>7. CASE RecomputeHelperData
  BY <1>2, <1>3, <1>4, <1>7, KeptFacts, KeepingSolutions DEF RecomputeHelperData, managerVars
<1> QED
  BY <1>5, <1>6, <1>7 DEF MainNext

-----------------------------------------------------------------------------
(* Neighborhoods.                                                          *)
LEMMA FixableIsIndependent ==
  ASSUME NEW b \in Boxes
  PROVE  FixableIn(b) \subseteq Relaxed(b) /\ Independent(FixableIn(b))
BY DEF FixableIn, Independent

(* What is optimal in a fragment may replace what a solution that is kept  *)
(* has on the independent parts of the fragment.                           *)
LEMMA FragmentsExchange ==
  ASSUME DataInv, FragmentInv, NEW l \in config.lns, task[l].state = "solving",
         NEW s \in Feasible, IsOptimalIn(s, task[l].box), NEW x \in Kept, KeptByAll
  PROVE  /\ Combined(x, s, task[l].fixable) \in Feasible
         /\ Cost[Combined(x, s, task[l].fixable)] <= Cost[x]
<1> DEFINE b == task[l].box
           C == task[l].fixable
           y == Combined(x, s, C)
           z == Combined(s, x, C)
<1>1. l \in LnsWorkers /\ b \in Boxes
  BY DataFacts DEF DataInv, TypeOK, TaskTypeOK
<1>2. C = FixableIn(b)
  BY DEF FragmentInv, FragmentsFollowTheGraph, IsRunning
<1>3. C \subseteq Relaxed(b) /\ Independent(C) /\ C \subseteq Vars
  BY <1>1, <1>2, FixableIsIndependent DEF Relaxed
<1>4. \A v \in graph : IsFixed(b[v]) /\ b[v] = box[Helper][v]
  BY DEF FragmentInv, FragmentsFollowTheGraph, IsRunning
<1>5. \A v \in Relaxed(b) : b[v].lb <= x[v] /\ x[v] <= b[v].ub
  BY DEF FragmentInv, FragmentsFollowTheGraph, IsRunning
<1>6. \A v \in Vars : b[v].lb <= s[v] /\ s[v] <= b[v].ub
  BY DEF IsOptimalIn, Inside
<1>7. x \in Feasible /\ \A v \in Vars : x[v] \in Int /\ s[v] \in Int /\ b[v] \in IntIntervals
  BY <1>1, KeptFacts DEF Boxes
<1> HIDE DEF b, C
<1>8. graph \subseteq Vars /\ Helper \in Ids
  BY DEF DataInv, TypeOK, SearchTypeOK, Ids
<1>9. ASSUME NEW v \in graph PROVE x[v] = s[v]
  <2>1. b[v].lb <= x[v] /\ x[v] <= b[v].ub
    BY <1>4, <1>8 DEF KeptByAll, Inside
  <2>2. b[v].lb = b[v].ub
    BY <1>4 DEF IsFixed
  <2> QED
    BY <1>6, <1>7, <1>8, <2>1, <2>2 DEF IntIntervals
<1>10. \A S \in Scopes : Agree(x, s, S \cap C) \/ Agree(x, s, S \ C)
  <2> SUFFICES ASSUME NEW S \in Scopes PROVE Agree(x, s, S \cap C) \/ Agree(x, s, S \ C)
    OBVIOUS
  <2>1. CASE S \ graph \subseteq C
    BY <1>9, <2>1 DEF Agree
  <2>2. CASE (S \ graph) \cap C = {}
    <3>1. S \cap C = {}
      BY <1>3, <2>2 DEF Independent
    <3> QED
      BY <3>1 DEF Agree
  <2> QED
    BY <1>3, <2>1, <2>2 DEF Independent
<1>11. y \in Feasible /\ z \in Feasible /\ Cost[y] + Cost[z] = Cost[x] + Cost[s]
  <2>1. FollowsScopes(config.problem)
    BY ConfigurationFacts DEF DataInv, TypeOK, SearchTypeOK, ConfigurationOK
  <2> QED
    BY <1>3, <1>7, <1>10, <2>1 DEF FollowsScopes, Feasible, Cost
<1>12. Inside(z, b)
  BY <1>3, <1>5, <1>6 DEF Combined, Inside
<1>13. Cost[s] <= Cost[z]
  BY <1>11, <1>12 DEF IsOptimalIn, b
<1>14. Cost[y] <= Cost[x]
  BY <1>7, <1>11, <1>13, KeptFacts
<1> QED
  BY <1>11, <1>14 DEF C

\* Fixing variables after a fragment was closed keeps SolutionsInv: here the
\* fixed variables have to be a connected component of the current graph.
LEMMA FixFragmentKeepsSolutions ==
  ASSUME DataInv, SolutionsInv, FragmentInv, config' = config,
         NEW l \in config.lns, NEW s \in Feasible, FixFragment(l, s)
  PROVE  SolutionsInv'
<1> DEFINE C == task[l].fixable
           y(x) == Combined(x, s, C)
<1>1. UNCHANGED <<box, pool, solved, synchronized>>
  BY DEF FixFragment, managerVars, FixVariablesFromPartialSolution, SetBounds, searchVars
<1>2. Improving' = Improving
  BY <1>1, SameImproving
<1>3. \A x \in Kept : Inside(x, Expanded(synchronized)) /\ \A i \in Ids : Inside(x, box[i])
  BY DEF SolutionsInv, KeptByAll
<1>4. CASE UNCHANGED managerVars
  BY <1>1, <1>2, <1>3, <1>4, SameKept, KeptFacts, KeepingSolutions DEF managerVars
<1>5. CASE ~ HasSymmetry /\ IsCompatible(s, C)
           /\ SetBounds([v \in Vars |-> IF v \in C THEN Interval(s[v], s[v]) ELSE bounds[v]])
  <2>1. l \in LnsWorkers /\ C \subseteq Vars
    BY DataFacts DEF DataInv, TypeOK, TaskTypeOK
  <2>2. BoundsTighten
    BY <1>5, <2>1, FixingTightens DEF DataInv, FixVariablesFromPartialSolution
  <2>3. Kept' \subseteq Kept
    BY <1>2, <2>2, KeptShrinks
  <2>4. ASSUME NEW x \in Kept PROVE y(x) \in Kept' /\ Cost[y(x)] <= Cost[x]
    <3>1. y(x) \in Feasible /\ Cost[y(x)] <= Cost[x]
      BY FragmentsExchange DEF FixFragment, SolutionsInv
    <3>2. y(x) \in Improving
      <4>1. \A t \in pool : Cost[x] < Cost[t]
        BY KeptFacts DEF Improving, IsImproving
      <4>2. Cost[x] \in Int /\ Cost[y(x)] \in Int /\ \A t \in pool : Cost[t] \in Int
        BY <3>1, KeptFacts
      <4> QED
        BY <3>1, <4>1, <4>2 DEF Improving, IsImproving
    <3>3. ASSUME NEW v \in Vars PROVE bounds'[v].lb <= y(x)[v] /\ y(x)[v] <= bounds'[v].ub
      <4>1. s[v] \in Int /\ Representative(v) = v
        BY <1>5, KeptFacts, Representatives DEF DataInv, TypeOK, SearchTypeOK
      <4>2. bounds[v].lb <= x[v] /\ x[v] <= bounds[v].ub
        BY <4>1, KeptFacts
      <4>3. bounds'[v] = IF v \in C THEN Interval(s[v], s[v]) ELSE bounds[v]
        BY <1>5 DEF SetBounds
      <4>4. y(x)[v] = IF v \in C THEN s[v] ELSE x[v]
        BY DEF Combined
      <4> QED
        BY <4>1, <4>2, <4>3, <4>4 DEF Interval
    <3>4. \A v \in Vars : Representative(v) \in Vars /\ Representative(v) = v
      BY <1>5, Representatives DEF DataInv, TypeOK, SearchTypeOK
    <3> HIDE DEF y
    <3> QED
      BY <1>2, <3>1, <3>2, <3>3, <3>4, ProblemIsKept DEF Kept, Inside, Expanded
  <2>5. SomeIsKept'
    <3> SUFFICES ASSUME NEW t \in Improving PROVE \E k \in Kept' : Cost[k] <= Cost[t]
      BY <1>2, ProblemIsKept DEF SomeIsKept
    <3>1. PICK x \in Kept : Cost[x] <= Cost[t]
      BY DEF SolutionsInv, SomeIsKept
    <3>2. y(x) \in Kept' /\ Cost[y(x)] <= Cost[x]
      BY <2>4
    <3>3. y(x) \in Kept /\ y(x) \in Feasible /\ x \in Feasible /\ t \in Feasible
      BY <2>3, <3>2, KeptFacts
    <3>4. Cost[y(x)] \in Int /\ Cost[x] \in Int /\ Cost[t] \in Int
      BY <3>3, KeptFacts
    <3> HIDE DEF y
    <3>5. Cost[y(x)] <= Cost[t]
      BY <3>1, <3>2, <3>4
    <3> QED
      BY <3>2, <3>5
  <2>6. KeptByAll'
    BY <1>1, <1>3, <2>3, ProblemIsKept DEF KeptByAll, Inside, Expanded
  <2>7. SymmetriesKeepAll' /\ ProofsAreSound'
    BY <1>1, <1>2, <1>5, ProblemIsKept
       DEF SolutionsInv, SymmetriesKeepAll, ProofsAreSound
  <2> QED
    BY <2>5, <2>6, <2>7 DEF SolutionsInv
<1> QED
  BY <1>4, <1>5 DEF FixFragment, FixVariablesFromPartialSolution

\* Every step of a fragment task keeps SolutionsInv.
LEMMA TaskStepKeepsSolutions ==
  ASSUME DataInv, SolutionsInv, FragmentInv, config' = config, NEW l \in config.lns, TaskNext(l)
  PROVE  SolutionsInv'
<1>1. \A s \in Kept : Inside(s, Expanded(synchronized)) /\ \A i \in Ids : Inside(s, box[i])
  BY DEF SolutionsInv, KeptByAll
<1>2. CASE ReportFragment(l)
  <2>1. PICK s \in task[l].found : NewSolution(s)
    BY <1>2 DEF ReportFragment
  <2>2. s \in Feasible
    BY DataFacts DEF DataInv, TypeOK, TaskTypeOK
  <2>3. UNCHANGED <<bounds, synchronized, box, solved>>
    BY <1>2 DEF ReportFragment, managerVars
  <2>4. /\ Improving' \subseteq Improving
        /\ \A x \in Improving', y \in Improving : Cost[y] <= Cost[x] => y \in Improving'
    BY <2>1, <2>2, NewSolutionImproves
  <2>5. Kept' = Kept \cap Improving'
    BY <2>3, <2>4, SameKept, KeptFacts
  <2> QED
    BY <1>1, <2>3, <2>4, <2>5, KeepingSolutions
<1>3. ASSUME UNCHANGED <<bounds, synchronized, box, pool, solved>> PROVE SolutionsInv'
  <2>1. Improving' = Improving /\ Kept' = Kept
    BY <1>3, SameImproving, SameKept, KeptFacts
  <2> QED
    BY <1>1, <1>3, <2>1, KeptFacts, KeepingSolutions
<1>4. CASE \/ \E base \in pool, relaxed \in SUBSET Vars : ReadDomains(l, base, relaxed)
           \/ DetectComponents(l) \/ GiveUpFragment(l)
  BY <1>3, <1>4 DEF ReadDomains, DetectComponents, GiveUpFragment, managerVars, searchVars
<1> QED
  BY <1>2, <1>4, FixFragmentKeepsSolutions DEF TaskNext

-----------------------------------------------------------------------------
(* Nothing that was read is kept back.                                     *)
LEMMA KeptNeverGrows ==
  ASSUME DataInv, [Next]_vars
  PROVE  Kept' \subseteq Kept
<1>1. config' = config
  BY ConfigurationIsKept
<1>2. ASSUME UNCHANGED <<bounds, pool>> PROVE Kept' \subseteq Kept
  BY <1>1, <1>2, SameImproving, KeptShrinks
<1>3. ASSUME NEW s \in Feasible, NewSolution(s), bounds' = bounds PROVE Kept' \subseteq Kept
  BY <1>1, <1>3, NewSolutionImproves, KeptShrinks
<1>4. ASSUME BoundsTighten, pool' = pool PROVE Kept' \subseteq Kept
  BY <1>1, <1>4, SameImproving, KeptShrinks
<1>5. CASE UNCHANGED vars
  BY <1>2, <1>5 DEF vars, managerVars, searchVars
<1>6. CASE MainNext
  BY <1>2, <1>6 DEF MainNext, MainSynchronize, Synchronize, HelperImport, GetChangedBounds,
     RecomputeHelperData, managerVars, searchVars
<1>7. ASSUME NEW w \in config.full, WorkerNext(w) PROVE Kept' \subseteq Kept
  <2>1. CASE ExportBounds(w)
    <3>1. w \in Ids
      BY DataFacts DEF Ids
    <3> QED
      BY <1>4, <2>1, <3>1, ReportTightens DEF ExportBounds, DataInv, searchVars
  <2>2. ASSUME NEW s \in Feasible, FindSolution(w, s) PROVE Kept' \subseteq Kept
    BY <1>3, <2>2 DEF FindSolution, managerVars
  <2> QED
    BY <1>2, <1>7, <2>1, <2>2
       DEF WorkerNext, Deduce, SynchronizeAfterExport, Synchronize, RegisterImport, RegisterNewId,
           ImportBounds, GetChangedBounds, ProveInfeasible, managerVars, searchVars
<1>8. ASSUME NEW l \in config.lns, TaskNext(l) PROVE Kept' \subseteq Kept
  <2>1. l \in LnsWorkers
    BY DataFacts
  <2>2. ASSUME NEW s \in Feasible, FixFragment(l, s) PROVE Kept' \subseteq Kept
    <3>1. task[l].fixable \in SUBSET Vars
      BY <2>1 DEF DataInv, TypeOK, TaskTypeOK
    <3> QED
      BY <1>2, <1>4, <2>2, <3>1, FixingTightens DEF FixFragment, DataInv, managerVars, searchVars
  <2>3. CASE ReportFragment(l)
    <3>1. task[l].found \subseteq Feasible
      BY <2>1 DEF DataInv, TypeOK, TaskTypeOK
    <3> QED
      BY <1>3, <2>3, <3>1 DEF ReportFragment, managerVars
  <2> QED
    BY <1>2, <1>8, <2>2, <2>3
       DEF TaskNext, ReadDomains, DetectComponents, GiveUpFragment, managerVars, searchVars
<1> QED
  BY <1>5, <1>6, <1>7, <1>8 DEF Next

\* Fragments that follow the graph still do after a step that touches neither
\* the graph, the helper's domains nor a task that is being solved.
LEMMA FragmentsStay ==
  ASSUME FragmentsFollowTheGraph, config' = config, graph' = graph,
         box'[Helper] = box[Helper], Kept' \subseteq Kept,
         \A l \in config.lns : task'[l] = task[l] \/ task'[l].state \notin {"generating", "solving"}
  PROVE  FragmentsFollowTheGraph'
BY DEF FragmentsFollowTheGraph, IsRunning, Relaxed, FixableIn, Independent

\* A task that reads the helper's domains reads those of the current graph.
LEMMA ReadDomainsFollowsTheGraph ==
  ASSUME DataInv, KeptByAll, FragmentInv, main = "search", config' = config,
         Kept' \subseteq Kept, NEW l \in config.lns, NEW base \in pool,
         NEW relaxed \in SUBSET Vars, ReadDomains(l, base, relaxed)
  PROVE  FragmentsFollowTheGraph'
<1> DEFINE b == [v \in Vars |->
                   IF v \in relaxed THEN box[Helper][v]
                   ELSE LET value == Closest(base[v], box[Helper][v])
                        IN Interval(value, value)]
<1>1. l \in LnsWorkers /\ Helper \in Ids /\ base \in Feasible
  BY DataFacts, KeptFacts DEF Ids
<1>2. \A v \in Vars : base[v] \in Int /\ box[Helper][v] \in IntIntervals
  BY <1>1, DataFacts, KeptFacts
<1>3. task' = [task EXCEPT ![l].state = "generating", ![l].box = b]
  BY DEF ReadDomains
<1>4. UNCHANGED <<box, graph>>
  BY DEF ReadDomains
<1>5. task'[l].state = "generating" /\ task'[l].box = b
  BY <1>1, <1>3 DEF DataInv, TypeOK, TaskTypeOK
<1>6. \A k \in config.lns \ {l} : task'[k] = task[k]
  BY <1>3, DataFacts DEF DataInv, TypeOK, TaskTypeOK
<1>7. ASSUME NEW v \in graph PROVE IsFixed(b[v]) /\ b[v] = box[Helper][v]
  <2>1. v \in Vars /\ IsFixed(box[Helper][v])
    BY DEF FragmentInv, GraphIsOfTheBox
  <2>2. box[Helper][v] = Interval(box[Helper][v].lb, box[Helper][v].lb)
    BY <1>2, <2>1 DEF IsFixed, Interval, IntIntervals
  <2>3. Closest(base[v], box[Helper][v]) = box[Helper][v].lb
    BY <1>2, <2>1 DEF IsFixed, Closest, IntIntervals
  <2> QED
    BY <2>1, <2>2, <2>3
<1>8. ASSUME NEW s \in Kept, NEW v \in Relaxed(b) PROVE b[v].lb <= s[v] /\ s[v] <= b[v].ub
  <2>1. v \in Vars /\ ~ IsFixed(b[v])
    BY <1>8 DEF Relaxed
  <2>2. b[v] = box[Helper][v]
    BY <2>1 DEF IsFixed, Interval
  <2> QED
    BY <1>1, <2>1, <2>2 DEF KeptByAll, Inside
<1> HIDE DEF b
<1>9. ASSUME NEW k \in config.lns, task'[k].state \in {"generating", "solving"}
      PROVE  /\ \A v \in graph : IsFixed(task'[k].box[v]) /\ task'[k].box[v] = box[Helper][v]
             /\ \A s \in Kept : \A v \in Relaxed(task'[k].box) :
                  task'[k].box[v].lb <= s[v] /\ s[v] <= task'[k].box[v].ub
             /\ task'[k].state = "solving" => task'[k].fixable = FixableIn(task'[k].box)
  <2>1. CASE k = l
    BY <1>5, <1>7, <1>8, <2>1
  <2>2. CASE k # l
    BY <1>6, <1>9, <2>2 DEF FragmentInv, FragmentsFollowTheGraph, IsRunning
  <2> QED
    BY <2>1, <2>2
<1> QED
  BY <1>4, <1>9 DEF FragmentsFollowTheGraph, IsRunning, Relaxed, FixableIn, Independent

\* Every step of a fragment task keeps FragmentInv, when no two run at once.
LEMMA TaskStepFollowsTheGraph ==
  ASSUME NoParallelNeighborhoods, DataInv, KeptByAll, FragmentInv, config' = config,
         Kept' \subseteq Kept, NEW l \in config.lns, TaskNext(l)
  PROVE  FragmentInv'
<1>1. l \in LnsWorkers /\ config.interleave_search
  BY DataFacts DEF NoParallelNeighborhoods, DataInv, TypeOK, SearchTypeOK
<1>2. UNCHANGED <<main, box, graph>>
  BY DEF TaskNext, ReadDomains, DetectComponents, FixFragment, ReportFragment, GiveUpFragment
<1>3. \A k \in config.lns \ {l} : task'[k] = task[k]
  BY <1>1, DataFacts
     DEF TaskNext, ReadDomains, DetectComponents, FixFragment, ReportFragment, GiveUpFragment,
         DataInv, TypeOK, TaskTypeOK
<1>4. GraphIsOfTheBox'
  BY <1>2 DEF FragmentInv, GraphIsOfTheBox
<1>5. ASSUME task'[l].state \notin {"generating", "solving"}, main = "search" PROVE FragmentInv'
  BY <1>2, <1>3, <1>4, <1>5, FragmentsStay DEF FragmentInv, TasksEndFirst
<1>6. ASSUME NEW base \in pool, NEW relaxed \in SUBSET Vars, ReadDomains(l, base, relaxed)
      PROVE  FragmentInv'
  <2>1. main = "search"
    BY <1>1, <1>6 DEF ReadDomains, TasksMayRun
  <2> QED
    BY <1>2, <1>4, <1>6, <2>1, ReadDomainsFollowsTheGraph DEF FragmentInv, TasksEndFirst
<1>7. ASSUME task[l].state \in {"generating", "solving", "reporting"} PROVE main = "search"
  BY <1>7 DEF FragmentInv, TasksEndFirst
<1>8. CASE DetectComponents(l)
  <2>1. /\ task'[l].state = "solving" /\ task'[l].box = task[l].box
        /\ task'[l].fixable = FixableIn(task[l].box) /\ task[l].state = "generating"
    BY <1>1, <1>8 DEF DetectComponents, DataInv, TypeOK, TaskTypeOK
  <2>2. main = "search"
    BY <1>7, <2>1
  <2>3. ASSUME NEW k \in config.lns, task'[k].state \in {"generating", "solving"}
        PROVE  /\ \A v \in graph : IsFixed(task'[k].box[v]) /\ task'[k].box[v] = box[Helper][v]
               /\ \A s \in Kept : \A v \in Relaxed(task'[k].box) :
                    task'[k].box[v].lb <= s[v] /\ s[v] <= task'[k].box[v].ub
               /\ task'[k].state = "solving" => task'[k].fixable = FixableIn(task'[k].box)
    <3>1. task'[k].box = task[k].box /\ IsRunning(k)
      BY <1>3, <2>1, <2>3 DEF IsRunning
    <3>2. task'[k].state = "solving" => task'[k].fixable = FixableIn(task'[k].box)
      BY <1>3, <2>1, <3>1 DEF FragmentInv, FragmentsFollowTheGraph
    <3> QED
      BY <3>1, <3>2 DEF FragmentInv, FragmentsFollowTheGraph
  <2>4. FragmentsFollowTheGraph'
    BY <1>2, <2>3 DEF FragmentsFollowTheGraph, IsRunning, Relaxed, FixableIn, Independent
  <2> QED
    BY <1>2, <1>4, <2>2, <2>4 DEF FragmentInv, TasksEndFirst
<1>9. ASSUME NEW s \in Feasible, FixFragment(l, s) PROVE FragmentInv'
  BY <1>1, <1>5, <1>7, <1>9 DEF FixFragment, DataInv, TypeOK, TaskTypeOK
<1>10. CASE ReportFragment(l) \/ GiveUpFragment(l)
  BY <1>1, <1>5, <1>7, <1>10
     DEF ReportFragment, GiveUpFragment, NoTask, DataInv, TypeOK, TaskTypeOK
<1> QED
  BY <1>6, <1>8, <1>9, <1>10 DEF TaskNext

\* Every step of the driver keeps FragmentInv: it changes the graph only while
\* no fragment is being generated or solved.
LEMMA MainStepFollowsTheGraph ==
  ASSUME NoParallelNeighborhoods, DataInv, FragmentInv, config' = config,
         Kept' \subseteq Kept, MainNext
  PROVE  FragmentInv'
<1>1. UNCHANGED task
  BY DEF MainNext, MainSynchronize, HelperImport, RecomputeHelperData, helperVars
<1>2. CASE MainSynchronize
  <2>1. \A l \in config.lns : task[l].state = "idle"
    BY <1>2 DEF MainSynchronize, NoParallelNeighborhoods, DataInv, TypeOK, SearchTypeOK
  <2>2. UNCHANGED <<box, graph>>
    BY <1>2 DEF MainSynchronize, helperVars
  <2>3. GraphIsOfTheBox' /\ TasksEndFirst'
    BY <1>1, <1>2, <2>1, <2>2 DEF MainSynchronize, FragmentInv, GraphIsOfTheBox, TasksEndFirst
  <2> QED
    BY <1>1, <2>2, <2>3, FragmentsStay DEF FragmentInv
<1>3. CASE HelperImport
  <2>1. \A l \in config.lns : task[l].state = "idle"
    BY <1>3 DEF HelperImport, FragmentInv, TasksEndFirst
  <2>2. GraphIsOfTheBox' /\ TasksEndFirst'
    BY <1>1, <1>3, <2>1 DEF HelperImport, helperVars, FragmentInv, GraphIsOfTheBox, TasksEndFirst
  <2>3. FragmentsFollowTheGraph'
    BY <1>1, <2>1 DEF FragmentsFollowTheGraph, IsRunning
  <2> QED
    BY <2>2, <2>3 DEF FragmentInv
<1>4. CASE RecomputeHelperData
  <2>1. \A l \in config.lns : task[l].state = "idle"
    BY <1>4 DEF RecomputeHelperData, FragmentInv, TasksEndFirst
  <2>2. GraphIsOfTheBox' /\ TasksEndFirst'
    BY <1>1, <1>4, <2>1 DEF RecomputeHelperData, GraphIsOfTheBox, TasksEndFirst
  <2>3. FragmentsFollowTheGraph'
    BY <1>1, <2>1 DEF FragmentsFollowTheGraph, IsRunning
  <2> QED
    BY <2>2, <2>3 DEF FragmentInv
<1> QED
  BY <1>2, <1>3, <1>4 DEF MainNext

\* Every step of a full worker keeps FragmentInv.
LEMMA WorkerStepFollowsTheGraph ==
  ASSUME DataInv, FragmentInv, config' = config, Kept' \subseteq Kept,
         NEW w \in config.full, WorkerNext(w)
  PROVE  FragmentInv'
<1>1. w \in Ids /\ w # Helper /\ Helper \in Ids
  BY DataFacts, BoundsAssumption DEF Ids
<1>2. UNCHANGED <<main, task, graph>>
  BY DEF WorkerNext, Deduce, ExportBounds, SynchronizeAfterExport, RegisterImport, ImportBounds,
     FindSolution, ProveInfeasible, helperVars
<1>3. box'[Helper] = box[Helper]
  BY <1>1 DEF WorkerNext, Deduce, ExportBounds, SynchronizeAfterExport, RegisterImport,
     ImportBounds, FindSolution, ProveInfeasible, DataInv, TypeOK, SearchTypeOK
<1>4. GraphIsOfTheBox' /\ TasksEndFirst'
  BY <1>2, <1>3 DEF FragmentInv, GraphIsOfTheBox, TasksEndFirst
<1> QED
  BY <1>2, <1>3, <1>4, FragmentsStay DEF FragmentInv

-----------------------------------------------------------------------------
KeptInv == DataInv /\ SolutionsInv /\ FragmentInv

\* KeptInv holds at first.
LEMMA InitKept == Init => KeptInv
<1> SUFFICES ASSUME Init PROVE KeptInv
  OBVIOUS
<1>1. DataInv
  BY InitData
<1>2. \A s \in Feasible : Inside(s, Expanded(Domain))
  <2>1. \A v \in Vars : Domain[Representative(v)] = Domain[v]
    BY <1>1, DataFacts
  <2> QED
    BY <1>1, <2>1, KeptFacts DEF Inside, Expanded
<1>3. Kept = Improving
  BY <1>1, <1>2, KeptFacts DEF Init, Kept
<1>4. SomeIsKept /\ SymmetriesKeepAll /\ ProofsAreSound
  BY <1>1, <1>3, KeptFacts DEF Init, SomeIsKept, SymmetriesKeepAll, ProofsAreSound
<1>5. KeptByAll
  BY <1>1, <1>2, KeptFacts DEF Init, KeptByAll
<1>6. FragmentInv
  <2>1. Helper \in Ids
    BY DEF Ids
  <2>2. \A l \in config.lns : task[l].state = "idle"
    BY <1>1, DataFacts DEF Init, NoTask
  <2> QED
    BY <2>1, <2>2
       DEF Init, FragmentInv, GraphIsOfTheBox, TasksEndFirst, FragmentsFollowTheGraph, IsRunning
<1> QED
  BY <1>1, <1>4, <1>5, <1>6 DEF KeptInv, SolutionsInv

\* Every step keeps KeptInv.
LEMMA KeptStep ==
  ASSUME NoParallelNeighborhoods, KeptInv, [Next]_vars
  PROVE  KeptInv'
<1> USE DEF KeptInv
<1>1. config' = config /\ Kept' \subseteq Kept
  BY ConfigurationIsKept, KeptNeverGrows
<1>2. DataInv'
  BY DataStep
<1>3. CASE UNCHANGED vars
  <2>1. Improving' = Improving /\ Kept' = Kept
    BY <1>1, <1>3, SameImproving, SameKept, KeptFacts DEF vars, searchVars, managerVars
  <2>2. SolutionsInv'
    BY <1>1, <1>3, <2>1, KeptFacts, KeepingSolutions
       DEF vars, searchVars, managerVars, SolutionsInv, KeptByAll
  <2>3. FragmentInv'
    BY <1>1, <1>3, FragmentsStay
       DEF vars, helperVars, FragmentInv, GraphIsOfTheBox, TasksEndFirst
  <2> QED
    BY <1>2, <2>2, <2>3
<1>4. ASSUME NEW w \in config.full, WorkerNext(w) PROVE KeptInv'
  BY <1>1, <1>2, <1>4, WorkerStepKeepsSolutions, WorkerStepFollowsTheGraph
<1>5. ASSUME NEW l \in config.lns, TaskNext(l) PROVE KeptInv'
  BY <1>1, <1>2, <1>5, TaskStepKeepsSolutions, TaskStepFollowsTheGraph DEF SolutionsInv
<1>6. CASE MainNext
  BY <1>1, <1>2, <1>6, MainStepKeepsSolutions, MainStepFollowsTheGraph
<1> QED
  BY <1>3, <1>4, <1>5, <1>6 DEF Next

\* KeptInv holds throughout.
LEMMA KeptInvariant ==
  ASSUME NoParallelNeighborhoods PROVE Spec => []KeptInv
<1>1. KeptInv /\ [Next]_vars => KeptInv'
  BY KeptStep
<1> QED
  BY <1>1, InitKept, PTL DEF Spec

(* "we can just fix the variable listed here to that optimal solution":    *)
(* as long as a solution improves, one that does is within all bounds that *)
(* are shared and those of every worker.  In an interleaved search the     *)
(* domains and the components that a neighborhood reads belong together.   *)
THEOREM AnImprovementIsAlwaysKept ==
  ASSUME NoParallelNeighborhoods PROVE Spec => []AnImprovementIsKept
<1>1. KeptInv => AnImprovementIsKept
  <2> SUFFICES ASSUME KeptInv, NEW x \in Improving
               PROVE  \E s \in Improving :
                        /\ Inside(s, Expanded(bounds)) /\ Inside(s, Expanded(synchronized))
                        /\ \A w \in config.full : Inside(s, box[w])
    BY DEF AnImprovementIsKept
  <2>1. PICK s \in Kept : TRUE
    BY DEF KeptInv, SolutionsInv, SomeIsKept
  <2>2. s \in Improving /\ Inside(s, Expanded(bounds))
    BY DEF Kept
  <2>3. Inside(s, Expanded(synchronized)) /\ \A i \in Ids : Inside(s, box[i])
    BY DEF KeptInv, SolutionsInv, KeptByAll
  <2>4. config.full \subseteq Ids
    BY DataFacts DEF KeptInv, Ids
  <2> QED
    BY <2>2, <2>3, <2>4
<1> QED
  BY <1>1, KeptInvariant, PTL

(* "OPTIMAL: An optimal feasible solution has been found": what a worker   *)
(* proves within its bounds is true without them.                          *)
THEOREM ProofsAreAlwaysSound ==
  ASSUME NoParallelNeighborhoods PROVE Spec => []ProofsAreSound
<1>1. KeptInv => ProofsAreSound
  BY DEF KeptInv, SolutionsInv
<1> QED
  BY <1>1, KeptInvariant, PTL
=============================================================================
