--------------------------- MODULE PlannerProofs ---------------------------
(***************************************************************************)
(* The search for a cycle is right for every catalog and every answer of    *)
(* the LLM.  The invariant behind both directions: the BLACK steps have no  *)
(* cycle and depend on BLACK steps only, and the steps on the stack form a  *)
(* path of dependencies, so that a GRAY dependency of the top closes a      *)
(* cycle.                                                                   *)
(***************************************************************************)
EXTENDS Planner, SequenceTheorems, TLAPS

\* A finished step depends on finished steps only.
BlackIsClosed == \A s \in Black : DependsOn[s] \subseteq Black

\* There is no cycle among the finished steps.
BlackHasNoCycle ==
  \A T \in (SUBSET Black) \ {{}} : \E s \in T : DependsOn[s] \cap T = {}

\* Each call of visit() was made for a dependency of the call around it.
StackIsPath ==
  \A i \in 1..(Len(stack) - 1) : stack[i + 1] \in DependsOn[stack[i]]

\* No step is visited by two calls at a time.
StackIsInjective ==
  \A i, j \in 1..Len(stack) : stack[i] = stack[j] => i = j

AcceptedIsBlack == outcome = "accepted" => Black = Selected

IInv ==
  /\ TypeOK
  /\ BlackIsClosed
  /\ BlackHasNoCycle
  /\ StackIsPath
  /\ StackIsInjective
  /\ AcceptedIsBlack
  /\ FallsBackOnlyForCycles
  /\ FallbackIsAccepted

----------------------------------------------------------------------------

\* Any dependencies, once restricted, are dependencies between selected steps.
LEMMA OnlyType ==
  ASSUME NEW D \in [Catalog -> SUBSET Names], plan \in ServicePlan
  PROVE  Only(D) \in [Selected -> SUBSET Selected]
  BY PlannerAssumption DEF Only, Selected, ServicePlan

LEMMA DependsOnType ==
  ASSUME plan \in ServicePlan
  PROVE  /\ DependsOn \in [Selected -> SUBSET Selected]
         /\ Proposed \in [Selected -> SUBSET Selected]
  <1>1. Proposed \in [Selected -> SUBSET Selected]
    BY OnlyType DEF Proposed, ServicePlan
  <1>2. DefaultDependencies \in [Catalog -> SUBSET Names]
    BY PlannerAssumption DEF IsDag, Names
  <1>3. Only(DefaultDependencies) \in [Selected -> SUBSET Selected]
    BY <1>2, OnlyType
  <1> QED
    BY <1>1, <1>3 DEF DependsOn

\* "the default edges are always well-formed for any subset"
LEMMA DefaultIsDag ==
  ASSUME plan \in ServicePlan
  PROVE  IsDag(Selected, Only(DefaultDependencies))
  <1>1. Selected \subseteq Catalog
    BY PlannerAssumption DEF Selected
  <1>2. DefaultDependencies \in [Catalog -> SUBSET Names]
    BY PlannerAssumption DEF IsDag, Names
  <1>3. Only(DefaultDependencies) \in [Selected -> SUBSET Selected]
    BY <1>2, OnlyType
  <1>4. ASSUME NEW T \in (SUBSET Selected) \ {{}}
        PROVE  \E s \in T : Only(DefaultDependencies)[s] \cap T = {}
    <2>1. T \in (SUBSET Catalog) \ {{}}
      BY <1>1
    <2>2. PICK s \in T : DefaultDependencies[s] \cap T = {}
      BY <2>1, PlannerAssumption DEF IsDag
    <2>3. Only(DefaultDependencies)[s] \subseteq DefaultDependencies[s]
      BY DEF Only
    <2> QED
      BY <2>2, <2>3
  <1> QED
    BY <1>3, <1>4 DEF IsDag

\* A gray dependency of the top of the stack closes a cycle.
LEMMA GrayClosesCycle ==
  ASSUME TypeOK, StackIsPath, stack # << >>,
         NEW d \in DependsOn[Top], color[d] = "GRAY"
  PROVE  ~IsDag(Selected, DependsOn)
  <1> DEFINE n == Len(stack)
  <1>1. stack \in Seq(Selected) /\ n \in Nat \ {0} /\ Top \in Selected
    BY DEF TypeOK, Top
  <1>2. d \in Selected
    BY <1>1, DependsOnType DEF TypeOK
  <1>3. PICK k \in 1..n : stack[k] = d
    BY <1>2 DEF TypeOK
  <1> DEFINE T == {stack[i] : i \in k..n}
  <1>4. T \in (SUBSET Selected) \ {{}}
    <2>1. \A i \in k..n : stack[i] \in Selected
      BY <1>1
    <2>2. stack[k] \in T
      BY <1>1
    <2> QED
      BY <2>1, <2>2
  <1>5. ASSUME NEW s \in T
        PROVE  DependsOn[s] \cap T # {}
    <2>1. PICK i \in k..n : stack[i] = s
      OBVIOUS
    <2>2. CASE i = n
      <3>1. d \in DependsOn[s]
        BY <2>1, <2>2 DEF Top
      <3>2. d \in T
        BY <1>1, <1>3
      <3> QED
        BY <3>1, <3>2
    <2>3. CASE i # n
      <3>1. i \in 1..(n - 1) /\ i + 1 \in k..n
        BY <1>1, <2>3
      <3>2. stack[i + 1] \in DependsOn[s]
        BY <2>1, <3>1 DEF StackIsPath
      <3>3. stack[i + 1] \in T
        BY <3>1
      <3> QED
        BY <3>2, <3>3
    <2> QED
      BY <2>2, <2>3
  <1> QED
    BY <1>4, <1>5 DEF IsDag

----------------------------------------------------------------------------

LEMMA InitEstablishesInvariant == Init => IInv
  <1> SUFFICES ASSUME Init PROVE IInv
    OBVIOUS
  <1>1. TypeOK
    BY DEF Init, TypeOK, AllWhite
  <1>2. Black = {}
    BY DEF Init, Black, AllWhite
  <1>3. Len(stack) = 0
    BY DEF Init
  <1>4. BlackIsClosed /\ BlackHasNoCycle
    BY <1>2 DEF BlackIsClosed, BlackHasNoCycle
  <1>5. StackIsPath /\ StackIsInjective
    BY <1>3 DEF StackIsPath, StackIsInjective
  <1> QED
    BY <1>1, <1>4, <1>5
    DEF IInv, Init, AcceptedIsBlack, FallsBackOnlyForCycles, FallbackIsAccepted

\* visit() is called, by the outer loop or for a dependency of the top.
LEMMA VisitPreserves ==
  ASSUME IInv, NEW s \in Selected, Visit(s),
         stack # << >> => s \in DependsOn[Top]
  PROVE  IInv'
  <1>1. Selected' = Selected /\ DependsOn' = DependsOn /\ Proposed' = Proposed
    BY DEF Visit, Selected, DependsOn, Proposed, Only
  <1>2. stack \in Seq(Selected) /\ stack' = Append(stack, s)
    BY DEF IInv, TypeOK, Visit
  <1>3. /\ Len(stack') = Len(stack) + 1
        /\ stack'[Len(stack) + 1] = s
        /\ \A i \in 1..Len(stack) : stack'[i] = stack[i]
    BY <1>2
  <1>4. \A i \in 1..Len(stack) : stack[i] # s
    BY DEF IInv, TypeOK, Visit
  <1>5. TypeOK'
    <2>1. color' \in [Selected -> {"WHITE", "GRAY", "BLACK"}]
      BY DEF IInv, TypeOK, Visit
    <2>2. \A u \in Selected :
            color'[u] = "GRAY" <=> \E i \in 1..Len(stack') : stack'[i] = u
      BY <1>2, <1>3 DEF IInv, TypeOK, Visit
    <2> QED
      BY <1>1, <1>2, <2>1, <2>2 DEF IInv, TypeOK, Visit
  <1>6. Black' = Black
    BY <1>1 DEF Black, IInv, TypeOK, Visit
  <1>7. (BlackIsClosed /\ BlackHasNoCycle)'
    BY <1>1, <1>6 DEF IInv, BlackIsClosed, BlackHasNoCycle
  <1>8. StackIsPath'
    <2> SUFFICES ASSUME NEW i \in 1..(Len(stack') - 1)
                 PROVE  stack'[i + 1] \in DependsOn[stack'[i]]
      BY <1>1 DEF StackIsPath
    <2>1. CASE i = Len(stack)
      BY <1>2, <1>3, <2>1 DEF Top
    <2>2. CASE i # Len(stack)
      BY <1>2, <1>3, <2>2 DEF IInv, StackIsPath
    <2> QED
      BY <2>1, <2>2
  <1>9. StackIsInjective'
    BY <1>2, <1>3, <1>4 DEF IInv, StackIsInjective
  <1> QED
    BY <1>1, <1>5, <1>7, <1>8, <1>9
    DEF IInv, Visit, AcceptedIsBlack, FallsBackOnlyForCycles,
        FallbackIsAccepted

\* visit() returns False: its step becomes BLACK.
LEMMA ReturnPreserves ==
  ASSUME IInv, Return
  PROVE  IInv'
  <1> DEFINE n == Len(stack)
  <1>1. Selected' = Selected /\ DependsOn' = DependsOn /\ Proposed' = Proposed
    BY DEF Return, Selected, DependsOn, Proposed, Only
  <1>2. stack \in Seq(Selected) /\ n \in Nat \ {0} /\ Top \in Selected
    BY DEF IInv, TypeOK, Return, Top
  <1>3. /\ stack' \in Seq(Selected)
        /\ Len(stack') = n - 1
        /\ \A i \in 1..(n - 1) : stack'[i] = stack[i]
    <2>1. stack' = SubSeq(stack, 1, n - 1)
      BY DEF Return
    <2>2. \A i \in 1..(n - 1) : stack[i] \in Selected
      BY <1>2
    <2>3. n - 1 \in Int /\ n - 1 \in Nat
      BY <1>2
    <2>4. /\ SubSeq(stack, 1, n - 1) \in Seq(Selected)
          /\ Len(SubSeq(stack, 1, n - 1)) =
               IF 1 <= n - 1 THEN (n - 1) - 1 + 1 ELSE 0
          /\ \A i \in 1..((n - 1) - 1 + 1) :
               SubSeq(stack, 1, n - 1)[i] = stack[1 + i - 1]
      BY <2>2, <2>3, SubSeqProperties
    <2> QED
      BY <2>1, <2>3, <2>4
  <1>4. DependsOn \in [Selected -> SUBSET Selected]
    BY DependsOnType DEF IInv, TypeOK
  <1>5. color[Top] = "GRAY"
    BY <1>2 DEF IInv, TypeOK, Top
  <1>6. Black' = Black \cup {Top} /\ Top \notin Black
    BY <1>1, <1>2, <1>5 DEF Black, IInv, TypeOK, Return
  <1>7. DependsOn[Top] \subseteq Black
    BY <1>2, <1>4 DEF Return, Black
  <1>8. TypeOK'
    <2>1. color' \in [Selected -> {"WHITE", "GRAY", "BLACK"}]
      BY DEF IInv, TypeOK, Return
    <2>2. ASSUME NEW u \in Selected
          PROVE  color'[u] = "GRAY" <=> \E i \in 1..Len(stack') : stack'[i] = u
      <3>1. CASE u = Top
        <4>1. color'[u] = "BLACK"
          BY <1>2, <3>1 DEF IInv, TypeOK, Return
        <4>2. \A i \in 1..(n - 1) : stack[i] # u
          BY <1>2, <3>1 DEF IInv, StackIsInjective, Top
        <4> QED
          BY <1>2, <1>3, <4>1, <4>2
      <3>2. CASE u # Top
        <4>1. color'[u] = color[u]
          BY <1>2, <3>2 DEF IInv, TypeOK, Return
        <4>2. \A i \in 1..n : stack[i] = u => i \in 1..(n - 1)
          BY <1>2, <3>2 DEF Top
        <4>3. color[u] = "GRAY" <=> \E i \in 1..n : stack[i] = u
          BY DEF IInv, TypeOK
        <4> QED
          BY <1>2, <1>3, <4>1, <4>2, <4>3
      <3> QED
        BY <3>1, <3>2
    <2> QED
      BY <1>1, <1>3, <2>1, <2>2 DEF IInv, TypeOK, Return
  <1>9. BlackIsClosed'
    BY <1>1, <1>6, <1>7 DEF IInv, BlackIsClosed
  <1>10. BlackHasNoCycle'
    <2> SUFFICES ASSUME NEW T \in (SUBSET (Black \cup {Top})) \ {{}}
                 PROVE  \E s \in T : DependsOn[s] \cap T = {}
      BY <1>1, <1>6 DEF BlackHasNoCycle
    <2>1. CASE T \subseteq {Top}
      BY <1>6, <1>7, <2>1
    <2>2. CASE ~(T \subseteq {Top})
      <3>1. T \ {Top} \in (SUBSET Black) \ {{}}
        BY <2>2
      <3>2. PICK s \in T \ {Top} : DependsOn[s] \cap (T \ {Top}) = {}
        BY <3>1 DEF IInv, BlackHasNoCycle
      <3>3. s \in Black
        BY <3>1
      <3>4. Top \notin DependsOn[s]
        BY <1>6, <3>3 DEF IInv, BlackIsClosed
      <3> QED
        BY <3>2, <3>4
    <2> QED
      BY <2>1, <2>2
  <1>11. StackIsPath' /\ StackIsInjective'
    BY <1>1, <1>2, <1>3 DEF IInv, StackIsPath, StackIsInjective
  <1> QED
    BY <1>1, <1>8, <1>9, <1>10, <1>11
    DEF IInv, Return, AcceptedIsBlack, FallsBackOnlyForCycles,
        FallbackIsAccepted

\* The search starts again with the default dependencies.
LEMMA CycleFoundPreserves ==
  ASSUME IInv, CycleFound
  PROVE  IInv'
  <1>1. Selected' = Selected /\ Proposed' = Proposed /\ plan \in ServicePlan
    BY DEF CycleFound, Selected, Proposed, Only, IInv, TypeOK
  <1>2. ~IsDag(Selected, DependsOn)
    BY GrayClosesCycle DEF IInv, CycleFound
  <1>3. source = "proposed"
    BY <1>1, <1>2, DefaultIsDag DEF DependsOn
  <1>4. ~IsDag(Selected, Proposed)
    BY <1>2, <1>3 DEF DependsOn
  <1>5. color' = [s \in Selected |-> "WHITE"] /\ stack' = << >>
    BY DEF CycleFound, AllWhite
  <1>6. TypeOK'
    BY <1>1, <1>3, <1>5 DEF IInv, TypeOK, CycleFound
  <1>7. Black' = {}
    BY <1>1, <1>5 DEF Black
  <1>8. (BlackIsClosed /\ BlackHasNoCycle)'
    BY <1>7 DEF BlackIsClosed, BlackHasNoCycle
  <1>9. StackIsPath' /\ StackIsInjective'
    BY <1>5 DEF StackIsPath, StackIsInjective
  <1> QED
    BY <1>1, <1>3, <1>4, <1>6, <1>8, <1>9
    DEF IInv, CycleFound, AcceptedIsBlack, FallsBackOnlyForCycles,
        FallbackIsAccepted

LEMMA NextPreservesInvariant == IInv /\ [Next]_vars => IInv'
  <1> SUFFICES ASSUME IInv, [Next]_vars PROVE IInv'
    OBVIOUS
  <1>1. CASE VisitRoot
    BY <1>1, VisitPreserves DEF VisitRoot
  <1>2. CASE VisitDependency
    <2>1. PICK d \in DependsOn[Top] : Visit(d)
      BY <1>2 DEF VisitDependency
    <2>2. Top \in Selected
      BY <1>2 DEF VisitDependency, Top, IInv, TypeOK
    <2>3. d \in Selected
      BY <2>2, DependsOnType DEF IInv, TypeOK
    <2> QED
      BY <2>1, <2>3, VisitPreserves
  <1>3. CASE Return
    BY <1>3, ReturnPreserves
  <1>4. CASE CycleFound
    BY <1>4, CycleFoundPreserves
  <1>5. CASE Accept
    <2>1. /\ Selected' = Selected /\ DependsOn' = DependsOn
          /\ Proposed' = Proposed /\ Black' = Black
      BY <1>5 DEF Accept, Selected, DependsOn, Proposed, Only, Black
    <2>2. TypeOK'
      BY <1>5, <2>1 DEF Accept, IInv, TypeOK
    <2>3. (BlackIsClosed /\ BlackHasNoCycle)'
      BY <2>1 DEF IInv, BlackIsClosed, BlackHasNoCycle
    <2>4. (StackIsPath /\ StackIsInjective)'
      BY <1>5, <2>1 DEF Accept, StackIsPath, StackIsInjective
    <2>5. (AcceptedIsBlack /\ FallsBackOnlyForCycles /\ FallbackIsAccepted)'
      BY <1>5, <2>1
      DEF Accept, IInv, AcceptedIsBlack, FallsBackOnlyForCycles,
          FallbackIsAccepted
    <2> QED
      BY <2>2, <2>3, <2>4, <2>5 DEF IInv
  <1>6. CASE UNCHANGED vars
    <2>1. /\ Selected' = Selected /\ DependsOn' = DependsOn
          /\ Proposed' = Proposed /\ Black' = Black
      BY <1>6 DEF vars, Selected, DependsOn, Proposed, Only, Black
    <2>2. TypeOK'
      BY <1>6, <2>1 DEF vars, IInv, TypeOK
    <2>3. (BlackIsClosed /\ BlackHasNoCycle)'
      BY <2>1 DEF IInv, BlackIsClosed, BlackHasNoCycle
    <2>4. (StackIsPath /\ StackIsInjective)'
      BY <1>6, <2>1 DEF vars, IInv, StackIsPath, StackIsInjective
    <2>5. (AcceptedIsBlack /\ FallsBackOnlyForCycles /\ FallbackIsAccepted)'
      BY <1>6, <2>1
      DEF vars, IInv, AcceptedIsBlack, FallsBackOnlyForCycles,
          FallbackIsAccepted
    <2> QED
      BY <2>2, <2>3, <2>4, <2>5 DEF IInv
  <1> QED
    BY <1>1, <1>2, <1>3, <1>4, <1>5, <1>6 DEF Next

THEOREM PlannerCorrect == Spec => []IInv
  BY InitEstablishesInvariant, NextPreservesInvariant, PTL DEF Spec

----------------------------------------------------------------------------

\* For every catalog and every answer of the LLM: variables keep their types.
THEOREM PlannerTypeCorrect == Spec => []TypeOK
  <1>1. IInv => TypeOK
    BY DEF IInv
  <1> QED
    BY <1>1, PlannerCorrect, PTL

\* For every catalog and every answer of the LLM: the accepted plan is a DAG,
\* which is what the engine assumes of Steps and DependsOn (ValidDag).
THEOREM AcceptedPlansAreDags == Spec => []AcceptedPlanIsDag
  <1>1. IInv => AcceptedPlanIsDag
    <2> SUFFICES ASSUME IInv, outcome = "accepted"
                 PROVE  IsDag(Selected, DependsOn)
      BY DEF AcceptedPlanIsDag
    <2>1. DependsOn \in [Selected -> SUBSET Selected]
      BY DependsOnType DEF IInv, TypeOK
    <2> QED
      BY <2>1 DEF IInv, AcceptedIsBlack, BlackHasNoCycle, IsDag
  <1> QED
    BY <1>1, PlannerCorrect, PTL

\* For every catalog: dependencies without a cycle are never given up.
THEOREM OnlyCyclesFallBack == Spec => []FallsBackOnlyForCycles
  <1>1. IInv => FallsBackOnlyForCycles
    BY DEF IInv
  <1> QED
    BY <1>1, PlannerCorrect, PTL

\* For every catalog whose default dependencies have no cycle: the planner
\* never raises for the plan.
THEOREM FallbackNeverRaises == Spec => []FallbackIsAccepted
  <1>1. IInv => FallbackIsAccepted
    BY DEF IInv
  <1> QED
    BY <1>1, PlannerCorrect, PTL

============================================================================
