----------------------------- MODULE PacerProofs -----------------------------
(***************************************************************************)
(* Proofs about Pacer for every window, every safety margin and every      *)
(* budget, however the clock moves and however the sleeper behaves.        *)
(***************************************************************************)
EXTENDS Pacer, FiniteSetTheorems, WellFoundedInduction, TLAPS

\* A set of ticks that is not empty has a least one: among the sets of the ticks up
\* to t, one has no strict subset.
LEMMA LeastTick ==
  ASSUME NEW S \in SUBSET (0..MaxTime), S # {}
  PROVE  \E t \in S : \A u \in S : t <= u
<1>. DEFINE UpTo(t) == {u \in S : u <= t}
            T == {UpTo(t) : t \in S}
<1>. USE ConstantsAssumption
<1>1. IsFiniteSet(0..MaxTime)
  BY FS_Interval
<1>2. \A t \in S : UpTo(t) \in SUBSET (0..MaxTime)
  OBVIOUS
<1>3. T \subseteq FiniteSubsetsOf(0..MaxTime)
  BY <1>1, <1>2, FS_Subset DEF FiniteSubsetsOf
<1>4. T # {}
  OBVIOUS
<1>5. \E U \in T : \A V \in T : <<V, U>> \notin StrictSubsetOrdering(0..MaxTime)
  <2>. HIDE DEF T
  <2>. QED BY <1>3, <1>4, FS_StrictSubsetOrderingWellFounded, WFMin
<1>6. PICK t \in S : \A u \in S : <<UpTo(u), UpTo(t)>> \notin StrictSubsetOrdering(0..MaxTime)
  BY <1>5
<1>7. ASSUME NEW u \in S, u < t PROVE FALSE
  <2>1. UpTo(u) \subseteq UpTo(t)
    <3>1. u \in Nat /\ t \in Nat /\ \A x \in S : x \in Nat
      OBVIOUS
    <3>2. \A x \in S : x <= u => x <= t
      BY <1>7, <3>1
    <3>. QED BY <3>2
  <2>2. t \in UpTo(t) /\ t \notin UpTo(u)
    BY <1>7
  <2>. QED BY <1>2, <1>6, <2>1, <2>2 DEF StrictSubsetOrdering
<1>. QED BY <1>7

Fresh(es) == {c \in es : clock - c.at < Window}

\* What the window forgets it may forget: every credit of the running minute is
\* retained, no credit is from the future, and the calls are numbered as counted.
IInv ==
  /\ TypeOK
  /\ IsFiniteSet(spent)
  /\ events \subseteq spent
  /\ Fresh(spent) \subseteq events
  /\ WindowHeld
  /\ \A c \in spent : c.at <= clock
  /\ Cardinality(spent) = credits_used
  /\ {c.call : c \in spent} = 0..request_count - 1

\* The credits of one call are as many as it costs.
LEMMA UnitsCount ==
  ASSUME NEW n \in Nat
  PROVE  IsFiniteSet(Units(n)) /\ Cardinality(Units(n)) = n
<1>. DEFINE f == [i \in 1..n |-> [call |-> request_count, unit |-> i, at |-> clock]]
<1>1. f \in Bijection(1..n, Units(n))
  <2>1. \A i \in 1..n : f[i] \in Units(n)
    BY DEF Units
  <2>2. f \in [1..n -> Units(n)]
    BY <2>1
  <2>3. \A i, j \in 1..n : f[i] = f[j] => i = j
    OBVIOUS
  <2>4. \A c \in Units(n) : \E i \in 1..n : f[i] = c
    <3>. TAKE c \in Units(n)
    <3>1. c.unit \in 1..n /\ c = [call |-> request_count, unit |-> c.unit, at |-> clock]
      BY DEF Units
    <3>. QED BY <3>1
  <2>. QED BY <2>2, <2>3, <2>4, Zenon DEF Bijection, Injection, Surjection, IsInjective
<1>2. ExistsBijection(1..n, Units(n))
  BY <1>1 DEF ExistsBijection
<1>3. IsFiniteSet(1..n) /\ Cardinality(1..n) = n
  BY FS_Interval
<1>. QED BY <1>2, <1>3, FS_Bijection

\* Reserving adds credits no earlier call holds.
LEMMA UnitsAdded ==
  ASSUME IInv, NEW n \in Nat, NEW S \in SUBSET spent
  PROVE  /\ IsFiniteSet(S \cup Units(n))
         /\ Cardinality(S \cup Units(n)) = Cardinality(S) + n
<1>1. IsFiniteSet(S)
  BY FS_Subset DEF IInv
<1>2. S \cap Units(n) = {}
  <2>1. \A c \in spent : c.call \in 0..request_count - 1
    BY DEF IInv
  <2>2. \A c \in Units(n) : c.call = request_count
    BY DEF Units
  <2>3. request_count \notin 0..request_count - 1
    BY DEF IInv, TypeOK
  <2>. QED BY <2>1, <2>2, <2>3
<1>3. Cardinality(S \cap Units(n)) = 0
  BY <1>2, FS_EmptySet
<1>4. Cardinality(S) \in Nat
  BY <1>1, FS_CardinalityType
<1>5. IsFiniteSet(Units(n)) /\ Cardinality(Units(n)) = n
  BY UnitsCount
<1>6. /\ IsFiniteSet(S \cup Units(n))
      /\ Cardinality(S \cup Units(n)) =
           Cardinality(S) + Cardinality(Units(n)) - Cardinality(S \cap Units(n))
  BY <1>1, <1>5, FS_Union
<1>. QED BY <1>3, <1>4, <1>5, <1>6

LEMMA RecentIsFresh ==
  IInv => Recent = Fresh(spent) /\ Recent \subseteq events /\ Recent \subseteq spent
          /\ IsFiniteSet(Recent) /\ Cardinality(Recent) \in Nat
<1>. SUFFICES ASSUME IInv PROVE Recent = Fresh(spent) /\ IsFiniteSet(Recent)
  BY FS_CardinalityType DEF IInv, Recent
<1>1. Recent = Fresh(spent)
  BY DEF IInv, Recent, Fresh
<1>. QED BY <1>1, FS_Subset DEF IInv, Fresh

LEMMA InitInv == Init => IInv
<1>. SUFFICES ASSUME Init PROVE IInv
  OBVIOUS
<1>1. TypeOK
  <2>1. 0 \in 0..MaxTime /\ 0 \in 0..StudyCredits /\ 0 \in 0..StudyRequests
        /\ 0 \in 0..WindowCredits
    BY ConstantsAssumption
  <2>. QED BY <2>1 DEF Init, TypeOK
<1>2. {c.call : c \in spent} = {} /\ 0..request_count - 1 = {}
  BY DEF Init
<1>3. Cardinality({}) = 0 /\ IsFiniteSet({})
  BY FS_EmptySet
<1>4. {c \in spent : clock - c.at < Window} = {}
  BY DEF Init
<1>. QED BY <1>1, <1>2, <1>3, <1>4, ConstantsAssumption DEF Init, IInv, Fresh, WindowHeld

\* What holds of the ledger goes on holding while the clock moves and nothing is reserved.
LEMMA LedgerKept ==
  ASSUME IInv, TypeOK', clock' >= clock, UNCHANGED <<credits_used, request_count, spent>>,
         events' \subseteq events, Fresh(spent) \subseteq events'
  PROVE  IInv'
<1>. USE DEF IInv
<1>1. clock \in Int /\ clock' \in Int /\ \A c \in spent : c.at \in Int
  BY DEF TypeOK, Credits
<1>2. Fresh(spent)' \subseteq Fresh(spent)
  BY <1>1, ConstantsAssumption DEF Fresh
<1>3. Fresh(spent)' \subseteq events'
  BY <1>2
<1>4. WindowHeld'
  <2>1. IsFiniteSet(Fresh(spent))
    BY FS_Subset DEF Fresh
  <2>2. Cardinality(Fresh(spent)') <= Cardinality(Fresh(spent))
    BY <1>2, <2>1, FS_Subset
  <2>3. Cardinality(Fresh(spent)') \in Nat /\ Cardinality(Fresh(spent)) \in Nat
    BY <1>2, <2>1, FS_Subset, FS_CardinalityType
  <2>. QED BY <2>2, <2>3, ConstantsAssumption DEF WindowHeld, Fresh
<1>5. \A c \in spent' : c.at <= clock'
  BY <1>1
<1>. QED BY <1>3, <1>4, <1>5

LEMMA OldestTick ==
  ASSUME IInv, Recent # {}
  PROVE  Oldest(Recent) \in 0..MaxTime
<1>. DEFINE S == {e.at : e \in Recent}
<1>1. S \in SUBSET (0..MaxTime) /\ S # {}
  BY RecentIsFresh DEF IInv, TypeOK, Credits
<1>2. \E t \in S : \A u \in S : t <= u
  <2>. HIDE DEF S
  <2>. QED BY <1>1, LeastTick
<1>3. \E t \in S : \A e \in Recent : t <= e.at
  BY <1>2
<1>4. Oldest(Recent) \in S
  BY <1>3 DEF Oldest
<1>. QED BY <1>1, <1>4

LEMMA StepInv == IInv /\ [Next]_vars => IInv'
<1>. SUFFICES ASSUME IInv, [Next]_vars PROVE IInv'
  OBVIOUS
<1>0. TypeOK /\ Fresh(spent) \subseteq events
  BY DEF IInv
<1>. USE ConstantsAssumption
<1>1. CASE Tick
  <2>1. TypeOK'
    BY <1>0, <1>1 DEF Tick, TypeOK, ledger, sleep
  <2>2. clock' >= clock /\ UNCHANGED ledger
    BY <1>0, <1>1 DEF Tick, TypeOK
  <2>. QED BY <1>0, <2>1, <2>2, LedgerKept DEF ledger
<1>2. ASSUME NEW n \in 0..WindowCredits + 1, Call(n) PROVE IInv'
  <2>1. TypeOK'
    <3>1. UNCHANGED <<clock, ledger, sleep>> /\ pc = "idle"
          /\ refused' \subseteq {"cost", "budget", "clock"}
      BY <1>0, <1>2 DEF Call, TypeOK
    <3>2. \/ UNCHANGED <<pc, cost>>
          \/ /\ n \in 1..WindowCredits /\ pc' = "look" /\ cost' = n
             /\ credits_used + n <= StudyCredits
             /\ request_count + 1 <= StudyRequests
      BY <1>2 DEF Call
    <3>3. CASE UNCHANGED <<pc, cost>>
      BY <1>0, <3>1, <3>3 DEF TypeOK, ledger, sleep, Credits
    <3>4. CASE n \in 1..WindowCredits /\ pc' = "look" /\ cost' = n
      BY <1>0, <3>1, <3>2, <3>4 DEF TypeOK, ledger, sleep, Credits
    <3>. QED BY <3>2, <3>3, <3>4
  <2>2. UNCHANGED <<clock, ledger>> /\ clock \in Int
    BY <1>0, <1>2 DEF Call, TypeOK
  <2>. QED BY <1>0, <2>1, <2>2, LedgerKept DEF ledger
<1>3. CASE Reserve
  <2>1. /\ clock' = clock /\ cost \in Nat /\ cost > 0 /\ cost <= WindowCredits
        /\ pc = "look"
        /\ Cardinality(Recent) + cost <= WindowCredits
        /\ events' = Recent \cup Units(cost)
        /\ spent' = spent \cup Units(cost)
        /\ credits_used' = credits_used + cost
        /\ request_count' = request_count + 1
    BY <1>0, <1>3 DEF Reserve, TypeOK
  <2>2. Units(cost) \subseteq Credits
    BY <1>0, <2>1 DEF Units, Credits, TypeOK
  <2>3. TypeOK'
    <3>1. events' \subseteq Credits' /\ spent' \subseteq Credits'
      BY <1>0, <2>1, <2>2, RecentIsFresh DEF TypeOK, Credits, Recent
    <3>2. UNCHANGED <<clock, asked, slept, refused>>
          /\ pc' = "idle" /\ cost' = 0 /\ sleeps' = 0 /\ early' = FALSE
      BY <1>3 DEF Reserve
    <3>3. credits_used' \in 0..StudyCredits /\ request_count' \in 0..StudyRequests
      BY <1>0, <2>1 DEF TypeOK
    <3>4. early' \in BOOLEAN /\ sleeps' \in Nat /\ cost' \in 0..WindowCredits
      <4>1. early' \in BOOLEAN
        BY <3>2, Zenon
      <4>2. sleeps' \in Nat /\ cost' \in 0..WindowCredits
        BY <3>2, ConstantsAssumption
      <4>. QED BY <4>1, <4>2, Zenon
    <3>5. clock' \in 0..MaxTime /\ asked' \in Nat /\ slept' \in 0..MaxTime
          /\ refused' \subseteq {"cost", "budget", "clock"}
      BY <1>0, <3>2 DEF TypeOK
    <3>. QED BY <3>1, <3>2, <3>3, <3>4, <3>5 DEF TypeOK
  <2>4. IsFiniteSet(spent') /\ Cardinality(spent') = credits_used'
    BY <2>1, UnitsAdded DEF IInv
  <2>5. events' \subseteq spent'
    BY <2>1, RecentIsFresh
  <2>6. \A c \in Units(cost) : c.at = clock /\ c.call = request_count
    BY DEF Units
  <2>7. Fresh(spent)' = events'
    <3>1. Fresh(spent)' = Fresh(spent) \cup {c \in Units(cost) : clock - c.at < Window}
      BY <2>1 DEF Fresh
    <3>2. {c \in Units(cost) : clock - c.at < Window} = Units(cost)
      BY <1>0, <2>6 DEF TypeOK
    <3>. QED BY <2>1, <3>1, <3>2, RecentIsFresh
  <2>8. WindowHeld'
    BY <2>1, <2>7, UnitsAdded, RecentIsFresh DEF WindowHeld, Fresh
  <2>9. \A c \in spent' : c.at <= clock'
    BY <1>0, <2>1, <2>6 DEF IInv, TypeOK
  <2>10. {c.call : c \in spent'} = 0..request_count' - 1
    <3>1. Units(cost) # {}
      <4>1. [call |-> request_count, unit |-> 1, at |-> clock] \in Units(cost)
        BY <2>1 DEF Units
      <4>. QED BY <4>1
    <3>2. {c.call : c \in spent'} = {c.call : c \in spent} \cup {request_count}
      BY <2>1, <2>6, <3>1
    <3>3. 0..request_count' - 1 = (0..request_count - 1) \cup {request_count}
      BY <1>0, <2>1 DEF TypeOK
    <3>. QED BY <3>2, <3>3 DEF IInv
  <2>. QED BY <2>3, <2>4, <2>5, <2>7, <2>8, <2>9, <2>10 DEF IInv
<1>4. CASE Wait
  <2>1. Recent # {}
    <3>1. Cardinality(Recent) # 0
      BY <1>0, <1>4, RecentIsFresh DEF Wait, TypeOK
    <3>. QED BY <3>1, FS_EmptySet
  <2>2. asked' \in Nat
    <3>1. Oldest(Recent) \in Int /\ clock \in Int
      BY <1>0, <2>1, OldestTick DEF TypeOK
    <3>. QED BY <1>4, <3>1 DEF Wait
  <2>3. UNCHANGED <<clock, credits_used, request_count, spent>> /\ events' = Recent
    BY <1>4 DEF Wait
  <2>4. TypeOK'
    BY <1>0, <1>4, <2>2, <2>3, RecentIsFresh DEF Wait, TypeOK, Credits
  <2>5. clock' >= clock /\ events' \subseteq events /\ Fresh(spent) \subseteq events'
    BY <1>0, <2>3, RecentIsFresh DEF TypeOK
  <2>. QED BY <2>3, <2>4, <2>5, LedgerKept
<1>5. CASE Wake
  <2>1. TypeOK'
    <3>1. UNCHANGED ledger /\ clock' \in 0..MaxTime /\ asked' = 0 /\ slept' = 0
          /\ pc = "sleep"
      BY <1>0, <1>5 DEF Wake, TypeOK
    <3>2. /\ early' \in BOOLEAN /\ sleeps' \in Nat
          /\ refused' \subseteq {"cost", "budget", "clock"}
      <4>1. sleeps \in Nat /\ refused \subseteq {"cost", "budget", "clock"}
        BY <1>0 DEF TypeOK
      <4>2. CASE clock' > slept
        <5>1. sleeps' = sleeps + 1 /\ refused' = refused
              /\ early' = (early \/ clock' - slept < asked)
          BY <1>5, <4>2 DEF Wake
        <5>2. early' \in BOOLEAN
          BY <5>1, Zenon
        <5>. QED BY <4>1, <5>1, <5>2
      <4>3. CASE ~(clock' > slept)
        <5>1. sleeps' = 0 /\ refused' = refused \cup {"clock"} /\ early' = FALSE
          BY <1>5, <4>3 DEF Wake
        <5>2. early' \in BOOLEAN
          BY <5>1, Zenon
        <5>. QED BY <4>1, <5>1, <5>2
      <4>. QED BY <4>2, <4>3, Zenon
    <3>3. (pc' = "look" /\ cost' = cost) \/ (pc' = "idle" /\ cost' = 0)
      BY <1>5 DEF Wake
    <3>. QED BY <1>0, <3>1, <3>2, <3>3 DEF TypeOK, ledger, Credits
  <2>2. clock' >= clock /\ UNCHANGED ledger
    BY <1>0, <1>5 DEF Wake, TypeOK
  <2>. QED BY <1>0, <2>1, <2>2, LedgerKept DEF ledger
<1>6. CASE UNCHANGED vars
  BY <1>6 DEF vars, IInv, TypeOK, Fresh, WindowHeld, Credits
<1>. QED BY <1>1, <1>2, <1>3, <1>4, <1>5, <1>6 DEF Next

LEMMA Inductive == Spec => []IInv
BY InitInv, StepInv, PTL DEF Spec

\* The pacer's state keeps its shape, and a running call fits both budgets, for every
\* window and budget: before_request charges nothing it did not check.
THEOREM TypeCorrect == Spec => []TypeOK
<1>1. IInv => TypeOK
  BY DEF IInv
<1>. QED BY <1>1, Inductive, PTL

\* At any time the credits reserved within the last window are at most what the window
\* may hold, however calls, clock and sleeper behave.
THEOREM RateIsBounded == Spec => []WindowHeld
<1>1. IInv => WindowHeld
  BY DEF IInv
<1>. QED BY <1>1, Inductive, PTL

\* The credits and requests ever reserved are what the counters say, and within what
\* was approved for the study.
THEOREM BudgetsAreKept == Spec => []BudgetHeld
<1>1. IInv => BudgetHeld
  <2>. SUFFICES ASSUME IInv PROVE BudgetHeld
    OBVIOUS
  <2>1. request_count \in 0..StudyRequests /\ credits_used \in 0..StudyCredits
    BY DEF IInv, TypeOK
  <2>2. Cardinality(0..request_count - 1) = request_count
    BY <2>1, FS_Interval, ConstantsAssumption
  <2>3. {c.call : c \in spent} = 0..request_count - 1 /\ Cardinality(spent) = credits_used
    BY DEF IInv
  <2>4. Cardinality({c.call : c \in spent}) = request_count
    BY <2>2, <2>3, Zenon
  <2>5. credits_used <= StudyCredits /\ request_count <= StudyRequests
    BY <2>1, ConstantsAssumption
  <2>. QED BY <2>3, <2>4, <2>5, Zenon DEF BudgetHeld
<1>. QED BY <1>1, Inductive, PTL

------------------------------------------------------------------------------
\* The calls of some credits are no more than the credits.
Callers(es) == {e.call : e \in es}

LEMMA FewerCalls ==
  ASSUME NEW S, IsFiniteSet(S)
  PROVE  IsFiniteSet(Callers(S)) /\ Cardinality(Callers(S)) <= Cardinality(S)
<1>. DEFINE f == [e \in S |-> e.call]
<1>1. f \in Surjection(S, Callers(S))
  <2>1. f \in [S -> Callers(S)] /\ \A c \in Callers(S) : \E e \in S : f[e] = c
    BY DEF Callers
  <2>. QED BY <2>1, Zenon DEF Surjection
<1>. QED BY <1>1, FS_Surjection

\* A call reserves all its credits at once; a sleep is at least as long as the oldest
\* call of the window needs to leave it.
SInv ==
  /\ IInv
  /\ SleepsAreEnough
  /\ pc = "idle" => sleeps = 0
  /\ pc = "sleep" => /\ slept = clock /\ Recent # {}
                     /\ asked >= Oldest(Recent) + Window - clock
  /\ \A c, d \in spent : c.call = d.call => c.at = d.at

LEMMA InitSleeps == Init => SInv
<1>. SUFFICES ASSUME Init PROVE SInv
  OBVIOUS
<1>1. IInv
  BY InitInv
<1>2. {c.call : c \in Recent} = {} /\ Cardinality({}) = 0
  BY FS_EmptySet DEF Init, Recent
<1>3. SleepsAreEnough
  BY <1>2, ConstantsAssumption DEF Init, SleepsAreEnough
<1>. QED BY <1>1, <1>3 DEF Init, SInv

\* A call that sleeps for the first time finds at most as many calls as credits.
LEMMA CallsFit ==
  IInv => Cardinality(Callers(Recent)) \in Nat /\ Cardinality(Callers(Recent)) <= WindowCredits
<1>. SUFFICES ASSUME IInv
              PROVE  /\ Cardinality(Callers(Recent)) \in Nat
                     /\ Cardinality(Callers(Recent)) <= WindowCredits
  OBVIOUS
<1>1. IsFiniteSet(Recent) /\ Recent = Fresh(spent) /\ Cardinality(Recent) \in Nat
  BY RecentIsFresh
<1>2. Cardinality(Recent) <= WindowCredits
  BY <1>1 DEF IInv, WindowHeld, Fresh
<1>3. /\ Cardinality(Callers(Recent)) <= Cardinality(Recent)
      /\ Cardinality(Callers(Recent)) \in Nat
  BY <1>1, FewerCalls, FS_CardinalityType
<1>. QED BY <1>1, <1>2, <1>3, ConstantsAssumption

\* The oldest tick of the window is that of one of its credits.
LEMMA OldestCredit ==
  ASSUME IInv, Recent # {}
  PROVE  \E e \in Recent : e.at = Oldest(Recent)
<1>. DEFINE S == {e.at : e \in Recent}
<1>1. S \in SUBSET (0..MaxTime) /\ S # {}
  BY RecentIsFresh DEF IInv, TypeOK, Credits
<1>2. \E t \in S : \A u \in S : t <= u
  <2>. HIDE DEF S
  <2>. QED BY <1>1, LeastTick
<1>3. \E t \in S : \A e \in Recent : t <= e.at
  BY <1>2
<1>4. Oldest(Recent) \in S
  BY <1>3 DEF Oldest
<1>. QED BY <1>4

\* After a sleep as long as asked for, one call fewer is in the window.
LEMMA OneCallLeaves ==
  ASSUME SInv, pc = "sleep", UNCHANGED events, clock' \in Nat, clock' >= slept + asked,
         clock' >= clock
  PROVE  /\ Cardinality(Callers(Recent)') \in Nat
         /\ Cardinality(Callers(Recent)') + 1 <= Cardinality(Callers(Recent))
<1>0. IInv /\ TypeOK /\ Recent # {} /\ slept = clock /\ asked >= Oldest(Recent) + Window - clock
  BY DEF SInv, IInv
<1>1. PICK e \in Recent : e.at = Oldest(Recent)
  BY <1>0, OldestCredit
<1>2. /\ clock \in Nat /\ asked \in Nat /\ \A c \in Recent : c.at \in Nat /\ c \in spent
  BY <1>0, RecentIsFresh DEF TypeOK, Credits
<1>3. Recent' \subseteq Recent
  BY <1>0, <1>2, ConstantsAssumption DEF Recent, IInv, TypeOK, Credits
<1>4. e.call \notin Callers(Recent)'
  <2>. SUFFICES ASSUME NEW c \in Recent', c.call = e.call PROVE FALSE
    BY DEF Callers
  <2>1. c.at = e.at
    BY <1>2, <1>3 DEF SInv
  <2>2. clock' - c.at < Window
    BY DEF Recent
  <2>. QED BY <1>0, <1>1, <1>2, <2>1, <2>2, ConstantsAssumption
<1>5. IsFiniteSet(Callers(Recent)) /\ Cardinality(Callers(Recent)) \in Nat
  BY <1>0, RecentIsFresh, FewerCalls, FS_CardinalityType
<1>6. Callers(Recent)' \subseteq Callers(Recent) /\ e.call \in Callers(Recent)
  BY <1>3 DEF Callers
<1>7. /\ Cardinality(Callers(Recent)') <= Cardinality(Callers(Recent))
      /\ Cardinality(Callers(Recent)) # Cardinality(Callers(Recent)')
      /\ Cardinality(Callers(Recent)') \in Nat
  BY <1>4, <1>5, <1>6, FS_Subset, FS_CardinalityType
<1>. QED BY <1>5, <1>7

LEMMA StepSleeps == SInv /\ [Next]_vars => SInv'
<1>. SUFFICES ASSUME SInv, [Next]_vars PROVE SInv'
  OBVIOUS
<1>0. IInv /\ IInv' /\ TypeOK /\ TypeOK'
  BY StepInv DEF SInv, IInv
<1>. USE ConstantsAssumption
<1>1. sleeps' = 0 => SleepsAreEnough'
  <2>1. /\ Cardinality(Callers(Recent)') \in Nat
        /\ Cardinality(Callers(Recent)') <= WindowCredits
    <3>1. (IInv => Cardinality(Callers(Recent)) \in Nat
                    /\ Cardinality(Callers(Recent)) <= WindowCredits)'
      BY CallsFit, PTL
    <3>. QED BY <1>0, <3>1
  <2>. QED BY <2>1 DEF SleepsAreEnough, Callers
<1>2. CASE Tick \/ \E n \in 0..WindowCredits + 1 : Call(n)
  <2>1. UNCHANGED <<spent, sleeps>> /\ sleeps = 0 /\ pc' \in {"idle", "look"}
    BY <1>2 DEF Tick, Call, SInv, sleep, ledger
  <2>. QED BY <1>0, <1>1, <2>1 DEF SInv
<1>3. CASE Reserve
  <2>1. sleeps' = 0 /\ pc' = "idle" /\ spent' = spent \cup Units(cost)
    BY <1>3 DEF Reserve
  <2>2. \A c \in Units(cost) : c.at = clock /\ c.call = request_count
    BY DEF Units
  <2>3. \A c \in spent : c.call # request_count
    <3>1. \A c \in spent : c.call \in 0..request_count - 1
      BY <1>0 DEF IInv
    <3>. QED BY <1>0, <3>1 DEF TypeOK
  <2>4. \A c, d \in spent' : c.call = d.call => c.at = d.at
    BY <2>1, <2>2, <2>3 DEF SInv
  <2>. QED BY <1>0, <1>1, <2>1, <2>4 DEF SInv
<1>4. CASE Wait
  <2>1. /\ UNCHANGED <<clock, spent, sleeps, early>> /\ pc' = "sleep" /\ slept' = clock
        /\ events' = Recent /\ Cardinality(Recent) + cost > WindowCredits
        /\ asked' >= Oldest(Recent) + Window - clock \/ ~(Oldest(Recent) \in Int)
    BY <1>0, <1>4 DEF Wait, TypeOK
  <2>2. Recent' = Recent
    BY <2>1 DEF Recent
  <2>3. Recent # {}
    <3>1. Cardinality(Recent) # 0
      BY <1>0, <2>1, RecentIsFresh DEF TypeOK
    <3>. QED BY <3>1, FS_EmptySet
  <2>4. Oldest(Recent) \in Int
    BY <1>0, <2>3, OldestTick
  <2>5. SleepsAreEnough'
    <3>1. SleepsAreEnough
      BY DEF SInv
    <3>2. {c.call : c \in Recent'} = {c.call : c \in Recent}
      BY <2>2
    <3>. QED BY <2>1, <3>1, <3>2, Zenon DEF SleepsAreEnough
  <2>6. Oldest(Recent)' = Oldest(Recent)
    BY <2>2 DEF Oldest
  <2>7. pc' = "sleep" => /\ slept' = clock' /\ Recent' # {}
                         /\ asked' >= Oldest(Recent)' + Window - clock'
    BY <2>1, <2>2, <2>3, <2>4, <2>6
  <2>. QED BY <1>0, <2>1, <2>5, <2>7 DEF SInv
<1>5. CASE Wake
  <2>1. /\ pc = "sleep" /\ UNCHANGED <<events, spent>> /\ clock' \in Nat /\ clock' >= clock
        /\ slept = clock /\ pc' \in {"look", "idle"}
    <3>1. pc = "sleep" /\ UNCHANGED ledger /\ clock' \in clock .. MaxTime
      BY <1>5 DEF Wake
    <3>2. pc' \in {"look", "idle"}
      BY <1>5 DEF Wake
    <3>3. slept = clock /\ clock \in Nat
      BY <1>0, <3>1 DEF SInv, TypeOK
    <3>. QED BY <3>1, <3>2, <3>3 DEF ledger
  <2>2. \/ pc' = "idle" /\ sleeps' = 0
        \/ /\ pc' = "look" /\ sleeps' = sleeps + 1
           /\ early' = (early \/ clock' - slept < asked)
    BY <1>5 DEF Wake
  <2>3. CASE sleeps' = 0
    BY <1>0, <1>1, <2>1, <2>2, <2>3 DEF SInv, TypeOK
  <2>4. CASE /\ pc' = "look" /\ sleeps' = sleeps + 1
             /\ early' = (early \/ clock' - slept < asked)
    <3>1. ASSUME ~early' PROVE ~early /\ ~(clock' - slept < asked)
      BY <2>4, <3>1, Zenon
    <3>2. ASSUME ~early'
          PROVE  sleeps' + Cardinality(Callers(Recent)') <= WindowCredits
      <4>1. ~(clock' - slept < asked)
        BY <3>1, <3>2, Zenon
      <4>2. clock' >= slept + asked
        <5>1. slept \in Int /\ asked \in Int /\ clock' \in Int
          BY <1>0, <2>1 DEF TypeOK
        <5>2. \A x, y, z \in Int : ~(x - y < z) => x >= y + z
          OBVIOUS
        <5>. QED BY <4>1, <5>1, <5>2, Zenon
      <4>3. /\ Cardinality(Callers(Recent)') \in Nat
            /\ Cardinality(Callers(Recent)') + 1 <= Cardinality(Callers(Recent))
        BY <2>1, <4>2, OneCallLeaves
      <4>4. sleeps + Cardinality(Callers(Recent)) <= WindowCredits
        <5>1. ~early
          BY <3>1, <3>2, Zenon
        <5>. QED BY <5>1, Zenon DEF SInv, SleepsAreEnough, Callers
      <4>5. Cardinality(Callers(Recent)) \in Nat /\ sleeps \in Nat
        BY <1>0, CallsFit DEF TypeOK
      <4>. QED BY <2>4, <4>3, <4>4, <4>5
    <3>3. SleepsAreEnough'
      BY <3>2, Zenon DEF SleepsAreEnough, Callers
    <3>. QED BY <1>0, <2>1, <2>4, <3>3 DEF SInv
  <2>. QED BY <2>2, <2>3, <2>4
<1>6. CASE UNCHANGED vars
  <2>1. UNCHANGED <<pc, sleeps, slept, asked, clock, spent, events>>
    BY <1>6 DEF vars
  <2>2. Recent' = Recent /\ Oldest(Recent)' = Oldest(Recent)
    BY <2>1 DEF Recent, Oldest
  <2>3. SleepsAreEnough'
    <3>1. SleepsAreEnough /\ early' = early /\ sleeps' = sleeps
      BY <1>6 DEF SInv, vars
    <3>2. {c.call : c \in Recent'} = {c.call : c \in Recent}
      BY <2>2
    <3>. QED BY <3>1, <3>2, Zenon DEF SleepsAreEnough
  <2>. QED BY <1>0, <2>1, <2>2, <2>3 DEF SInv
<1>. QED BY <1>2, <1>3, <1>4, <1>5, <1>6 DEF Next

\* With a sleeper that keeps its word, every sleep lets at least one call leave the
\* window: before_request sleeps at most as often as the window has calls.
THEOREM SleepsAreBounded == Spec => []SleepsAreEnough
<1>1. SInv => SleepsAreEnough
  BY DEF SInv
<1>. QED BY <1>1, InitSleeps, StepSleeps, PTL DEF Spec
==============================================================================
