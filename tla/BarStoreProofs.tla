---------------------------- MODULE BarStoreProofs ----------------------------
(***************************************************************************)
(* Proofs about BarStore, and about a query of it (BarReads), for every    *)
(* number of writers, batches, partitions, calls and faults.               *)
(***************************************************************************)
EXTENDS BarReads, FiniteSetTheorems, TLAPS

\* The facts every counter needs.
LEMMA GroupCount ==
  /\ MaxGroups \in Nat
  /\ \A f \in Frames : Len(f.groups) \in 0..MaxGroups
  /\ \A f \in Frames : \A i \in 1..Len(f.groups) : f.groups[i] \in Partitions
<1>1. MaxGroups \in Nat
  BY ConstantsAssumption, FS_CardinalityType DEF MaxGroups
<1>2. ASSUME NEW f \in Frames
      PROVE  /\ Len(f.groups) \in 0..MaxGroups
             /\ \A i \in 1..Len(f.groups) : f.groups[i] \in Partitions
  <2>1. f.groups \in UNION {[1..n -> Partitions] : n \in 0..MaxGroups}
    BY DEF Frames, Groups
  <2>2. PICK n \in 0..MaxGroups : f.groups \in [1..n -> Partitions]
    BY <2>1
  <2>3. Len(f.groups) = n
    BY <1>1, <2>2
  <2>. QED BY <2>2, <2>3
<1>. QED BY <1>1, <1>2

LEMMA NameInNames ==
  \A f \in Frames : \A i \in 1..Len(f.groups) : Name(f, i) \in Names
BY GroupCount DEF Name, Names, Frames

LEMMA NameIndex == \A f, g, i, j : Name(f, i) = Name(g, j) => i = j /\ f.batch = g.batch
BY DEF Name

------------------------------------------------------------------------------
\* What the rest of the state sees of one step of one call: only that call's own
\* local variables change.
Local(w) ==
  /\ pc' = [pc EXCEPT ![w] = pc'[w]]
  /\ frame' = [frame EXCEPT ![w] = frame'[w]]
  /\ id' = [id EXCEPT ![w] = id'[w]]
  /\ unseen' = [unseen EXCEPT ![w] = unseen'[w]]
  /\ staged' = [staged EXCEPT ![w] = staged'[w]]
  /\ linked' = [linked EXCEPT ![w] = linked'[w]]
  /\ undone' = [undone EXCEPT ![w] = undone'[w]]
  /\ unstaged' = [unstaged EXCEPT ![w] = unstaged'[w]]
  /\ outcome' = [outcome EXCEPT ![w] = outcome'[w]]
  /\ before' = [before EXCEPT ![w] = before'[w]]

\* The types of the local variables of one call, after a step.
LocalOK(w) ==
  /\ pc[w] \in {"idle", "preflight", "stage", "rollback", "unstage"}
  /\ frame[w] \in Frames \cup {None}
  /\ id[w] \in 0..MaxCalls
  /\ unseen[w] \in SUBSET Partitions
  /\ staged[w] \in Counts /\ linked[w] \in Counts
  /\ undone[w] \in Counts /\ unstaged[w] \in Counts
  /\ outcome[w] \in Results \cup {"none"}
  /\ before[w] \in SUBSET (Names \X (1..MaxCalls))
  /\ Nested(w)

GlobalOK ==
  /\ parts \in [Names -> 1..MaxCalls \cup {None}]
  /\ temps \subseteq (1..MaxCalls) \X Counts
  /\ answered \subseteq (1..MaxCalls) \X Frames \X Results
  /\ spoiled \subseteq Batches /\ hits \subseteq (1..MaxCalls) \X Kinds
  /\ calls \in 0..MaxCalls /\ faults \in 0..MaxFaults

LEMMA TypeParts == TypeOK => GlobalOK /\ \A w \in Writers : LocalOK(w)
BY DEF TypeOK, GlobalOK, LocalOK

\* It is enough to look at the moving call and at the shared variables.
LEMMA TypeFrame ==
  ASSUME TypeOK, NEW w \in Writers, Local(w), LocalOK(w)', GlobalOK'
  PROVE  TypeOK'
<1>1. ASSUME NEW v \in Writers PROVE Nested(v)'
  <2>1. CASE v = w
    BY <2>1 DEF LocalOK
  <2>2. CASE v # w
    BY <2>2 DEF TypeOK, Local, Nested, Groupings
  <2>. QED BY <2>1, <2>2
<1>2. /\ pc' \in [Writers -> {"idle", "preflight", "stage", "rollback", "unstage"}]
      /\ frame' \in [Writers -> Frames \cup {None}]
      /\ id' \in [Writers -> 0..MaxCalls]
      /\ unseen' \in [Writers -> SUBSET Partitions]
      /\ outcome' \in [Writers -> Results \cup {"none"}]
  BY DEF TypeOK, Local, LocalOK
<1>3. /\ staged' \in [Writers -> Counts] /\ linked' \in [Writers -> Counts]
      /\ undone' \in [Writers -> Counts] /\ unstaged' \in [Writers -> Counts]
      /\ before' \in [Writers -> SUBSET (Names \X (1..MaxCalls))]
  BY DEF TypeOK, Local, LocalOK
<1>. QED BY <1>1, <1>2, <1>3 DEF TypeOK, GlobalOK

\* Every action of a call changes only that call's local variables.
LEMMA StepIsLocal ==
  ASSUME TypeOK, NEW w \in Writers, Begin(w) \/ Progress(w) \/ Fault(w)
  PROVE  Local(w)
<1>. USE DEF TypeOK, Local, arg, hist, Conclude, Goto
<1>1. CASE Begin(w)
  BY <1>1 DEF Begin
<1>2. CASE Preflight(w) \/ CheckTargets(w)
  BY <1>2 DEF Preflight, CheckTargets
<1>3. CASE WriteTemporary(w) \/ Stage(w) \/ Published(w) \/ Unstage(w)
  BY <1>3 DEF WriteTemporary, Stage, Published, Unstage
<1>4. CASE Link(w)
  BY <1>4 DEF Link
<1>5. CASE Rollback(w)
  BY <1>5 DEF Rollback
<1>6. ASSUME NEW r, Finish(w, r) PROVE Local(w)
  BY <1>6 DEF Finish
<1>7. CASE FailStage(w) \/ FailLink(w) \/ FailRollback(w) \/ Interrupt(w)
  BY <1>7 DEF FailStage, FailLink, FailRollback, Interrupt
<1>. QED BY <1>1, <1>2, <1>3, <1>4, <1>5, <1>6, <1>7
       DEF Progress, Fault, Return, FailUnstage, InterruptUnstage, Kill

LEMMA TypeStep == TypeOK /\ [Next]_vars => TypeOK'
<1>. SUFFICES ASSUME TypeOK, [Next]_vars PROVE TypeOK'
  OBVIOUS
<1>. USE ConstantsAssumption, NoneAssumption
<1>0. MaxGroups \in Nat
  BY GroupCount
<1>. USE DEF Results, Counts, Kinds, Groupings, arg, hist, Conclude, Goto
<1>1. ASSUME NEW w \in Writers, Begin(w) \/ Progress(w) \/ Fault(w)
      PROVE  TypeOK'
  <2>. DEFINE Goal == LocalOK(w)' /\ GlobalOK'
  <2>. SUFFICES Goal
    BY <1>1, StepIsLocal, TypeFrame
  <2>0. /\ LocalOK(w) /\ GlobalOK
        /\ pc \in [Writers -> {"idle", "preflight", "stage", "rollback", "unstage"}]
        /\ outcome \in [Writers -> Results \cup {"none"}]
        /\ linked \in [Writers -> Counts] /\ staged \in [Writers -> Counts]
        /\ undone \in [Writers -> Counts] /\ unstaged \in [Writers -> Counts]
    BY TypeParts DEF TypeOK
  <2>00. frame[w] # None => /\ frame[w] \in Frames /\ Groupings(w) \in Counts
                            /\ \A i \in 1..Groupings(w) : Name(frame[w], i) \in Names
    BY <2>0, NameInNames, GroupCount DEF LocalOK
  <2>. USE <1>0
  <2>. USE DEF LocalOK, GlobalOK, Nested
  <2>1. CASE Begin(w)
    <3>1. PICK f \in Frames :
            /\ frame'[w] = f /\ unseen'[w] = Partitions /\ id'[w] = calls + 1
            /\ before'[w] = {<<n, parts[n]>> : n \in Present}
            /\ \/ pc'[w] = "preflight" /\ outcome'[w] = "none"
               \/ pc'[w] = "unstage" /\ outcome'[w] = "rejected"
            /\ calls' = calls + 1 /\ calls < MaxCalls
            /\ UNCHANGED <<parts, temps, answered, spoiled, hits, staged, linked,
                           undone, unstaged, faults>>
      BY <2>1, <2>0 DEF Begin, TypeOK
    <3>2. before'[w] \in SUBSET (Names \X (1..MaxCalls))
      BY <3>1, <2>0 DEF Present
    <3>. QED BY <3>1, <3>2, <2>0, <2>1 DEF Begin
  <2>2. CASE Preflight(w) \/ CheckTargets(w)
    <3>1. /\ pc[w] = "preflight" /\ outcome[w] = "none" /\ unseen'[w] \in SUBSET unseen[w]
          /\ \/ pc'[w] \in {"preflight", "stage"} /\ outcome'[w] = "none"
             \/ pc'[w] = "unstage" /\ outcome'[w] = "exists"
          /\ UNCHANGED <<parts, temps, arg, staged, linked, undone, unstaged, hist,
                         calls, faults>>
      BY <2>2, <2>0 DEF Preflight, CheckTargets, TypeOK
    <3>. QED BY <3>1, <2>0
  <2>3a. CASE WriteTemporary(w)
    <3>1. /\ pc[w] = "stage" /\ staged[w] < Groupings(w)
          /\ temps' = temps \cup {<<id[w], staged[w] + 1>>}
          /\ UNCHANGED <<parts, pc, arg, unseen, staged, linked, undone, unstaged, outcome,
                         hist, calls, faults>>
      BY <2>3a, <2>0 DEF WriteTemporary
    <3>2. id[w] \in 1..MaxCalls /\ staged[w] + 1 \in Counts
      BY <3>1, <2>0, <2>00
    <3>3. temps' \subseteq (1..MaxCalls) \X Counts
      BY <3>1, <3>2, <2>0
    <3>. QED BY <3>1, <3>3, <2>0
  <2>3. CASE Stage(w)
    <3>1. /\ pc[w] = "stage" /\ staged[w] < Groupings(w) /\ staged'[w] = staged[w] + 1
          /\ UNCHANGED <<parts, temps, pc, arg, unseen, linked, undone, unstaged, outcome,
                         hist, calls, faults>>
      BY <2>3, <2>0 DEF Stage
    <3>2. staged'[w] \in Counts /\ staged'[w] <= Groupings(w)
          /\ linked[w] = 0 /\ undone[w] = 0
      BY <3>1, <2>0, <2>00
    <3>. QED BY <3>1, <3>2, <2>0, <2>00
  <2>4. CASE Link(w)
    <3>. DEFINE name == Name(frame[w], linked[w] + 1)
    <3>1. /\ pc[w] = "stage" /\ staged[w] = Groupings(w) /\ linked[w] < Groupings(w)
          /\ \/ /\ parts' = [parts EXCEPT ![name] = id[w]]
                /\ linked'[w] = linked[w] + 1
                /\ UNCHANGED <<pc, outcome>>
             \/ /\ pc'[w] = "rollback" /\ outcome'[w] = "error"
                /\ UNCHANGED <<parts, linked>>
          /\ UNCHANGED <<temps, arg, unseen, staged, undone, unstaged, hist, calls, faults>>
      BY <2>4, <2>0 DEF Link
    <3>2. parts' \in [Names -> 1..MaxCalls \cup {None}]
      BY <3>1, <2>0
    <3>3. linked'[w] \in Counts /\ linked'[w] <= staged[w] /\ undone[w] <= linked'[w]
      BY <3>1, <2>0, <2>00
    <3>. QED BY <3>1, <3>2, <3>3, <2>0, <2>00
  <2>5. CASE Published(w)
    <3>1. /\ pc[w] = "stage" /\ pc'[w] = "unstage" /\ outcome'[w] = "ok"
          /\ UNCHANGED <<parts, temps, arg, unseen, staged, linked, undone, unstaged, hist,
                         calls, faults>>
      BY <2>5, <2>0 DEF Published
    <3>. QED BY <3>1, <2>0
  <2>6. CASE Rollback(w)
    <3>1. /\ pc[w] = "rollback" /\ pc'[w] \in {"rollback", "unstage"}
          /\ \/ /\ undone[w] < linked[w] /\ undone'[w] = undone[w] + 1
                /\ parts' = [parts EXCEPT ![Name(frame[w], undone[w] + 1)] = None]
             \/ UNCHANGED <<parts, undone>>
          /\ UNCHANGED <<temps, arg, unseen, staged, linked, unstaged, outcome, hist,
                         calls, faults>>
      BY <2>6, <2>0 DEF Rollback
    <3>2. parts' \in [Names -> 1..MaxCalls \cup {None}]
      BY <3>1, <2>0
    <3>3. undone'[w] \in Counts /\ undone'[w] <= linked[w]
      BY <3>1, <2>0
    <3>. QED BY <3>1, <3>2, <3>3, <2>0
  <2>6a. CASE Unstage(w)
    <3>1. /\ pc[w] = "unstage" /\ unstaged[w] < staged[w] /\ unstaged'[w] = unstaged[w] + 1
          /\ temps' \subseteq temps
          /\ UNCHANGED <<parts, pc, arg, unseen, staged, linked, undone, outcome,
                         hist, calls, faults>>
      BY <2>6a, <2>0 DEF Unstage
    <3>2. unstaged'[w] \in Counts /\ unstaged'[w] <= staged[w]
      BY <3>1, <2>0
    <3>. QED BY <3>1, <3>2, <2>0
  <2>7. ASSUME NEW r \in Results, Finish(w, r), pc[w] # "idle",
               UNCHANGED <<parts, temps, calls>>, spoiled' \in SUBSET Batches,
               hits' \in SUBSET ((1..MaxCalls) \X Kinds), faults' \in 0..MaxFaults
        PROVE  Goal
    <3>1. id[w] \in 1..MaxCalls /\ frame[w] \in Frames
      BY <2>7, <2>0
    <3>2. /\ pc'[w] = "idle" /\ frame'[w] = None /\ id'[w] = 0 /\ unseen'[w] = {}
          /\ staged'[w] = 0 /\ linked'[w] = 0 /\ undone'[w] = 0 /\ unstaged'[w] = 0
          /\ outcome'[w] = "none" /\ before'[w] = {}
      BY <2>7 DEF Finish, TypeOK
    <3>3. answered' \subseteq (1..MaxCalls) \X Frames \X Results
      BY <2>7, <2>0, <3>1 DEF Finish
    <3>. QED BY <2>7, <2>0, <3>2, <3>3
  <2>8. CASE Return(w)
    <3>1. outcome[w] \in Results /\ pc[w] # "idle"
      BY <2>8, <2>0 DEF Return
    <3>. QED BY <2>7, <2>8, <3>1, <2>0 DEF Return
  <2>9. CASE Fault(w)
    <3>0. calls' = calls /\ faults' \in 0..MaxFaults
      BY <2>9, <2>0 DEF Fault
    <3>1. ASSUME NEW k \in Kinds, Hit(w, k), pc[w] # "idle"
          PROVE  hits' \in SUBSET ((1..MaxCalls) \X Kinds)
      BY <3>1, <2>0 DEF Hit
    <3>2. ASSUME CutShort(w), pc[w] # "idle" PROVE spoiled' \in SUBSET Batches
      <4>1. frame[w].batch \in Batches
        BY <3>2, <2>0 DEF Frames
      <4>. QED BY <3>2, <4>1, <2>0 DEF CutShort
    <3>3. CASE FailStage(w) \/ FailLink(w)
      <4>1. /\ pc[w] = "stage" /\ pc'[w] = "rollback" /\ outcome'[w] = "error"
            /\ UNCHANGED <<parts, temps, arg, unseen, staged, linked, undone, unstaged,
                           answered, spoiled>>
            /\ Hit(w, "write") \/ Hit(w, "link")
        BY <3>3, <2>0 DEF FailStage, FailLink
      <4>2. hits' \in SUBSET ((1..MaxCalls) \X Kinds)
        BY <3>1, <4>1
      <4>. QED BY <4>1, <4>2, <3>0, <2>0
    <3>4. CASE FailRollback(w) \/ Interrupt(w)
      <4>1. /\ pc[w] \in {"preflight", "stage", "rollback"} /\ pc'[w] = "unstage"
            /\ outcome'[w] \in Results
            /\ UNCHANGED <<parts, temps, arg, unseen, staged, linked, undone, unstaged,
                           answered>>
            /\ Hit(w, "rollback") \/ Hit(w, "interrupt")
            /\ CutShort(w)
        BY <3>4, <2>0 DEF FailRollback, Interrupt
      <4>2. hits' \in SUBSET ((1..MaxCalls) \X Kinds) /\ spoiled' \in SUBSET Batches
        BY <3>1, <3>2, <4>1
      <4>. QED BY <4>1, <4>2, <3>0, <2>0
    <3>5. CASE FailUnstage(w) \/ InterruptUnstage(w) \/ Kill(w)
      <4>1. /\ pc[w] # "idle" /\ UNCHANGED <<parts, temps>> /\ CutShort(w)
            /\ Finish(w, "error") \/ Finish(w, "interrupted") \/ Finish(w, "killed")
            /\ Hit(w, "unstage") \/ Hit(w, "kill")
        BY <3>5, <2>0 DEF FailUnstage, InterruptUnstage, Kill
      <4>2. hits' \in SUBSET ((1..MaxCalls) \X Kinds) /\ spoiled' \in SUBSET Batches
        BY <3>1, <3>2, <4>1
      <4>. QED BY <4>1, <4>2, <3>0, <2>7
    <3>. QED BY <2>9, <3>3, <3>4, <3>5 DEF Fault
  <2>. QED
    BY <1>1, <2>1, <2>2, <2>3a, <2>3, <2>4, <2>5, <2>6, <2>6a, <2>8, <2>9 DEF Progress
<1>2. CASE UNCHANGED vars
  <2>1. ASSUME NEW w \in Writers PROVE Nested(w)'
    BY <1>2 DEF vars, TypeOK, Nested
  <2>. QED BY <1>2, <2>1 DEF vars, TypeOK
<1>. QED BY <1>1, <1>2 DEF Next

LEMMA InitTyped == Init => TypeOK
<1>. SUFFICES ASSUME Init PROVE TypeOK
  OBVIOUS
<1>1. 0 \in Counts /\ 0 \in 0..MaxCalls /\ 0 \in 0..MaxFaults
  BY GroupCount, ConstantsAssumption DEF Counts
<1>2. ASSUME NEW w \in Writers PROVE Nested(w)
  BY NoneAssumption DEF Init, Nested
<1>3. GlobalOK
  BY <1>1 DEF Init, GlobalOK
<1>. QED BY <1>1, <1>2, <1>3 DEF Init, TypeOK, GlobalOK

\* Every variable keeps its shape in every reachable state, and the counters of a
\* call stay nested: BarStore's type invariant.
THEOREM TypeCorrect == Spec => []TypeOK
BY InitTyped, TypeStep, PTL DEF Spec

------------------------------------------------------------------------------
(***************************************************************************)
(* Who owns a part.  A call owns what it has linked and not unlinked, a    *)
(* returned append owns its names; no two owners share an id, so a         *)
(* rollback, which touches owned parts only, cannot reach anybody else's.  *)
(***************************************************************************)
Running(w) == frame[w] # None

Holds(w, n) == \E i \in 1..linked[w] : undone[w] < i /\ n = Name(frame[w], i)

Identity ==
  /\ \A w \in Writers : Running(w) => id[w] <= calls
  /\ \A v, w \in Writers : v # w /\ Running(v) /\ Running(w) => id[v] # id[w]
  /\ \A a \in answered : a[1] <= calls /\ \A w \in Writers : Running(w) => id[w] # a[1]

Owned(w) == Running(w) => \A n \in Names : Holds(w, n) => parts[n] = id[w]

Phase(w) ==
  /\ pc[w] = "preflight" => linked[w] = 0
  /\ pc[w] \in {"preflight", "stage"} => undone[w] = 0
  /\ outcome[w] = "ok" => /\ pc[w] = "unstage"
                          /\ linked[w] = Groupings(w) /\ undone[w] = 0
  /\ pc[w] = "unstage" /\ outcome[w] # "ok" /\ frame[w].batch \notin spoiled
       => undone[w] = linked[w]

\* Outside the spoiled batches every part has an owner.
Traced ==
  \A n \in Present : n[1] \notin spoiled =>
    \/ \E w \in Writers : Running(w) /\ Holds(w, n)
    \/ \E a \in answered : a[3] = "ok" /\ n \in NamesOf(a[2])

IInv ==
  /\ TypeOK
  /\ Identity
  /\ \A w \in Writers : Owned(w) /\ Phase(w)
  /\ AppendedStays
  /\ Traced

\* What a step of a call does to the parts and to the bookkeeping of their owners:
\* it starts the call, leaves both alone, links a free name, unlinks a name the call
\* holds, or ends the call.
Starts(w) ==
  /\ ~Running(w) /\ Running(w)'
  /\ id'[w] = calls + 1 /\ calls' = calls + 1
  /\ linked'[w] = 0 /\ undone'[w] = 0
  /\ UNCHANGED <<parts, answered, spoiled>>

Idles(w) ==
  /\ Running(w)
  /\ frame'[w] = frame[w] /\ id'[w] = id[w]
  /\ linked'[w] = linked[w] /\ undone'[w] = undone[w]
  /\ spoiled \subseteq spoiled'
  /\ UNCHANGED <<parts, answered, calls>>

Links(w) ==
  /\ Running(w) /\ linked[w] < Groupings(w)
  /\ parts[Name(frame[w], linked[w] + 1)] = None
  /\ parts' = [parts EXCEPT ![Name(frame[w], linked[w] + 1)] = id[w]]
  /\ frame'[w] = frame[w] /\ id'[w] = id[w]
  /\ linked'[w] = linked[w] + 1 /\ undone[w] = 0 /\ undone'[w] = 0
  /\ UNCHANGED <<answered, calls, spoiled>>

Unlinks(w) ==
  /\ Running(w) /\ undone[w] < linked[w]
  /\ parts' = [parts EXCEPT ![Name(frame[w], undone[w] + 1)] = None]
  /\ frame'[w] = frame[w] /\ id'[w] = id[w]
  /\ linked'[w] = linked[w] /\ undone'[w] = undone[w] + 1
  /\ UNCHANGED <<answered, calls, spoiled>>

Ends(w) ==
  /\ Running(w) /\ ~Running(w)'
  /\ \E r \in Results :
       /\ answered' = answered \cup {<<id[w], frame[w], r>>}
       /\ r = "ok" => linked[w] = Groupings(w) /\ undone[w] = 0
       /\ r # "ok" /\ frame[w].batch \notin spoiled' => undone[w] = linked[w]
  /\ spoiled \subseteq spoiled'
  /\ UNCHANGED <<parts, calls>>

LEMMA StepKind ==
  ASSUME IInv, NEW w \in Writers, Begin(w) \/ Progress(w) \/ Fault(w)
  PROVE  /\ Starts(w) \/ Idles(w) \/ Links(w) \/ Unlinks(w) \/ Ends(w)
         /\ Phase(w)'
<1>. DEFINE Goal == /\ Starts(w) \/ Idles(w) \/ Links(w) \/ Unlinks(w) \/ Ends(w)
                    /\ Phase(w)'
<1>. SUFFICES Goal
  OBVIOUS
<1>0. TypeOK /\ LocalOK(w) /\ Phase(w)
  BY TypeParts DEF IInv
<1>. USE <1>0, NoneAssumption
<1>. USE DEF TypeOK, arg, hist, Conclude, Goto, Running, Phase, LocalOK, Nested, Groupings,
             Counts
<1>1. CASE Begin(w)
  BY <1>1 DEF Begin, Starts
<1>2. CASE WriteTemporary(w) \/ Stage(w) \/ Unstage(w)
  BY <1>2 DEF WriteTemporary, Stage, Unstage, Idles
<1>2a. CASE Preflight(w) \/ CheckTargets(w)
  <2>1. /\ pc[w] = "preflight"
        /\ \/ pc'[w] \in {"preflight", "stage"} /\ outcome'[w] = outcome[w]
           \/ pc'[w] = "unstage" /\ outcome'[w] = "exists"
        /\ UNCHANGED <<parts, temps, arg, staged, linked, undone, unstaged, hist, calls,
                       faults>>
    BY <1>2a DEF Preflight, CheckTargets
  <2>2. linked[w] = 0 /\ undone[w] = 0
    BY <2>1
  <2>3. Idles(w)
    BY <2>1 DEF Idles
  <2>4. Phase(w)'
    BY <2>1, <2>2
  <2>. QED BY <2>3, <2>4
<1>3. CASE Published(w)
  BY <1>3 DEF Published, Idles
<1>4. CASE Link(w)
  BY <1>4 DEF Link, Idles, Links
<1>5. CASE Rollback(w)
  BY <1>5 DEF Rollback, Idles, Unlinks
<1>6. CASE calls' = calls /\ (FailStage(w) \/ FailLink(w) \/ FailRollback(w) \/ Interrupt(w))
  BY <1>6 DEF FailStage, FailLink, FailRollback, Interrupt, CutShort, Idles
<1>7. CASE Return(w)
  BY <1>7 DEF Return, Finish, Ends, Results
<1>8. CASE calls' = calls /\ (FailUnstage(w) \/ InterruptUnstage(w) \/ Kill(w))
  BY <1>8 DEF FailUnstage, InterruptUnstage, Kill, CutShort, Finish, Ends, Results
<1>. QED BY <1>1, <1>2, <1>2a, <1>3, <1>4, <1>5, <1>6, <1>7, <1>8 DEF Progress, Fault

------------------------------------------------------------------------------
\* Steps of one call, as seen by the parts of the others.
LEMMA OthersKept ==
  ASSUME IInv, NEW w \in Writers,
         Starts(w) \/ Idles(w) \/ Links(w) \/ Unlinks(w) \/ Ends(w)
  PROVE  \A n \in Names : parts[n] # None /\ parts[n] # id[w] => parts'[n] = parts[n]
<1>0. TypeOK /\ Owned(w) /\ LocalOK(w)
  BY TypeParts DEF IInv
<1>1. CASE Starts(w) \/ Idles(w) \/ Ends(w)
  BY <1>1 DEF Starts, Idles, Ends
<1>2. CASE Links(w)
  BY <1>2, <1>0 DEF Links, TypeOK
<1>3. CASE Unlinks(w)
  <2>1. frame[w] \in Frames /\ undone[w] + 1 \in 1..linked[w] /\ linked[w] <= Groupings(w)
        /\ linked[w] \in Nat /\ undone[w] \in Nat /\ Groupings(w) \in Nat
    BY <1>3, <1>0, GroupCount
    DEF Unlinks, Running, LocalOK, Nested, Counts, Groupings
  <2>2. undone[w] + 1 \in 1..Groupings(w)
    BY <2>1
  <2>3. Name(frame[w], undone[w] + 1) \in Names
    BY <2>1, <2>2, NameInNames DEF Groupings
  <2>4. Holds(w, Name(frame[w], undone[w] + 1))
    BY <2>1 DEF Holds
  <2>5. parts[Name(frame[w], undone[w] + 1)] = id[w]
    BY <2>3, <2>4, <1>0, <1>3 DEF Owned, Unlinks
  <2>. QED BY <2>5, <1>0, <1>3 DEF Unlinks, TypeOK
<1>. QED BY <1>1, <1>2, <1>3

\* The moving call keeps owning what it holds.
LEMMA OwnedKept ==
  ASSUME IInv, NEW w \in Writers,
         Starts(w) \/ Idles(w) \/ Links(w) \/ Unlinks(w) \/ Ends(w)
  PROVE  Owned(w)'
<1>0. TypeOK /\ Owned(w) /\ LocalOK(w) /\ linked[w] \in Nat /\ undone[w] \in Nat
  BY TypeParts, GroupCount DEF IInv, LocalOK, Counts
<1>1. CASE Starts(w)
  BY <1>1 DEF Starts, Owned, Holds
<1>2. CASE Idles(w)
  BY <1>2, <1>0 DEF Idles, Owned, Holds, Running
<1>3. CASE Ends(w)
  BY <1>3 DEF Ends, Owned
<1>4. CASE Links(w)
  <2>1. SUFFICES ASSUME NEW n \in Names, NEW i \in 1..linked'[w],
                        n = Name(frame[w], i)
                 PROVE  parts'[n] = id[w]
    BY <1>4 DEF Owned, Holds, Links
  <2>2. CASE i = linked[w] + 1
    BY <2>1, <2>2, <1>4, <1>0 DEF Links, TypeOK
  <2>3. CASE i # linked[w] + 1
    <3>1. i \in 1..linked[w] /\ undone[w] < i
      BY <2>3, <1>4, <1>0 DEF Links
    <3>2. parts[n] = id[w]
      BY <3>1, <2>1, <1>0, <1>4 DEF Owned, Holds, Links
    <3>3. n # Name(frame[w], linked[w] + 1)
      BY <2>1, <2>3, NameIndex
    <3>. QED BY <3>2, <3>3, <1>4, <1>0 DEF Links, TypeOK
  <2>. QED BY <2>2, <2>3
<1>5. CASE Unlinks(w)
  <2>1. SUFFICES ASSUME NEW n \in Names, NEW i \in 1..linked[w], undone[w] + 1 < i,
                        n = Name(frame[w], i)
                 PROVE  parts'[n] = id[w]
    BY <1>5 DEF Owned, Holds, Unlinks
  <2>2. n # Name(frame[w], undone[w] + 1)
    BY <2>1, <1>0, NameIndex
  <2>3. parts[n] = id[w]
    BY <2>1, <1>0, <1>5 DEF Owned, Holds, Unlinks
  <2>. QED BY <2>2, <2>3, <1>5, <1>0 DEF Unlinks, TypeOK
<1>. QED BY <1>1, <1>2, <1>3, <1>4, <1>5

\* The other calls are where they were.
LEMMA OthersLocal ==
  ASSUME TypeOK, NEW w \in Writers, Local(w), NEW v \in Writers, v # w
  PROVE  /\ frame'[v] = frame[v] /\ id'[v] = id[v] /\ pc'[v] = pc[v]
         /\ linked'[v] = linked[v] /\ undone'[v] = undone[v] /\ outcome'[v] = outcome[v]
         /\ Running(v)' = Running(v)
         /\ \A n : Holds(v, n)' = Holds(v, n)
<1>1. /\ frame'[v] = frame[v] /\ id'[v] = id[v] /\ pc'[v] = pc[v]
      /\ linked'[v] = linked[v] /\ undone'[v] = undone[v] /\ outcome'[v] = outcome[v]
  BY DEF Local, TypeOK
<1>. QED BY <1>1 DEF Running, Holds

\* A call that has linked everything holds exactly the names of its frame.
LEMMA HoldsAll ==
  ASSUME NEW w \in Writers, linked[w] = Groupings(w), undone[w] = 0,
         Groupings(w) \in Nat
  PROVE  \A n : n \in NamesOf(frame[w]) <=> Holds(w, n)
BY DEF NamesOf, Holds, Groupings

LEMMA IdentityKept ==
  ASSUME IInv, TypeOK', NEW w \in Writers, Local(w),
         Starts(w) \/ Idles(w) \/ Links(w) \/ Unlinks(w) \/ Ends(w)
  PROVE  Identity'
<1>0. TypeOK /\ Identity /\ calls \in Nat /\ \A v \in Writers : id[v] \in Nat
  BY ConstantsAssumption DEF IInv, TypeOK
<1>1. /\ calls' \in Nat /\ calls <= calls'
      /\ Running(w)' /\ Running(w) => id'[w] = id[w]
      /\ Running(w)' => answered' = answered
      /\ answered' = answered \/ \E r \in Results : answered' = answered \cup {<<id[w], frame[w], r>>}
      /\ answered' # answered => Running(w) /\ ~Running(w)'
      /\ Running(w)' /\ ~Running(w) => id'[w] = calls + 1 /\ calls' = calls + 1
    BY <1>0 DEF Starts, Idles, Links, Unlinks, Ends, Running
<1>2. ASSUME NEW v \in Writers, Running(v)' PROVE id'[v] <= calls'
  BY <1>0, <1>1, <1>2, OthersLocal DEF Identity
<1>3. ASSUME NEW v \in Writers, v # w, Running(v)', Running(w)' PROVE id'[v] # id'[w]
  BY <1>0, <1>1, <1>3, OthersLocal DEF Identity
<1>4. ASSUME NEW v \in Writers, NEW u \in Writers, u # v, Running(v)', Running(u)'
      PROVE  id'[v] # id'[u]
  <2>1. CASE u = w \/ v = w
    BY <1>3, <1>4, <2>1
  <2>2. CASE u # w /\ v # w
    BY <1>0, <1>4, <2>2, OthersLocal DEF Identity
  <2>. QED BY <2>1, <2>2
<1>5. ASSUME NEW a \in answered
      PROVE  a[1] <= calls' /\ \A v \in Writers : Running(v)' => id'[v] # a[1]
  <2>1. a[1] <= calls /\ a[1] \in Nat
    BY <1>0 DEF Identity, TypeOK
  <2>2. ASSUME NEW v \in Writers, Running(v)' PROVE id'[v] # a[1]
    <3>1. CASE v # w
      BY <3>1, <2>2, <1>0, OthersLocal DEF Identity
    <3>2. CASE v = w
      BY <3>2, <2>1, <2>2, <1>0, <1>1 DEF Identity
    <3>. QED BY <3>1, <3>2
  <2>. QED BY <2>1, <2>2, <1>0, <1>1
<1>6. ASSUME NEW a \in answered', a \notin answered
      PROVE  a[1] <= calls' /\ \A v \in Writers : Running(v)' => id'[v] # a[1]
  <2>1. a[1] = id[w] /\ Running(w) /\ ~Running(w)'
    BY <1>1, <1>6
  <2>. QED BY <2>1, <1>0, <1>1, OthersLocal DEF Identity
<1>. QED BY <1>2, <1>4, <1>5, <1>6 DEF Identity

LEMMA OwnedOthers ==
  ASSUME IInv, NEW w \in Writers, Local(w),
         Starts(w) \/ Idles(w) \/ Links(w) \/ Unlinks(w) \/ Ends(w),
         NEW v \in Writers, v # w
  PROVE  Owned(v)' /\ Phase(v)'
<1>0. TypeOK /\ Identity /\ Owned(v) /\ Phase(v)
  BY DEF IInv
<1>1. ASSUME Running(v), NEW n \in Names, Holds(v, n) PROVE parts'[n] = id[v]
  <2>1. parts[n] = id[v]
    BY <1>0, <1>1 DEF Owned
  <2>2. id[v] # None
    BY <1>0, NoneAssumption, ConstantsAssumption DEF TypeOK
  <2>3. CASE Running(w)
    BY <2>1, <2>2, <2>3, <1>0, <1>1, OthersKept DEF Identity
  <2>4. CASE ~Running(w)
    BY <2>1, <2>4 DEF Starts, Idles, Links, Unlinks, Ends
  <2>. QED BY <2>3, <2>4
<1>2. spoiled \subseteq spoiled'
  BY DEF Starts, Idles, Links, Unlinks, Ends
<1>. QED BY <1>0, <1>1, <1>2, OthersLocal DEF Owned, Phase, Groupings

LEMMA AppendedKept ==
  ASSUME IInv, NEW w \in Writers,
         Starts(w) \/ Idles(w) \/ Links(w) \/ Unlinks(w) \/ Ends(w)
  PROVE  AppendedStays'
<1>0. TypeOK /\ Identity /\ Owned(w) /\ AppendedStays /\ LocalOK(w)
  BY TypeParts DEF IInv
<1>1. ASSUME NEW a \in answered, a[3] = "ok", NEW n \in NamesOf(a[2])
      PROVE  parts'[n] = a[1]
  <2>1. parts[n] = a[1] /\ a[1] \in Nat /\ a[2] \in Frames
    BY <1>0, <1>1 DEF AppendedStays, TypeOK
  <2>2. n \in Names
    BY <1>1, <2>1, NameInNames DEF NamesOf
  <2>3. a[1] # None
    BY <2>1, NoneAssumption
  <2>4. CASE Running(w)
    BY <2>1, <2>2, <2>3, <2>4, <1>0, OthersKept DEF Identity
  <2>5. CASE ~Running(w)
    BY <2>1, <2>5 DEF Starts, Idles, Links, Unlinks, Ends
  <2>. QED BY <2>4, <2>5
<1>2. ASSUME NEW a \in answered', a \notin answered, a[3] = "ok", NEW n \in NamesOf(a[2])
      PROVE  parts'[n] = a[1]
  <2>1. Ends(w)
    BY <1>2 DEF Starts, Idles, Links, Unlinks, Ends
  <2>2. /\ a[1] = id[w] /\ a[2] = frame[w] /\ linked[w] = Groupings(w) /\ undone[w] = 0
        /\ parts' = parts /\ Running(w)
    BY <1>2, <2>1 DEF Ends
  <2>3. frame[w] \in Frames /\ Groupings(w) \in Nat
    BY <1>0, <2>2, GroupCount DEF LocalOK, Running, Groupings
  <2>4. n \in Names
    BY <1>2, <2>2, <2>3, NameInNames DEF NamesOf
  <2>5. Holds(w, n)
    BY <1>2, <2>2, <2>3, HoldsAll
  <2>. QED BY <2>2, <2>4, <2>5, <1>0 DEF Owned
<1>. QED BY <1>1, <1>2 DEF AppendedStays

LEMMA TracedKept ==
  ASSUME IInv, NEW w \in Writers, Local(w),
         Starts(w) \/ Idles(w) \/ Links(w) \/ Unlinks(w) \/ Ends(w)
  PROVE  Traced'
<1>0. TypeOK /\ Traced /\ LocalOK(w) /\ linked[w] \in Nat /\ undone[w] \in Nat
  BY TypeParts DEF IInv, LocalOK, Counts
<1>1. spoiled \subseteq spoiled' /\ answered \subseteq answered'
  BY DEF Starts, Idles, Links, Unlinks, Ends
<1>. DEFINE Owner(n) ==
       \/ \E v \in Writers : Running(v) /\ Holds(v, n)
       \/ \E a \in answered : a[3] = "ok" /\ n \in NamesOf(a[2])
<1>. SUFFICES ASSUME NEW n \in Names, parts'[n] # None, n[1] \notin spoiled'
              PROVE  Owner(n)'
  BY DEF Traced, Present
<1>2. CASE Links(w) /\ n = Name(frame[w], linked[w] + 1)
  <2>1. linked[w] + 1 \in 1..linked'[w] /\ undone'[w] < linked[w] + 1
        /\ frame'[w] = frame[w]
    BY <1>2, <1>0 DEF Links
  <2>2. Holds(w, n)' /\ Running(w)'
    BY <2>1, <1>2 DEF Holds, Links, Running
  <2>. QED BY <2>2
<1>3. CASE ~(Links(w) /\ n = Name(frame[w], linked[w] + 1))
  <2>1. parts[n] # None
    BY <1>3, <1>0 DEF Starts, Idles, Links, Unlinks, Ends, TypeOK
  <2>2. Owner(n)
    BY <2>1, <1>0, <1>1 DEF Traced, Present
  <2>3. CASE \E a \in answered : a[3] = "ok" /\ n \in NamesOf(a[2])
    BY <2>3, <1>1
  <2>4. CASE \E v \in Writers : v # w /\ Running(v) /\ Holds(v, n)
    BY <2>4, <1>0, OthersLocal
  <2>5. CASE Running(w) /\ Holds(w, n)
    <3>1. PICK i \in 1..linked[w] : undone[w] < i /\ n = Name(frame[w], i)
      BY <2>5 DEF Holds
    <3>2. CASE Idles(w)
      BY <3>1, <3>2 DEF Idles, Holds, Running
    <3>3. CASE Links(w)
      <4>1. i \in 1..linked'[w] /\ undone'[w] < i
        BY <3>1, <3>3, <1>0 DEF Links
      <4>. QED BY <4>1, <3>1, <3>3 DEF Links, Holds, Running
    <3>4. CASE Unlinks(w)
      <4>1. i # undone[w] + 1
        BY <3>1, <3>4, <1>0, <2>1 DEF Unlinks, TypeOK
      <4>2. i \in 1..linked'[w] /\ undone'[w] < i
        BY <3>1, <3>4, <4>1, <1>0 DEF Unlinks
      <4>. QED BY <4>2, <3>1, <3>4 DEF Unlinks, Holds, Running
    <3>5. CASE Ends(w)
      <4>1. frame[w] \in Frames /\ Groupings(w) \in Nat /\ n[1] = frame[w].batch
        BY <3>1, <3>5, <1>0, GroupCount DEF Ends, Running, LocalOK, Groupings, Name
      <4>2. PICK r \in Results :
              /\ answered' = answered \cup {<<id[w], frame[w], r>>}
              /\ r = "ok" => linked[w] = Groupings(w) /\ undone[w] = 0
              /\ r # "ok" /\ frame[w].batch \notin spoiled' => undone[w] = linked[w]
        BY <3>5 DEF Ends
      <4>3. r = "ok"
        BY <4>1, <4>2, <3>1, <1>0
      <4>4. n \in NamesOf(frame[w])
        BY <4>1, <4>2, <4>3, <2>5, HoldsAll
      <4>5. <<id[w], frame[w], r>> \in answered'
        BY <4>2
      <4>. QED BY <4>3, <4>4, <4>5
    <3>6. CASE Starts(w)
      BY <3>6, <2>5 DEF Starts
    <3>. QED BY <3>2, <3>3, <3>4, <3>5, <3>6
  <2>. QED BY <2>2, <2>3, <2>4, <2>5
<1>. QED BY <1>2, <1>3

LEMMA IInvStep == IInv /\ [Next]_vars => IInv'
<1>. SUFFICES ASSUME IInv, [Next]_vars PROVE IInv'
  OBVIOUS
<1>0. TypeOK /\ TypeOK'
  BY TypeStep DEF IInv
<1>1. ASSUME NEW w \in Writers, Begin(w) \/ Progress(w) \/ Fault(w) PROVE IInv'
  <2>1. Local(w)
    BY <1>0, <1>1, StepIsLocal
  <2>2. /\ Starts(w) \/ Idles(w) \/ Links(w) \/ Unlinks(w) \/ Ends(w)
        /\ Phase(w)'
    BY <1>1, StepKind
  <2>3. Identity'
    BY <1>0, <2>1, <2>2, IdentityKept
  <2>4. \A v \in Writers : Owned(v)' /\ Phase(v)'
    BY <2>1, <2>2, OwnedKept, OwnedOthers
  <2>5. AppendedStays' /\ Traced'
    BY <2>1, <2>2, AppendedKept, TracedKept
  <2>. QED BY <1>0, <2>3, <2>4, <2>5 DEF IInv
<1>2. CASE UNCHANGED vars
  BY <1>0, <1>2
  DEF vars, IInv, Identity, Owned, Phase, Holds, Running, Groupings, AppendedStays, Traced, Present
<1>. QED BY <1>1, <1>2 DEF Next

LEMMA IInvInit == Init => IInv
<1>1. Init => TypeOK
  BY InitTyped
<1>2. Init => Identity /\ AppendedStays /\ Traced
  BY DEF Init, Identity, AppendedStays, Traced, Present, Running
<1>3. Init => \A w \in Writers : Owned(w) /\ Phase(w)
  BY DEF Init, Owned, Phase, Running
<1>. QED BY <1>1, <1>2, <1>3 DEF IInv

\* A batch that append() returned for stays readable, whatever the other calls,
\* their rollbacks, kills and file errors do.
THEOREM AppendsStay == Spec => []AppendedStays
<1>1. IInv => AppendedStays
  BY DEF IInv
<1>. QED BY <1>1, IInvInit, IInvStep, PTL DEF Spec

\* With no call for the batch running and no crash behind it, a batch's parts are
\* exactly those of the appends that returned for it.
THEOREM AppendsAreAtomic == Spec => []AllOrNothing
<1>1. IInv => AllOrNothing
  <2>. SUFFICES ASSUME IInv, NEW b \in Batches \ spoiled,
                       \A w \in Writers : frame[w] # None => frame[w].batch # b
                PROVE  PartsOf(b) = UNION {NamesOf(a[2]) : a \in {c \in answered : c[3] = "ok" /\ c[2].batch = b}}
    BY DEF AllOrNothing
  <2>. DEFINE Done == {c \in answered : c[3] = "ok" /\ c[2].batch = b}
  <2>0. TypeOK /\ AppendedStays /\ Traced
    BY DEF IInv
  <2>1. ASSUME NEW n \in PartsOf(b) PROVE \E a \in Done : n \in NamesOf(a[2])
    <3>1. n \in Present /\ n[1] = b
      BY DEF PartsOf
    <3>2. ~ \E w \in Writers : Running(w) /\ Holds(w, n)
      BY <3>1 DEF Running, Holds, Name
    <3>3. PICK a \in answered : a[3] = "ok" /\ n \in NamesOf(a[2])
      BY <3>1, <3>2, <2>0 DEF Traced
    <3>4. a[2].batch = b
      BY <3>1, <3>3 DEF NamesOf, Name
    <3>. QED BY <3>3, <3>4
  <2>2. ASSUME NEW a \in Done, NEW n \in NamesOf(a[2]) PROVE n \in PartsOf(b)
    <3>1. parts[n] = a[1] /\ a[2] \in Frames /\ a[1] \in Nat
      BY <2>0 DEF AppendedStays, TypeOK
    <3>2. n \in Names /\ n[1] = b
      BY <3>1, NameInNames DEF NamesOf, Name
    <3>3. parts[n] # None
      BY <3>1, NoneAssumption
    <3>. QED BY <3>2, <3>3 DEF PartsOf, Present
  <2>. QED BY <2>1, <2>2
<1>. QED BY <1>1, IInvInit, IInvStep, PTL DEF Spec
------------------------------------------------------------------------------
(***************************************************************************)
(* What a call saw before it began.  Each call links a name once, so a     *)
(* part that was there when some call began and is gone never comes back;  *)
(* the preflight of that call, which visits every partition before the     *)
(* first link, finds each older part of its batch or a name without one.   *)
(***************************************************************************)
LinkedBy(v, n) == \E i \in 1..linked[v] : n = Name(frame[v], i)

Numbered == \A n \in Present : parts[n] <= calls
OwnLinks ==
  \A v \in Writers : Running(v) =>
    \A n \in Names : parts[n] = id[v] => LinkedBy(v, n)
Older(w) ==
  \A q \in before[w] :
    /\ q[2] <= calls
    /\ \A v \in Writers : Running(v) /\ id[v] = q[2] => LinkedBy(v, q[1])
Cleared(w) ==
  /\ pc[w] = "stage" => unseen[w] = {}
  /\ pc[w] \in {"preflight", "stage"} =>
       \A q \in before[w] :
         q[1][1] = frame[w].batch /\ q[1][2] \notin unseen[w] => parts[q[1]] # q[2]

OInv == IInv /\ Numbered /\ OwnLinks /\ \A w \in Writers : Older(w) /\ Cleared(w)

\* What a step does to the search of its call.
Looks(w) ==
  \/ /\ ~Running(w) /\ Running(w)'
     /\ before'[w] = {<<n, parts[n]>> : n \in Present}
     /\ unseen'[w] = Partitions /\ pc'[w] \in {"preflight", "unstage"}
     /\ parts' = parts
  \/ /\ Running(w) /\ before'[w] = {} /\ pc'[w] = "idle"
  \/ /\ Running(w) /\ before'[w] = before[w] /\ frame'[w] = frame[w]
     /\ \/ pc'[w] \notin {"preflight", "stage"}
        \/ /\ pc[w] \in {"preflight", "stage"} /\ unseen'[w] = unseen[w]
           /\ pc'[w] = "stage" => pc[w] = "stage" \/ unseen[w] = {}
        \/ /\ pc[w] = "preflight" /\ pc'[w] = "preflight" /\ parts' = parts
           /\ \E p \in unseen[w] : /\ unseen'[w] = unseen[w] \ {p}
                                   /\ \A n \in PartsOf(frame[w].batch) : n[2] # p

LEMMA StepLooks ==
  ASSUME IInv, NEW w \in Writers, Begin(w) \/ Progress(w) \/ Fault(w)
  PROVE  /\ Looks(w)
         /\ linked'[w] > linked[w] => pc[w] = "stage"
<1>. DEFINE Goal == Looks(w) /\ (linked'[w] > linked[w] => pc[w] = "stage")
<1>. SUFFICES Goal
  OBVIOUS
<1>0. TypeOK /\ LocalOK(w) /\ MaxGroups \in Nat
  BY TypeParts, GroupCount DEF IInv
<1>. USE <1>0, NoneAssumption
<1>. USE DEF TypeOK, arg, hist, Conclude, Goto, Running, LocalOK, Nested, Groupings, Counts, Looks
<1>1. CASE Begin(w)
  BY <1>1 DEF Begin
<1>2. CASE Preflight(w)
  <2>1. PICK p \in unseen[w] :
          /\ unseen'[w] = unseen[w] \ {p}
          /\ \/ pc'[w] = "unstage"
             \/ /\ ~\E n \in PartsOf(frame[w].batch) : n[2] = p
                /\ pc'[w] = pc[w]
    BY <1>2 DEF Preflight
  <2>2. /\ pc[w] = "preflight" /\ before'[w] = before[w] /\ frame'[w] = frame[w]
        /\ linked'[w] = linked[w] /\ linked[w] \in Nat /\ parts' = parts
    BY <1>2 DEF Preflight
  <2>3. Running(w)
    BY <2>2
  <2>. HIDE <1>0 DEF TypeOK, LocalOK, Nested, Groupings, Counts, Running, Looks
  <2>4. CASE pc'[w] = "unstage"
    BY <2>2, <2>3, <2>4 DEF Looks
  <2>5. CASE pc'[w] = pc[w] /\ ~\E n \in PartsOf(frame[w].batch) : n[2] = p
    <3>1. \A n \in PartsOf(frame[w].batch) : n[2] # p
      BY <2>5
    <3>2. \E q \in unseen[w] : /\ unseen'[w] = unseen[w] \ {q}
                              /\ \A n \in PartsOf(frame[w].batch) : n[2] # q
      BY <2>1, <3>1
    <3>. QED BY <2>2, <2>3, <2>5, <3>2 DEF Looks
  <2>. QED BY <2>1, <2>4, <2>5
<1>3. CASE CheckTargets(w)
  BY <1>3 DEF CheckTargets
<1>4. CASE WriteTemporary(w) \/ Stage(w) \/ Published(w) \/ Unstage(w)
  BY <1>4 DEF WriteTemporary, Stage, Published, Unstage
<1>5. CASE Link(w)
  BY <1>5 DEF Link
<1>6. CASE Rollback(w)
  BY <1>6 DEF Rollback
<1>7. CASE Return(w)
  BY <1>7 DEF Return, Finish
<1>8. CASE FailStage(w) \/ FailLink(w) \/ FailRollback(w) \/ Interrupt(w)
  BY <1>8 DEF FailStage, FailLink, FailRollback, Interrupt
<1>9. CASE FailUnstage(w) \/ InterruptUnstage(w) \/ Kill(w)
  <2>1. /\ before'[w] = {} /\ pc'[w] = "idle" /\ linked'[w] = 0 /\ pc[w] # "idle"
    BY <1>9 DEF FailUnstage, InterruptUnstage, Kill, Finish
  <2>2. linked[w] \in Nat
    BY <1>0
  <2>. QED BY <2>1, <2>2
<1>. QED BY <1>1, <1>2, <1>3, <1>4, <1>5, <1>6, <1>7, <1>8, <1>9 DEF Progress, Fault

LEMMA OInvStep == OInv /\ [Next]_vars => OInv'
<1>. SUFFICES ASSUME OInv, [Next]_vars PROVE OInv'
  OBVIOUS
<1>0. IInv /\ IInv' /\ TypeOK /\ TypeOK' /\ Identity /\ Numbered /\ OwnLinks
  BY IInvStep DEF OInv, IInv
<1>1. ASSUME NEW w \in Writers, Begin(w) \/ Progress(w) \/ Fault(w) PROVE OInv'
  <2>1. Local(w)
    BY <1>0, <1>1, StepIsLocal
  <2>2. Starts(w) \/ Idles(w) \/ Links(w) \/ Unlinks(w) \/ Ends(w)
    BY <1>0, <1>1, StepKind
  <2>3. Looks(w)
    BY <1>0, <1>1, StepLooks
  <2>4. /\ calls \in Nat /\ calls' \in Nat /\ calls <= calls'
        /\ \A v \in Writers : id[v] \in Nat /\ id[v] # None
    BY <1>0, <2>2, ConstantsAssumption, NoneAssumption
    DEF TypeOK, Starts, Idles, Links, Unlinks, Ends
  <2>5. ASSUME NEW v \in Writers, Running(v)'
        PROVE  \/ v = w /\ Starts(w) /\ id'[v] = calls + 1
               \/ /\ Running(v) /\ id'[v] = id[v] /\ frame'[v] = frame[v]
                  /\ linked[v] \in Nat /\ linked'[v] \in Nat /\ linked[v] <= linked'[v]
    <3>1. linked[v] \in Nat /\ linked'[v] \in Nat
      BY <1>0, GroupCount DEF TypeOK, Counts
    <3>2. CASE v # w
      BY <1>0, <2>1, <2>5, <3>1, <3>2, OthersLocal
    <3>3. CASE v = w
      BY <2>2, <2>5, <3>1, <3>3 DEF Starts, Idles, Links, Unlinks, Ends
    <3>. QED BY <3>2, <3>3
  <2>6. ASSUME NEW v \in Writers, Running(v)', Running(v), NEW n, LinkedBy(v, n)
        PROVE  LinkedBy(v, n)'
    BY <2>5, <2>6 DEF LinkedBy, Starts
  <2>7. ASSUME NEW n \in Names, parts'[n] # parts[n]
        PROVE  \/ /\ Links(w) /\ n = Name(frame[w], linked[w] + 1) /\ parts'[n] = id[w]
               \/ parts'[n] = None
    BY <1>0, <2>2, <2>7 DEF Starts, Idles, Links, Unlinks, Ends, TypeOK
  <2>8. Numbered'
    <3>. SUFFICES ASSUME NEW n \in Names, parts'[n] # None PROVE parts'[n] <= calls'
      BY DEF Numbered, Present
    <3>1. CASE parts'[n] = parts[n]
      <4>1. parts[n] <= calls /\ parts[n] \in Nat
        BY <1>0, <3>1 DEF Numbered, Present, TypeOK
      <4>. QED BY <3>1, <4>1, <2>4
    <3>2. CASE parts'[n] # parts[n]
      <4>1. Links(w) /\ parts'[n] = id[w]
        BY <2>7, <3>2
      <4>2. id[w] <= calls
        BY <4>1, <1>0 DEF Links, Identity
      <4>. QED BY <4>1, <4>2, <2>4
    <3>. QED BY <3>1, <3>2
  <2>9. OwnLinks'
    <3>. SUFFICES ASSUME NEW v \in Writers, Running(v)', NEW n \in Names, parts'[n] = id'[v]
                  PROVE  LinkedBy(v, n)'
      BY DEF OwnLinks
    <3>1. CASE v = w /\ Starts(w) /\ id'[v] = calls + 1
      <4>1. parts[n] = calls + 1
        BY <3>1 DEF Starts
      <4>2. parts[n] <= calls
        BY <1>0, <2>4, <4>1, NoneAssumption DEF Numbered, Present
      <4>. QED BY <2>4, <4>1, <4>2
    <3>2. CASE Running(v) /\ id'[v] = id[v] /\ frame'[v] = frame[v]
      <4>1. CASE parts'[n] = parts[n]
        BY <3>2, <4>1, <2>6, <1>0 DEF OwnLinks
      <4>2. CASE parts'[n] # parts[n]
        <5>1. Links(w) /\ n = Name(frame[w], linked[w] + 1) /\ id[v] = id[w]
          BY <2>4, <2>7, <3>2, <4>2
        <5>2. v = w
          BY <1>0, <3>2, <5>1 DEF Identity, Links
        <5>3. linked[w] + 1 \in 1..linked'[w]
          <6>1. linked[w] \in Nat
            BY <1>0, GroupCount DEF TypeOK, Counts
          <6>2. linked'[w] = linked[w] + 1
            BY <5>1 DEF Links
          <6>. QED BY <6>1, <6>2
        <5>. QED BY <3>2, <5>1, <5>2, <5>3 DEF LinkedBy
      <4>. QED BY <4>1, <4>2
    <3>. QED BY <2>5, <3>1, <3>2
  <2>10. \A u \in Writers : u # w => before'[u] = before[u] /\ unseen'[u] = unseen[u]
                                     /\ pc'[u] = pc[u] /\ frame'[u] = frame[u]
    BY <1>0, <2>1 DEF Local, TypeOK
  <2>11. ASSUME NEW u \in Writers PROVE Older(u)'
    <3>1. ASSUME NEW q \in before'[u], q[2] <= calls, q[2] \in Nat,
                 \A v \in Writers : Running(v) /\ id[v] = q[2] => LinkedBy(v, q[1])
          PROVE  q[2] <= calls' /\ \A v \in Writers : Running(v)' /\ id'[v] = q[2] => LinkedBy(v, q[1])'
      <4>1. ASSUME NEW v \in Writers, Running(v)', id'[v] = q[2] PROVE LinkedBy(v, q[1])'
        BY <2>4, <2>5, <2>6, <3>1, <4>1
      <4>. QED BY <2>4, <3>1, <4>1
    <3>2. ASSUME NEW q \in before[u]
          PROVE  q[2] <= calls /\ q[2] \in Nat
                 /\ \A v \in Writers : Running(v) /\ id[v] = q[2] => LinkedBy(v, q[1])
      BY <1>0 DEF OInv, Older, TypeOK
    <3>3. ASSUME NEW n \in Present
          PROVE  parts[n] <= calls /\ parts[n] \in Nat
                 /\ \A v \in Writers : Running(v) /\ id[v] = parts[n] => LinkedBy(v, n)
      BY <1>0 DEF Numbered, OwnLinks, Present, TypeOK
    <3>4. CASE before'[u] \subseteq before[u]
      BY <3>1, <3>2, <3>4 DEF Older
    <3>5. CASE before'[u] = {<<n, parts[n]>> : n \in Present}
      <4>. SUFFICES ASSUME NEW q \in before'[u]
                    PROVE  q[2] <= calls' /\ \A v \in Writers : Running(v)' /\ id'[v] = q[2]
                                                                  => LinkedBy(v, q[1])'
        BY DEF Older
      <4>1. PICK n \in Present : q = <<n, parts[n]>>
        BY <3>5
      <4>. QED BY <3>1, <3>3, <4>1
    <3>. QED BY <2>3, <2>10, <3>4, <3>5 DEF Looks
  <2>12. ASSUME NEW u \in Writers, NEW q \in before[u], parts[q[1]] # q[2]
         PROVE  parts'[q[1]] # q[2]
    <3>1. q[1] \in Names /\ q[2] \in Nat /\ q[2] # None
      BY <1>0, NoneAssumption DEF TypeOK
    <3>2. CASE Links(w) /\ q[1] = Name(frame[w], linked[w] + 1) /\ parts'[q[1]] = id[w]
      <4>1. LinkedBy(w, q[1]) \/ id[w] # q[2]
        BY <3>2 DEF OInv, Older, Links
      <4>2. ~LinkedBy(w, q[1])
        <5>1. linked[w] \in Nat
          BY <1>0, GroupCount DEF TypeOK, Counts
        <5>. QED BY <3>2, <5>1, NameIndex DEF LinkedBy
      <4>. QED BY <3>2, <4>1, <4>2
    <3>. QED BY <2>7, <2>12, <3>1, <3>2
  <2>13. ASSUME NEW u \in Writers PROVE Cleared(u)'
    <3>0. Cleared(u)
      BY DEF OInv
    <3>1. CASE u # w
      BY <2>10, <2>12, <3>0, <3>1 DEF Cleared
    <3>2. CASE u = w /\ ~Running(w) /\ Running(w)'
      <4>1. /\ before'[w] = {<<n, parts[n]>> : n \in Present}
            /\ unseen'[w] = Partitions /\ pc'[w] \in {"preflight", "unstage"}
        BY <2>3, <3>2 DEF Looks
      <4>2. \A q \in before'[w] : q[1][2] \in Partitions
        BY <4>1 DEF Present, Names
      <4>. QED BY <3>2, <4>1, <4>2 DEF Cleared
    <3>3. CASE u = w /\ before'[w] = {} /\ pc'[w] = "idle"
      BY <3>3 DEF Cleared
    <3>4. CASE /\ u = w /\ before'[w] = before[w] /\ frame'[w] = frame[w]
               /\ pc[w] \in {"preflight", "stage"} /\ unseen'[w] = unseen[w]
               /\ pc'[w] = "stage" => pc[w] = "stage" \/ unseen[w] = {}
      BY <2>12, <3>0, <3>4 DEF Cleared
    <3>5. CASE /\ u = w /\ before'[w] = before[w] /\ frame'[w] = frame[w]
               /\ pc[w] = "preflight" /\ pc'[w] = "preflight" /\ parts' = parts
               /\ \E p \in unseen[w] : /\ unseen'[w] = unseen[w] \ {p}
                                       /\ \A n \in PartsOf(frame[w].batch) : n[2] # p
      <4>1. \A q \in before[w] : q[1] \in Names /\ q[2] # None
        BY <1>0, NoneAssumption DEF TypeOK
      <4>. QED BY <3>0, <3>5, <4>1 DEF Cleared, PartsOf, Present
    <3>6. CASE u = w /\ pc'[w] \notin {"preflight", "stage"}
      BY <3>6 DEF Cleared
    <3>. QED BY <2>3, <3>1, <3>2, <3>3, <3>4, <3>5, <3>6 DEF Looks
  <2>. QED BY <1>0, <2>8, <2>9, <2>11, <2>13 DEF OInv
<1>2. CASE UNCHANGED vars
  BY <1>0, <1>2
  DEF vars, arg, hist, OInv, Numbered, OwnLinks, Older, Cleared, LinkedBy, Running, Present
<1>. QED BY <1>1, <1>2 DEF Next

LEMMA OInvInit == Init => OInv
<1>1. Init => IInv
  BY IInvInit
<1>2. Init => Numbered /\ OwnLinks /\ \A w \in Writers : Older(w) /\ Cleared(w)
  BY DEF Init, Numbered, OwnLinks, Older, Cleared, Present, Running
<1>. QED BY <1>1, <1>2 DEF OInv

\* An append never adds a part next to an older part of its batch, in any partition:
\* what a crash left of a batch is refused, not completed.
THEOREM AppendsNeverExtend == Spec => NeverExtends
<1>. DEFINE Extension == \A w \in Writers : linked'[w] > linked[w] =>
                           \A q \in before[w] : q[1][1] = frame[w].batch => parts[q[1]] # q[2]
<1>1. OInv /\ [Next]_vars => [Extension]_vars
  <2>. SUFFICES ASSUME OInv, Next, NEW w \in Writers, linked'[w] > linked[w],
                       NEW q \in before[w], q[1][1] = frame[w].batch
                PROVE  parts[q[1]] # q[2]
    OBVIOUS
  <2>0. IInv /\ TypeOK
    BY DEF OInv, IInv
  <2>1. PICK v \in Writers : Begin(v) \/ Progress(v) \/ Fault(v)
    BY DEF Next
  <2>2. v = w
    <3>1. linked[w] \in Nat
      BY <2>0, GroupCount DEF TypeOK, Counts
    <3>2. w # v => linked'[w] = linked[w]
      BY <2>0, <2>1, StepIsLocal, OthersLocal
    <3>. QED BY <3>1, <3>2
  <2>3. pc[w] = "stage"
    BY <2>0, <2>1, <2>2, StepLooks
  <2>. QED BY <2>3 DEF OInv, Cleared
<1>2. Init /\ [][Next]_vars => []OInv
  BY OInvInit, OInvStep, PTL
<1>3. []OInv /\ [][Next]_vars => [][Extension]_vars
  BY <1>1, PTL
<1>. QED BY <1>2, <1>3 DEF Spec, NeverExtends

------------------------------------------------------------------------------
(***************************************************************************)
(* What a call leaves.  While it runs, its parts are exactly those it      *)
(* holds, and its temporaries those recorded and not removed, with at most *)
(* one more that is being written or was given up.                         *)
(***************************************************************************)
HitBy(w, kind) == <<id[w], kind>> \in hits

Exact(w) == Running(w) => \A n \in Names : parts[n] = id[w] => Holds(w, n)

Desk(w) ==
  Running(w) =>
    /\ \A i \in Counts : <<id[w], i>> \in temps => unstaged[w] < i /\ i <= staged[w] + 1
    /\ \A i \in Counts : unstaged[w] < i /\ i <= staged[w] => <<id[w], i>> \in temps
    /\ <<id[w], staged[w] + 1>> \in temps =>
         /\ staged[w] < Groupings(w)
         /\ \/ pc[w] = "stage"
            \/ pc[w] \in {"rollback", "unstage"} /\ (HitBy(w, "write") \/ HitBy(w, "interrupt"))
    /\ unstaged[w] > 0 => pc[w] = "unstage"
    /\ pc[w] = "preflight" => staged[w] = 0
    /\ ~HitBy(w, "kill") /\ ~HitBy(w, "unstage")
    /\ pc[w] = "unstage" /\ outcome[w] # "ok" /\ ~HitBy(w, "interrupt") /\ ~HitBy(w, "rollback")
         => undone[w] = linked[w]

Known == (\A h \in hits : h[1] <= calls) /\ (\A t \in temps : t[1] <= calls)

MInv == OInv /\ Known /\ Remains /\ \A w \in Writers : Exact(w) /\ Desk(w)

\* A step writes and removes temporaries of its own call only, and only it is hit.
LEMMA StepMarks ==
  ASSUME TypeOK, NEW w \in Writers, Begin(w) \/ Progress(w) \/ Fault(w)
  PROVE  /\ hits \subseteq hits'
         /\ \A h \in hits' \ hits : h[1] = id[w] /\ Running(w)
         /\ \A t \in temps' \ temps : t[1] = id[w] /\ Running(w)
         /\ \A t \in temps \ temps' : t[1] = id[w] /\ Running(w)
<1>0. pc[w] # "idle" => Running(w)
  BY DEF TypeOK, Nested, Running
<1>1. CASE Begin(w)
  BY <1>1 DEF Begin, hist
<1>2. CASE Progress(w)
  <2>1. hits' = hits
    BY <1>2
    DEF Progress, Preflight, CheckTargets, WriteTemporary, Stage, Link, Published, Rollback,
        Unstage, Return, hist
  <2>2. \/ temps' = temps
        \/ pc[w] = "stage" /\ temps' = temps \cup {<<id[w], staged[w] + 1>>}
        \/ pc[w] = "unstage" /\ temps' = temps \ {<<id[w], unstaged[w] + 1>>}
    BY <1>2
    DEF Progress, Preflight, CheckTargets, WriteTemporary, Stage, Link, Published, Rollback,
        Unstage, Return
  <2>. QED BY <1>0, <2>1, <2>2
<1>3. CASE Fault(w)
  <2>1. temps' = temps /\ pc[w] # "idle" /\ \E kind \in Kinds : Hit(w, kind)
    BY <1>3
    DEF Fault, FailStage, FailLink, FailRollback, FailUnstage, Interrupt, InterruptUnstage,
        Kill, Kinds
  <2>. QED BY <1>0, <2>1 DEF Hit
<1>. QED BY <1>1, <1>2, <1>3

\* So the marks of every other call stay as they were.
LEMMA MarksKept ==
  ASSUME MInv, NEW w \in Writers, Begin(w) \/ Progress(w) \/ Fault(w), NEW c,
         Running(w) => c # id[w]
  PROVE  /\ Hits(c)' = Hits(c) /\ TempsBy(c)' = TempsBy(c)
         /\ \A k : <<c, k>> \in hits' <=> <<c, k>> \in hits
         /\ \A i : <<c, i>> \in temps' <=> <<c, i>> \in temps
<1>0. TypeOK
  BY DEF MInv, OInv, IInv
<1>1. \A k : <<c, k>> \in hits' <=> <<c, k>> \in hits
  BY <1>0, StepMarks
<1>2. \A i : <<c, i>> \in temps' <=> <<c, i>> \in temps
  BY <1>0, StepMarks
<1>. QED BY <1>1, <1>2 DEF Hits, TempsBy

\* Nobody else adds a part to a call or takes one from it.
LEMMA PartsKept ==
  ASSUME MInv, NEW w \in Writers,
         Starts(w) \/ Idles(w) \/ Links(w) \/ Unlinks(w) \/ Ends(w),
         NEW c \in Nat, Running(w) => c # id[w]
  PROVE  /\ \A n \in Names : parts'[n] = c <=> parts[n] = c
         /\ PartsBy(c)' = PartsBy(c)
<1>0. IInv /\ TypeOK /\ c # None
  BY NoneAssumption DEF MInv, OInv, IInv
<1>1. ASSUME NEW n \in Names PROVE parts'[n] = c <=> parts[n] = c
  <2>1. CASE parts' = parts
    BY <2>1
  <2>2. CASE Links(w) \/ Unlinks(w)
    <3>1. c # id[w]
      BY <2>2 DEF Links, Unlinks
    <3>2. parts[n] = c => parts'[n] = c
      BY <1>0, <3>1, OthersKept
    <3>3. parts'[n] = parts[n] \/ parts'[n] = id[w] \/ parts'[n] = None
      BY <1>0, <2>2 DEF Links, Unlinks, TypeOK
    <3>. QED BY <1>0, <3>1, <3>2, <3>3
  <2>. QED BY <2>1, <2>2 DEF Starts, Idles, Ends
<1>. QED BY <1>0, <1>1 DEF PartsBy, Present

LEMMA ExactKept ==
  ASSUME MInv, NEW w \in Writers, Local(w),
         Starts(w) \/ Idles(w) \/ Links(w) \/ Unlinks(w) \/ Ends(w),
         NEW v \in Writers
  PROVE  Exact(v)'
<1>0. /\ IInv /\ TypeOK /\ Identity /\ Numbered /\ Exact(v) /\ Exact(w) /\ LocalOK(w)
      /\ linked[w] \in Nat /\ undone[w] \in Nat /\ calls \in Nat
      /\ \A u \in Writers : id[u] \in Nat /\ id[u] # None
  <2>1. IInv /\ TypeOK /\ Identity /\ Numbered /\ Exact(v) /\ Exact(w) /\ LocalOK(w)
    BY TypeParts DEF MInv, OInv, IInv
  <2>2. linked[w] \in Nat /\ undone[w] \in Nat
    BY <2>1, GroupCount DEF LocalOK, Counts
  <2>3. calls \in Nat /\ \A u \in Writers : id[u] \in Nat /\ id[u] # None
    BY <2>1, ConstantsAssumption, NoneAssumption DEF TypeOK
  <2>. QED BY <2>1, <2>2, <2>3
<1>1. CASE v # w
  <2>1. /\ Running(v)' = Running(v) /\ id'[v] = id[v] /\ \A n : Holds(v, n)' = Holds(v, n)
    BY <1>0, <1>1, OthersLocal
  <2>2. ASSUME Running(v), NEW n \in Names, parts'[n] = id[v] PROVE Holds(v, n)
    <3>1. Running(w) => id[v] # id[w]
      BY <1>0, <1>1, <2>2 DEF Identity
    <3>2. parts[n] = id[v]
      BY <1>0, <2>2, <3>1, PartsKept
    <3>. QED BY <1>0, <2>2, <3>2 DEF Exact
  <2>. QED BY <2>1, <2>2 DEF Exact
<1>2. CASE v = w
  <2>1. CASE Starts(w)
    <3>1. ASSUME NEW n \in Names PROVE parts'[n] # calls + 1
      <4>1. parts[n] # None => parts[n] <= calls /\ parts[n] \in Nat
        BY <1>0 DEF Numbered, Present, TypeOK
      <4>2. parts' = parts /\ calls + 1 # None
        BY <1>0, <2>1, NoneAssumption DEF Starts
      <4>. QED BY <1>0, <4>1, <4>2
    <3>. QED BY <1>2, <2>1, <3>1 DEF Starts, Exact
  <2>2. CASE Idles(w)
    BY <1>0, <1>2, <2>2 DEF Idles, Exact, Holds
  <2>3. CASE Links(w)
    <3>. SUFFICES ASSUME NEW n \in Names, parts'[n] = id[w] PROVE Holds(w, n)'
      BY <1>2, <2>3 DEF Exact, Links
    <3>1. CASE n = Name(frame[w], linked[w] + 1)
      BY <1>0, <2>3, <3>1 DEF Links, Holds
    <3>2. CASE n # Name(frame[w], linked[w] + 1)
      <4>1. parts[n] = id[w] /\ Running(w)
        BY <1>0, <2>3, <3>2 DEF Links, TypeOK
      <4>2. PICK i \in 1..linked[w] : undone[w] < i /\ n = Name(frame[w], i)
        BY <1>0, <4>1 DEF Exact, Holds
      <4>3. i \in 1..linked'[w] /\ undone'[w] < i /\ n = Name(frame[w], i)'
        BY <1>0, <2>3, <4>2 DEF Links, Name
      <4>. QED BY <4>3 DEF Holds
    <3>. QED BY <3>1, <3>2
  <2>4. CASE Unlinks(w)
    <3>. SUFFICES ASSUME NEW n \in Names, parts'[n] = id[w] PROVE Holds(w, n)'
      BY <1>2, <2>4 DEF Exact, Unlinks
    <3>1. n # Name(frame[w], undone[w] + 1) /\ parts[n] = id[w] /\ Running(w)
      BY <1>0, <2>4 DEF Unlinks, TypeOK
    <3>2. PICK i \in 1..linked[w] : undone[w] < i /\ n = Name(frame[w], i)
      BY <1>0, <3>1 DEF Exact, Holds
    <3>3. i # undone[w] + 1
      BY <3>1, <3>2
    <3>4. i \in 1..linked'[w] /\ undone'[w] < i /\ n = Name(frame[w], i)'
      BY <1>0, <2>4, <3>2, <3>3 DEF Unlinks, Name
    <3>. QED BY <3>4 DEF Holds
  <2>5. CASE Ends(w)
    BY <1>2, <2>5 DEF Ends, Exact
  <2>. QED BY <2>1, <2>2, <2>3, <2>4, <2>5
<1>. QED BY <1>1, <1>2

LEMMA DeskOthers ==
  ASSUME MInv, NEW w \in Writers, Local(w), Begin(w) \/ Progress(w) \/ Fault(w),
         NEW v \in Writers, v # w
  PROVE  Desk(v)'
<1>0. TypeOK /\ Identity /\ Desk(v)
  BY DEF MInv, OInv, IInv
<1>1. /\ frame'[v] = frame[v] /\ id'[v] = id[v] /\ pc'[v] = pc[v] /\ outcome'[v] = outcome[v]
      /\ linked'[v] = linked[v] /\ undone'[v] = undone[v]
      /\ staged'[v] = staged[v] /\ unstaged'[v] = unstaged[v]
  BY <1>0 DEF Local, TypeOK
<1>. SUFFICES ASSUME Running(v) PROVE Desk(v)'
  BY <1>1 DEF Desk, Running
<1>2. Running(w) => id[v] # id[w]
  BY <1>0 DEF Identity
<1>3. /\ \A k : <<id[v], k>> \in hits' <=> <<id[v], k>> \in hits
      /\ \A i : <<id[v], i>> \in temps' <=> <<id[v], i>> \in temps
  BY <1>2, MarksKept
<1>. QED BY <1>0, <1>1, <1>3 DEF Desk, HitBy, Running, Groupings

LEMMA DeskKept ==
  ASSUME MInv, NEW w \in Writers, Begin(w) \/ Progress(w) \/ Fault(w)
  PROVE  Desk(w)'
<1>0. /\ TypeOK /\ Desk(w) /\ LocalOK(w) /\ Known /\ Phase(w) /\ calls \in Nat
      /\ \A i \in Counts : i \in Nat
      /\ staged[w] \in Nat /\ unstaged[w] \in Nat
      /\ linked[w] \in Nat /\ undone[w] \in Nat
      /\ Running(w) => Groupings(w) \in Nat
  BY TypeParts, GroupCount, ConstantsAssumption
  DEF MInv, OInv, IInv, Counts, TypeOK, Running, Groupings, LocalOK
<1>a. Nested(w) /\ (pc[w] # "idle" => Running(w))
  BY <1>0 DEF LocalOK, Nested, Running
<1>1. CASE Begin(w)
  <2>1. /\ id'[w] = calls + 1 /\ hits' = hits /\ temps' = temps
        /\ \/ pc'[w] = "preflight"
           \/ pc'[w] = "unstage" /\ outcome'[w] = "rejected"
        /\ staged'[w] = staged[w] /\ unstaged'[w] = unstaged[w]
        /\ linked'[w] = linked[w] /\ undone'[w] = undone[w] /\ pc[w] = "idle"
    <3>1. /\ \/ pc'[w] = "preflight"
             \/ pc'[w] = "unstage" /\ outcome'[w] = "rejected"
          /\ id'[w] = calls + 1 /\ pc[w] = "idle"
      <4>1. /\ id' = [id EXCEPT ![w] = calls + 1] /\ pc[w] = "idle"
            /\ \/ pc' = [pc EXCEPT ![w] = "preflight"]
               \/ /\ pc' = [pc EXCEPT ![w] = "unstage"]
                  /\ outcome' = [outcome EXCEPT ![w] = "rejected"]
        BY <1>1 DEF Begin, Conclude, Goto
      <4>. QED BY <1>0, <4>1 DEF TypeOK
    <3>. QED BY <1>1, <3>1 DEF Begin, hist
  <2>2. \A k : <<calls + 1, k>> \notin hits /\ <<calls + 1, k>> \notin temps
    BY <1>0 DEF Known
  <2>3. staged[w] = 0 /\ unstaged[w] = 0 /\ linked[w] = 0 /\ undone[w] = 0
    BY <1>0, <1>a, <2>1 DEF Nested
  <2>. QED BY <1>0, <2>1, <2>2, <2>3 DEF Desk, HitBy
<1>2. CASE Preflight(w) \/ CheckTargets(w)
  <2>1. /\ id'[w] = id[w] /\ frame'[w] = frame[w] /\ hits' = hits /\ temps' = temps
        /\ \/ pc'[w] = pc[w] /\ outcome'[w] = outcome[w]
           \/ pc'[w] = "unstage" /\ outcome'[w] = "exists"
           \/ pc'[w] = "stage" /\ outcome'[w] = outcome[w]
        /\ staged' = staged /\ unstaged' = unstaged
        /\ linked' = linked /\ undone' = undone /\ pc[w] = "preflight"
    BY <1>0, <1>2 DEF Preflight, CheckTargets, TypeOK, Conclude, Goto, hist, arg
  <2>2. linked[w] = 0 /\ undone[w] = 0
    BY <2>1, <1>0 DEF Phase
  <2>. QED BY <1>0, <1>a, <2>1, <2>2 DEF Desk, HitBy, Running, Groupings
<1>3. CASE WriteTemporary(w)
  <2>1. /\ id'[w] = id[w] /\ frame'[w] = frame[w] /\ hits' = hits
        /\ pc' = pc /\ outcome' = outcome /\ pc[w] = "stage"
        /\ staged' = staged /\ unstaged' = unstaged
        /\ linked' = linked /\ undone' = undone
        /\ staged[w] < Groupings(w)
        /\ temps' = temps \cup {<<id[w], staged[w] + 1>>}
    BY <1>3 DEF WriteTemporary, hist, arg
  <2>2. unstaged[w] = 0
    BY <1>0, <1>a, <2>1 DEF Desk
  <2>3. \A i : <<id[w], i>> \in temps' <=> (<<id[w], i>> \in temps \/ i = staged[w] + 1)
    BY <2>1
  <2>. HIDE <1>3
  <2>. QED BY <1>0, <1>a, <2>1, <2>2, <2>3 DEF Desk, HitBy, Running, Groupings
<1>4. CASE Stage(w)
  <2>1. /\ id'[w] = id[w] /\ frame'[w] = frame[w] /\ hits' = hits
        /\ pc' = pc /\ outcome' = outcome /\ pc[w] = "stage"
        /\ staged'[w] = staged[w] + 1 /\ unstaged' = unstaged
        /\ linked' = linked /\ undone' = undone
        /\ <<id[w], staged[w] + 1>> \in temps
        /\ temps' = temps
    BY <1>0, <1>4 DEF Stage, hist, arg, TypeOK
  <2>2. <<id[w], staged[w] + 2>> \notin temps
    <3>1. <<id[w], staged[w] + 2>> \in temps => staged[w] + 2 \in Counts
      BY <1>0 DEF TypeOK
    <3>. QED BY <1>0, <1>a, <2>1, <3>1 DEF Desk
  <2>3. unstaged[w] = 0
    BY <1>0, <1>a, <2>1 DEF Desk
  <2>4. ASSUME NEW i \in Counts
        PROVE  /\ <<id[w], i>> \in temps => 0 < i /\ i <= staged[w] + 2
               /\ 0 < i /\ i <= staged[w] + 1 => <<id[w], i>> \in temps
    <3>1. i \in Nat /\ (i <= staged[w] + 1 => i <= staged[w] \/ i = staged[w] + 1)
      BY <1>0
    <3>. QED BY <1>0, <1>a, <2>1, <2>3, <3>1 DEF Desk
  <2>5. staged[w] + 2 = (staged[w] + 1) + 1
    BY <1>0
  <2>6. \A k : <<id[w], k>> \in hits' <=> <<id[w], k>> \in hits
    BY <2>1
  <2>. QED BY <1>0, <1>a, <2>1, <2>2, <2>3, <2>4, <2>5, <2>6 DEF Desk, HitBy, Running, Groupings
<1>5. CASE Link(w) \/ Published(w)
  <2>1. /\ id'[w] = id[w] /\ frame'[w] = frame[w] /\ hits' = hits /\ temps' = temps
        /\ pc[w] = "stage" /\ linked[w] <= Groupings(w)
        /\ \/ pc'[w] = pc[w] /\ outcome'[w] = outcome[w]
           \/ pc'[w] = "rollback" /\ outcome'[w] = "error" /\ staged[w] = Groupings(w)
           \/ pc'[w] = "unstage" /\ outcome'[w] = "ok" /\ linked[w] = Groupings(w)
        /\ staged' = staged /\ unstaged' = unstaged
    BY <1>0, <1>a, <1>5 DEF Link, Published, TypeOK, Conclude, Goto, hist, arg, Nested
  <2>2. linked[w] = Groupings(w) => staged[w] = Groupings(w)
    BY <1>0, <1>a, <2>1 DEF Nested, Running
  <2>. QED BY <1>0, <1>a, <2>1, <2>2 DEF Desk, HitBy, Running, Groupings
<1>6. CASE Rollback(w)
  <2>1. /\ id'[w] = id[w] /\ frame'[w] = frame[w] /\ hits' = hits /\ temps' = temps
        /\ pc[w] = "rollback" /\ outcome' = outcome
        /\ \/ pc'[w] = pc[w]
           \/ pc'[w] = "unstage" /\ undone'[w] = undone[w] /\ linked[w] <= undone[w]
        /\ staged' = staged /\ unstaged' = unstaged /\ linked' = linked
    BY <1>0, <1>6 DEF Rollback, TypeOK, Conclude, Goto, hist, arg
  <2>. QED BY <1>0, <1>a, <2>1 DEF Desk, HitBy, Running, Groupings, Nested
<1>7. CASE Unstage(w)
  <2>1. /\ id'[w] = id[w] /\ frame'[w] = frame[w] /\ hits' = hits
        /\ pc' = pc /\ outcome' = outcome /\ pc[w] = "unstage"
        /\ staged' = staged /\ unstaged'[w] = unstaged[w] + 1
        /\ linked' = linked /\ undone' = undone
        /\ unstaged[w] < staged[w]
        /\ temps' = temps \ {<<id[w], unstaged[w] + 1>>}
    BY <1>0, <1>7 DEF Unstage, hist, arg, TypeOK
  <2>2. \A i : <<id[w], i>> \in temps' <=> (<<id[w], i>> \in temps /\ i # unstaged[w] + 1)
    BY <2>1
  <2>. HIDE <1>7
  <2>. QED BY <1>0, <1>a, <2>1, <2>2 DEF Desk, HitBy, Running, Groupings
<1>8. CASE FailStage(w) \/ FailLink(w) \/ FailRollback(w) \/ Interrupt(w)
  <2>1. PICK kind \in {"write", "link", "rollback", "interrupt"} :
          /\ hits' = hits \cup {<<id[w], kind>>}
          /\ \/ pc'[w] = "rollback" /\ kind \in {"write", "link"}
             \/ pc'[w] = "unstage" /\ kind \in {"rollback", "interrupt"}
          /\ kind = "link" => staged[w] = Groupings(w)
          /\ kind = "rollback" => pc[w] = "rollback"
          /\ kind = "write" => pc[w] = "stage"
    <3>1. CASE FailStage(w)
      <4>1. /\ hits' = hits \cup {<<id[w], "write">>} /\ pc'[w] = "rollback"
            /\ pc[w] = "stage"
        BY <1>0, <3>1 DEF FailStage, Hit, TypeOK, Conclude, Goto
      <4>. QED BY <4>1
    <3>2. CASE FailLink(w)
      <4>1. /\ hits' = hits \cup {<<id[w], "link">>} /\ pc'[w] = "rollback"
            /\ pc[w] = "stage" /\ staged[w] = Groupings(w)
        BY <1>0, <3>2 DEF FailLink, Hit, TypeOK, Conclude, Goto
      <4>. QED BY <4>1
    <3>3. CASE FailRollback(w)
      BY <1>0, <3>3 DEF FailRollback, Hit, TypeOK, Goto
    <3>4. CASE Interrupt(w)
      BY <1>0, <3>4 DEF Interrupt, Hit, TypeOK, Conclude, Goto
    <3>. QED BY <1>8, <3>1, <3>2, <3>3, <3>4
  <2>2. /\ id'[w] = id[w] /\ frame'[w] = frame[w] /\ temps' = temps
        /\ pc[w] \in {"preflight", "stage", "rollback"}
        /\ staged' = staged /\ unstaged' = unstaged /\ linked' = linked /\ undone' = undone
        /\ outcome'[w] # "ok"
    BY <1>0, <1>a, <1>8
    DEF FailStage, FailLink, FailRollback, Interrupt, TypeOK, Conclude, Goto, arg, Phase, Nested
  <2>3. \A k : <<id[w], k>> \in hits' <=> (<<id[w], k>> \in hits \/ k = kind)
    BY <2>1
  <2>. HIDE <1>8
  <2>. QED BY <1>0, <1>a, <2>1, <2>2, <2>3 DEF Desk, HitBy, Running, Groupings
<1>9. CASE Return(w) \/ FailUnstage(w) \/ InterruptUnstage(w) \/ Kill(w)
  <2>1. frame'[w] = None
    BY <1>0, <1>9 DEF Return, FailUnstage, InterruptUnstage, Kill, Finish, TypeOK
  <2>. QED BY <2>1 DEF Desk, Running
<1>. QED BY <1>1, <1>2, <1>3, <1>4, <1>5, <1>6, <1>7, <1>8, <1>9 DEF Progress, Fault

\* What a call holds, and has on disk, at the end of its phases.
LEMMA HeldParts ==
  ASSUME MInv, NEW w \in Writers, Running(w)
  PROVE  /\ undone[w] = linked[w] => PartsBy(id[w]) = {}
         /\ linked[w] = Groupings(w) /\ undone[w] = 0 => PartsBy(id[w]) = NamesOf(frame[w])
<1>0. /\ TypeOK /\ Owned(w) /\ Exact(w) /\ LocalOK(w) /\ frame[w] \in Frames
      /\ Groupings(w) \in Nat /\ linked[w] \in Nat /\ undone[w] \in Nat
      /\ id[w] # None
  <2>1. TypeOK /\ Owned(w) /\ Exact(w) /\ LocalOK(w)
    BY TypeParts DEF MInv, OInv, IInv
  <2>2. frame[w] \in Frames /\ linked[w] \in Nat /\ undone[w] \in Nat
    BY <2>1, GroupCount DEF LocalOK, Counts, Running
  <2>3. Groupings(w) \in Nat
    BY <2>2, GroupCount DEF Groupings
  <2>4. id[w] # None
    BY <2>1, ConstantsAssumption, NoneAssumption DEF TypeOK
  <2>. QED BY <2>1, <2>2, <2>3, <2>4
<1>1. \A n \in Names : parts[n] = id[w] <=> Holds(w, n)
  BY <1>0 DEF Owned, Exact
<1>2. PartsBy(id[w]) = {n \in Names : Holds(w, n)}
  BY <1>0, <1>1 DEF PartsBy, Present
<1>3. ASSUME undone[w] = linked[w] PROVE PartsBy(id[w]) = {}
  BY <1>0, <1>2, <1>3 DEF Holds
<1>4. ASSUME linked[w] = Groupings(w), undone[w] = 0 PROVE PartsBy(id[w]) = NamesOf(frame[w])
  <2>1. \A n \in NamesOf(frame[w]) : n \in Names
    BY <1>0, NameInNames DEF NamesOf
  <2>2. \A n : n \in NamesOf(frame[w]) <=> Holds(w, n)
    BY <1>0, <1>4, HoldsAll
  <2>. QED BY <1>2, <2>1, <2>2
<1>. QED BY <1>3, <1>4

LEMMA HeldTemps ==
  ASSUME MInv, NEW w \in Writers, Running(w)
  PROVE  /\ unstaged[w] = 0 /\ staged[w] = Groupings(w) => TempsBy(id[w]) = 1..Groupings(w)
         /\ unstaged[w] = staged[w] =>
              \/ TempsBy(id[w]) = {}
              \/ /\ TempsBy(id[w]) = {staged[w] + 1} /\ undone[w] = linked[w]
                 /\ pc[w] = "unstage" => HitBy(w, "write") \/ HitBy(w, "interrupt")
<1>0. /\ Desk(w) /\ Nested(w) /\ Groupings(w) \in 0..MaxGroups /\ MaxGroups \in Nat
      /\ staged[w] \in 0..MaxGroups /\ unstaged[w] \in 0..MaxGroups
      /\ linked[w] \in Nat /\ undone[w] \in Nat
      /\ Counts = 0..MaxGroups
  BY TypeParts, GroupCount
  DEF MInv, OInv, IInv, LocalOK, Counts, Running, Groupings
<1>1. /\ \A i \in 1..MaxGroups : <<id[w], i>> \in temps => unstaged[w] < i /\ i <= staged[w] + 1
      /\ \A i \in 1..MaxGroups : unstaged[w] < i /\ i <= staged[w] => <<id[w], i>> \in temps
      /\ <<id[w], staged[w] + 1>> \in temps =>
           /\ staged[w] < Groupings(w)
           /\ pc[w] = "unstage" => HitBy(w, "write") \/ HitBy(w, "interrupt")
  BY <1>0 DEF Desk
<1>2. ASSUME unstaged[w] = 0, staged[w] = Groupings(w) PROVE TempsBy(id[w]) = 1..Groupings(w)
  <2>1. ASSUME NEW i \in 1..MaxGroups PROVE <<id[w], i>> \in temps <=> i <= Groupings(w)
    <3>1. i = staged[w] + 1 => <<id[w], i>> \notin temps
      BY <1>0, <1>1, <1>2
    <3>. QED BY <1>0, <1>1, <1>2, <3>1
  <2>. QED BY <1>0, <2>1 DEF TempsBy
<1>3. ASSUME unstaged[w] = staged[w], TempsBy(id[w]) # {}
      PROVE  /\ TempsBy(id[w]) = {staged[w] + 1} /\ undone[w] = linked[w]
             /\ pc[w] = "unstage" => HitBy(w, "write") \/ HitBy(w, "interrupt")
  <2>1. \A i \in TempsBy(id[w]) : i = staged[w] + 1
    BY <1>0, <1>1, <1>3 DEF TempsBy
  <2>2. TempsBy(id[w]) = {staged[w] + 1}
    BY <1>3, <2>1
  <2>3. <<id[w], staged[w] + 1>> \in temps
    BY <2>2 DEF TempsBy
  <2>4. linked[w] = 0 /\ undone[w] = 0
    BY <1>0, <1>1, <2>3 DEF Nested, Running
  <2>. QED BY <1>1, <2>2, <2>3, <2>4
<1>. QED BY <1>2, <1>3

\* How a call ends, in the terms of what hit it.
LEMMA EndKind ==
  ASSUME TypeOK, NEW w \in Writers, Begin(w) \/ Progress(w) \/ Fault(w),
         answered' # answered
  PROVE  /\ Running(w) /\ parts' = parts /\ temps' = temps
         /\ \E r \in Results :
              /\ answered' = answered \cup {<<id[w], frame[w], r>>}
              /\ \/ /\ pc[w] = "unstage" /\ unstaged[w] = staged[w] /\ r = outcome[w]
                    /\ hits' = hits
                 \/ pc[w] = "unstage" /\ <<id[w], "unstage">> \in hits'
                 \/ <<id[w], "kill">> \in hits'
<1>. DEFINE Goal == /\ Running(w) /\ parts' = parts /\ temps' = temps
                    /\ \E r \in Results :
                         /\ answered' = answered \cup {<<id[w], frame[w], r>>}
                         /\ \/ /\ pc[w] = "unstage" /\ unstaged[w] = staged[w] /\ r = outcome[w]
                               /\ hits' = hits
                            \/ pc[w] = "unstage" /\ <<id[w], "unstage">> \in hits'
                            \/ <<id[w], "kill">> \in hits'
<1>0. /\ pc[w] # "idle" => Running(w)
      /\ pc[w] = "unstage" => outcome[w] \in Results
  BY DEF TypeOK, Nested, Running
<1>1. Return(w) \/ FailUnstage(w) \/ InterruptUnstage(w) \/ Kill(w)
  BY DEF Begin, Progress, Fault, Preflight, CheckTargets, WriteTemporary, Stage, Link,
         Published, Rollback, Unstage, FailStage, FailLink, FailRollback, Interrupt, hist
<1>2. CASE Return(w)
  BY <1>0, <1>2 DEF Return, Finish
<1>3. CASE FailUnstage(w)
  BY <1>0, <1>3 DEF FailUnstage, Finish, Hit, Results
<1>4. CASE InterruptUnstage(w)
  BY <1>0, <1>4 DEF InterruptUnstage, Finish, Hit, Results
<1>5. CASE Kill(w)
  BY <1>0, <1>5 DEF Kill, Finish, Hit, Results
<1>. HIDE DEF Goal
<1>6. Goal
  BY <1>1, <1>2, <1>3, <1>4, <1>5 DEF Goal
<1>. QED BY <1>6 DEF Goal

\* A call that ends leaves what its hits allow.
LEMMA EndLeaves ==
  ASSUME MInv, NEW w \in Writers, Begin(w) \/ Progress(w) \/ Fault(w),
         NEW a \in answered', a \notin answered
  PROVE  LeftBy(a)'
<1>0. /\ TypeOK /\ Phase(w) /\ Desk(w) /\ LocalOK(w) /\ Nested(w)
      /\ linked[w] \in Nat /\ undone[w] \in Nat
  BY TypeParts, GroupCount DEF MInv, OInv, IInv, LocalOK, Counts
<1>1. /\ Running(w) /\ parts' = parts /\ temps' = temps
      /\ \E r \in Results :
           /\ answered' = answered \cup {<<id[w], frame[w], r>>}
           /\ \/ /\ pc[w] = "unstage" /\ unstaged[w] = staged[w] /\ r = outcome[w]
                 /\ hits' = hits
              \/ pc[w] = "unstage" /\ <<id[w], "unstage">> \in hits'
              \/ <<id[w], "kill">> \in hits'
  BY <1>0, EndKind
<1>2. /\ a[1] = id[w] /\ a[2] = frame[w]
      /\ \/ /\ pc[w] = "unstage" /\ unstaged[w] = staged[w] /\ a[3] = outcome[w]
            /\ hits' = hits
         \/ pc[w] = "unstage" /\ <<id[w], "unstage">> \in hits'
         \/ <<id[w], "kill">> \in hits'
  BY <1>1
<1>3. hits \subseteq hits'
  BY <1>0, StepMarks
<1>. DEFINE own == PartsBy(a[1])
            all == NamesOf(a[2])
            tmp == TempsBy(a[1])
            marks == Hits(a[1])'
<1>4. own' = own /\ tmp' = tmp
  BY <1>1 DEF PartsBy, Present, TempsBy
<1>5. \A k \in Kinds : k \in marks <=> <<id[w], k>> \in hits'
  BY <1>2 DEF Hits
<1>6. /\ undone[w] = linked[w] => own = {}
      /\ linked[w] = Groupings(w) /\ undone[w] = 0 => own = all
  BY <1>1, <1>2, HeldParts
<1>7. /\ unstaged[w] = 0 /\ staged[w] = Groupings(w) => tmp = 1..Len(a[2].groups)
      /\ unstaged[w] = staged[w] =>
           \/ tmp = {}
           \/ /\ tmp = {staged[w] + 1} /\ undone[w] = linked[w]
              /\ pc[w] = "unstage" => HitBy(w, "write") \/ HitBy(w, "interrupt")
  BY <1>1, <1>2, HeldTemps DEF Groupings
<1>8. ASSUME pc[w] = "unstage", "interrupt" \notin marks, "rollback" \notin marks
      PROVE  own = IF outcome[w] = "ok" THEN all ELSE {}
  <2>1. ~HitBy(w, "interrupt") /\ ~HitBy(w, "rollback")
    BY <1>3, <1>5, <1>8 DEF HitBy, Kinds
  <2>. QED BY <1>0, <1>1, <1>6, <1>8, <2>1 DEF Desk, Phase
<1>9. ASSUME pc[w] # "unstage" PROVE own = {} \/ tmp = 1..Len(a[2].groups)
  <2>1. linked[w] > 0 => staged[w] = Groupings(w)
    BY <1>0, <1>1 DEF Nested, Running
  <2>2. unstaged[w] = 0
    BY <1>0, <1>1, <1>9, GroupCount DEF Desk, LocalOK, Counts
  <2>3. linked[w] = 0 => undone[w] = 0
    BY <1>0 DEF Nested
  <2>. QED BY <1>0, <1>6, <1>7, <2>1, <2>2, <2>3
<1>. HIDE DEF own, all, tmp, marks
<1>10. marks \cap {"interrupt", "rollback"} = {} =>
         own \in {{}, all} \/ tmp = 1..Len(a[2].groups)
  BY <1>8, <1>9
<1>11. marks \cap {"interrupt", "rollback", "unstage", "kill"} = {} =>
         own = IF a[3] = "ok" THEN all ELSE {}
  BY <1>2, <1>5, <1>8 DEF Kinds
<1>12. marks \cap {"unstage", "kill"} = {} =>
         \/ tmp = {}
         \/ /\ own = {} /\ \A i, j \in tmp : i = j
            /\ marks \cap {"write", "interrupt"} # {}
  <2>. SUFFICES ASSUME marks \cap {"unstage", "kill"} = {}, tmp # {}
                PROVE  /\ own = {} /\ \A i, j \in tmp : i = j
                       /\ marks \cap {"write", "interrupt"} # {}
    OBVIOUS
  <2>1. pc[w] = "unstage" /\ unstaged[w] = staged[w] /\ hits' = hits
    BY <1>2, <1>5 DEF Kinds
  <2>2. /\ tmp = {staged[w] + 1} /\ undone[w] = linked[w]
        /\ HitBy(w, "write") \/ HitBy(w, "interrupt")
    BY <1>7, <2>1
  <2>. QED BY <1>5, <1>6, <2>1, <2>2 DEF HitBy, Kinds
<1>. QED BY <1>4, <1>10, <1>11, <1>12 DEF LeftBy, own, all, tmp, marks

LEMMA MInvStep == MInv /\ [Next]_vars => MInv'
<1>. SUFFICES ASSUME MInv, [Next]_vars PROVE MInv'
  OBVIOUS
<1>0. /\ OInv /\ OInv' /\ TypeOK /\ IInv /\ Identity /\ Known /\ Remains
      /\ \A v \in Writers : Exact(v) /\ Desk(v)
  BY OInvStep DEF MInv, OInv, IInv
<1>1. ASSUME NEW w \in Writers, Begin(w) \/ Progress(w) \/ Fault(w) PROVE MInv'
  <2>1. Local(w)
    BY <1>0, <1>1, StepIsLocal
  <2>2. Starts(w) \/ Idles(w) \/ Links(w) \/ Unlinks(w) \/ Ends(w)
    BY <1>0, <1>1, StepKind
  <2>3. \A v \in Writers : Exact(v)'
    BY <2>1, <2>2, ExactKept
  <2>4. \A v \in Writers : Desk(v)'
    BY <1>1, <2>1, DeskKept, DeskOthers
  <2>5. Known'
    <3>1. /\ calls \in Nat /\ calls' \in Nat /\ calls <= calls'
          /\ \A h \in hits : h[1] \in Nat /\ h[1] <= calls
          /\ \A t \in temps : t[1] \in Nat /\ t[1] <= calls
          /\ Running(w) => id[w] \in Nat /\ id[w] <= calls
      BY <1>0, <2>2, ConstantsAssumption
      DEF TypeOK, Known, Identity, Starts, Idles, Links, Unlinks, Ends
    <3>2. /\ \A h \in hits' : h \in hits \/ (h[1] = id[w] /\ Running(w))
          /\ \A t \in temps' : t \in temps \/ (t[1] = id[w] /\ Running(w))
      BY <1>0, <1>1, StepMarks
    <3>3. ASSUME NEW h \in hits' PROVE h[1] <= calls'
      BY <3>1, <3>2
    <3>4. ASSUME NEW t \in temps' PROVE t[1] <= calls'
      BY <3>1, <3>2
    <3>. QED BY <3>3, <3>4 DEF Known
  <2>6. Remains'
    <3>. SUFFICES ASSUME NEW a \in answered' PROVE LeftBy(a)'
      BY DEF Remains
    <3>1. CASE a \in answered
      <4>1. LeftBy(a) /\ a[1] \in Nat /\ (Running(w) => a[1] # id[w])
        BY <1>0, <3>1, ConstantsAssumption DEF Remains, Identity, TypeOK
      <4>2. Hits(a[1])' = Hits(a[1]) /\ TempsBy(a[1])' = TempsBy(a[1])
        BY <1>1, <4>1, MarksKept
      <4>3. PartsBy(a[1])' = PartsBy(a[1])
        BY <2>2, <4>1, PartsKept
      <4>. QED BY <4>1, <4>2, <4>3 DEF LeftBy
    <3>2. CASE a \notin answered
      BY <1>1, <3>2, EndLeaves
    <3>. QED BY <3>1, <3>2
  <2>. QED BY <1>0, <2>3, <2>4, <2>5, <2>6 DEF MInv
<1>2. CASE UNCHANGED vars
  <2>1. ASSUME NEW v \in Writers PROVE Exact(v)' /\ Desk(v)'
    BY <1>0, <1>2 DEF vars, Exact, Desk, HitBy, Holds, Running, Groupings
  <2>2. Known'
    BY <1>0, <1>2 DEF vars, Known
  <2>3. Remains'
    <3>. SUFFICES ASSUME NEW a \in answered PROVE LeftBy(a)'
      BY <1>2 DEF vars, Remains
    <3>1. Hits(a[1])' = Hits(a[1]) /\ TempsBy(a[1])' = TempsBy(a[1])
          /\ PartsBy(a[1])' = PartsBy(a[1])
      BY <1>2 DEF vars, Hits, TempsBy, PartsBy, Present
    <3>2. LeftBy(a)
      BY <1>0 DEF Remains
    <3>. QED BY <3>1, <3>2 DEF LeftBy
  <2>. QED BY <1>0, <2>1, <2>2, <2>3 DEF MInv
<1>. QED BY <1>1, <1>2 DEF Next

LEMMA MInvInit == Init => MInv
<1>1. Init => OInv
  BY OInvInit
<1>2. Init => Known /\ Remains /\ \A w \in Writers : Exact(w) /\ Desk(w)
  BY DEF Init, Known, Remains, Exact, Desk, Running
<1>. QED BY <1>1, <1>2 DEF MInv

\* A finished call leaves what Remains allows after the faults that hit it, and no more:
\* no killed append leaves half a batch without all of its temporaries, no failed write
\* or link leaves a part, and finally leaves at most the file that was not recorded.
THEOREM RemainsAreKnown == Spec => []Remains
<1>1. MInv => Remains
  BY DEF MInv
<1>. QED BY <1>1, MInvInit, MInvStep, PTL DEF Spec

------------------------------------------------------------------------------
\* A query beside any number of appends that run, fail, roll back and die.
\*
\* Everything rests on one fact: a call that changes a part, or adds one, runs at that
\* moment.  So a part that was listed and not opened is still what it was, or its call
\* ran while the query did (Untouched), and a part found by the query belongs to an
\* append that had returned before it began, or overlapped with it, or was spoiled
\* (Settled).


ReaderOK ==
  /\ rpc \in {"idle", "list", "read", "returned", "raised"}
  /\ unlisted \subseteq Partitions
  /\ listed \subseteq Names \X (1..MaxCalls) /\ seen \subseteq Names \X (1..MaxCalls)
  /\ missing \in Names \X (1..MaxCalls) \cup {None}
  /\ rpc = "raised" => missing \in Names \X (1..MaxCalls)
  /\ rpc # "list" => unlisted = {}
  /\ rpc = "idle" => listed = {} /\ seen = {}
  /\ appended \subseteq (1..MaxCalls) \X Frames
  /\ overlapping \subseteq 1..MaxCalls

\* A call ends once.
Unique == \A a, b \in answered : a[1] = b[1] => a = b

\* What ran since the query began is in overlapping; what had returned, in appended.
Watched ==
  rpc # "idle" =>
    /\ RunningCalls \subseteq overlapping
    /\ \A a \in answered : a[3] = "ok" => <<a[1], a[2]>> \in appended \/ a[1] \in overlapping
Past == \A p \in appended : \E a \in answered : a[3] = "ok" /\ p = <<a[1], a[2]>>

Untouched == \A q \in listed : q[2] \in overlapping \/ parts[q[1]] = q[2]
Settled ==
  \A q \in listed \cup seen :
    q[2] \in overlapping \/ q[1][1] \in spoiled \/ \E p \in appended : p[1] = q[2]

\* Where the parts of an earlier append are to be found.
Collected ==
  \A p \in appended : \A n \in NamesOf(p[2]) :
    /\ rpc = "list" => n[2] \in unlisted \/ <<n, p[1]>> \in listed
    /\ rpc = "read" => <<n, p[1]>> \in listed \cup seen
    /\ rpc = "returned" => <<n, p[1]>> \in seen

RInv ==
  /\ IInv /\ ReaderOK
  /\ Unique /\ Watched /\ Past
  /\ Untouched /\ Settled /\ Collected /\ RaisesOverlap

------------------------------------------------------------------------------
LEMMA RInvInit == ReadInit => RInv
<1>. SUFFICES ASSUME ReadInit PROVE RInv
  OBVIOUS
<1>1. IInv
  BY IInvInit DEF ReadInit
<1>2. answered = {}
  BY DEF ReadInit, Init
<1>. QED
  BY <1>1, <1>2
  DEF ReadInit, RInv, ReaderOK, Unique, Watched, Past, Untouched, Settled, Collected,
      RaisesOverlap

\* A part that is there belongs to a call that runs, to an append that returned, or to a
\* batch that was spoiled.
LEMMA PartsHaveOwners ==
  ASSUME IInv, NEW n \in Present
  PROVE  \/ parts[n] \in RunningCalls
         \/ n[1] \in spoiled
         \/ \E a \in answered : a[3] = "ok" /\ a[1] = parts[n]
<1>. SUFFICES ASSUME n[1] \notin spoiled
              PROVE  parts[n] \in RunningCalls \/ \E a \in answered : a[3] = "ok" /\ a[1] = parts[n]
  OBVIOUS
<1>0. n \in Names
  BY DEF Present
<1>1. CASE \E w \in Writers : Running(w) /\ Holds(w, n)
  <2>1. PICK w \in Writers : Running(w) /\ Holds(w, n)
    BY <1>1
  <2>2. parts[n] = id[w]
    BY <1>0, <2>1 DEF IInv, Owned
  <2>3. pc[w] # "idle"
    BY <2>1 DEF IInv, TypeOK, Nested, Running
  <2>. QED BY <2>2, <2>3 DEF RunningCalls
<1>2. CASE \E a \in answered : a[3] = "ok" /\ n \in NamesOf(a[2])
  BY <1>2 DEF IInv, AppendedStays
<1>. QED BY <1>1, <1>2 DEF IInv, Traced

\* A step of an append, as the reader sees it.
LEMMA AppendStep ==
  ASSUME IInv, NEW w \in Writers, Begin(w) \/ Progress(w) \/ Fault(w)
  PROVE  /\ \A n \in Names : parts[n] # None /\ parts'[n] # parts[n] => parts[n] \in RunningCalls'
         /\ spoiled \subseteq spoiled' /\ answered \subseteq answered'
         /\ \A a \in answered' \ answered :
              /\ a[1] \in RunningCalls
              /\ \A b \in answered' : b[1] = a[1] => b = a
<1>0. TypeOK /\ TypeOK' /\ Identity
  BY TypeStep DEF IInv, Next
<1>1. Starts(w) \/ Idles(w) \/ Links(w) \/ Unlinks(w) \/ Ends(w)
  BY StepKind
<1>2. ASSUME NEW n \in Names, parts[n] # None, parts'[n] # parts[n]
      PROVE  parts[n] \in RunningCalls'
  <2>1. parts[n] = id[w]
    BY <1>1, <1>2, OthersKept
  <2>2. frame'[w] # None /\ id'[w] = id[w]
    BY <1>1, <1>2 DEF Starts, Idles, Links, Unlinks, Ends, Running
  <2>3. pc'[w] # "idle"
    BY <1>0, <2>2 DEF TypeOK, Nested
  <2>. QED BY <2>1, <2>2, <2>3 DEF RunningCalls
<1>3. spoiled \subseteq spoiled' /\ answered \subseteq answered'
  BY <1>1 DEF Starts, Idles, Links, Unlinks, Ends
<1>4. ASSUME NEW a \in answered' \ answered
      PROVE  a[1] \in RunningCalls /\ \A b \in answered' : b[1] = a[1] => b = a
  <2>1. PICK r \in Results : answered' = answered \cup {<<id[w], frame[w], r>>}
    BY <1>1, <1>4 DEF Starts, Idles, Links, Unlinks, Ends
  <2>2. Running(w)
    BY <1>1, <1>4 DEF Starts, Idles, Links, Unlinks, Ends
  <2>3. a = <<id[w], frame[w], r>>
    BY <2>1
  <2>4. pc[w] # "idle"
    BY <1>0, <2>2 DEF TypeOK, Nested, Running
  <2>5. a[1] \in RunningCalls
    BY <2>3, <2>4 DEF RunningCalls
  <2>6. \A b \in answered : b[1] # a[1]
    BY <1>0, <2>2, <2>3 DEF Identity
  <2>. QED BY <2>1, <2>3, <2>5, <2>6
<1>. QED BY <1>2, <1>3, <1>4

LEMMA CallsAreNumbered == TypeOK => RunningCalls \subseteq 1..MaxCalls
BY DEF TypeOK, Nested, RunningCalls

\* Steps of the appends keep what the reader relies on.
LEMMA AppendingKeeps ==
  ASSUME RInv, Appending
  PROVE  RInv'
<1>0. IInv /\ ReaderOK /\ TypeOK /\ UNCHANGED reader
  BY DEF RInv, IInv, Appending
<1>1. IInv' /\ TypeOK'
  BY <1>0, IInvStep DEF Appending, IInv
<1>2. PICK w \in Writers : Begin(w) \/ Progress(w) \/ Fault(w)
  BY DEF Appending, Next
<1>3. /\ \A n \in Names : parts[n] # None /\ parts'[n] # parts[n] => parts[n] \in RunningCalls'
      /\ spoiled \subseteq spoiled' /\ answered \subseteq answered'
      /\ \A a \in answered' \ answered :
           /\ a[1] \in RunningCalls
           /\ \A b \in answered' : b[1] = a[1] => b = a
  BY <1>0, <1>2, AppendStep
<1>4. CASE rpc = "idle"
  <2>1. rpc' = "idle" /\ listed = {} /\ listed' = {} /\ seen' = {} /\ overlapping' = {}
        /\ appended' = appended
    BY <1>0, <1>4 DEF Appending, reader, ReaderOK
  <2>. QED
    BY <1>0, <1>1, <1>3, <2>1
    DEF RInv, ReaderOK, reader, Unique, Watched, Past, Untouched, Settled, Collected, RaisesOverlap
<1>5. CASE rpc # "idle"
  <2>1. /\ overlapping' = overlapping \cup RunningCalls'
        /\ rpc' = rpc /\ unlisted' = unlisted /\ listed' = listed /\ seen' = seen
        /\ missing' = missing /\ appended' = appended
    BY <1>0, <1>5 DEF Appending, reader
  <2>2. RunningCalls' \subseteq 1..MaxCalls
    <3>1. TypeOK' => RunningCalls' \subseteq 1..MaxCalls
      BY DEF TypeOK, Nested, RunningCalls
    <3>. QED BY <3>1, <1>1
  <2>3. ReaderOK'
    BY <1>0, <2>1, <2>2 DEF ReaderOK
  <2>4. Unique' /\ Past'
    BY <1>3, <2>1 DEF RInv, Unique, Past
  <2>5. Watched'
    BY <1>3, <1>5, <2>1 DEF RInv, Watched
  <2>6. Untouched'
    <3>. SUFFICES ASSUME NEW q \in listed, q[2] \notin overlapping'
                  PROVE  parts'[q[1]] = q[2]
      BY <2>1 DEF Untouched
    <3>1. parts[q[1]] = q[2] /\ q[1] \in Names /\ q[2] \in Nat
      BY <1>0, <2>1 DEF RInv, Untouched, ReaderOK
    <3>. QED BY <3>1, <1>3, <2>1, NoneAssumption
  <2>7. Settled' /\ Collected' /\ RaisesOverlap'
    BY <1>3, <2>1 DEF RInv, Settled, Collected, RaisesOverlap
  <2>. QED BY <1>1, <2>3, <2>4, <2>5, <2>6, <2>7 DEF RInv
<1>. QED BY <1>4, <1>5

\* A query knows all appends that had returned when it began.
LEMMA QueryKeeps ==
  ASSUME RInv, Query
  PROVE  RInv'
<1>0. IInv /\ ReaderOK /\ UNCHANGED vars
  BY DEF RInv, Query
<1>1. IInv' /\ TypeOK
  BY <1>0, IInvStep DEF IInv
<1>2. /\ rpc' = "list" /\ unlisted' = Partitions /\ listed' = {} /\ seen' = {} /\ missing' = None
      /\ appended' = {<<a[1], a[2]>> : a \in {b \in answered : b[3] = "ok"}}
      /\ overlapping' = RunningCalls
      /\ answered' = answered /\ parts' = parts /\ spoiled' = spoiled
      /\ RunningCalls' = RunningCalls
  BY <1>0 DEF Query, vars, arg, RunningCalls
<1>3. ReaderOK'
  <2>1. appended' \subseteq (1..MaxCalls) \X Frames
    BY <1>1, <1>2 DEF TypeOK
  <2>2. overlapping' \subseteq 1..MaxCalls
    BY <1>1, <1>2, CallsAreNumbered
  <2>. QED BY <1>2, <2>1, <2>2 DEF ReaderOK
<1>4. Collected'
  <2>. SUFFICES ASSUME NEW p \in appended', NEW n \in NamesOf(p[2]) PROVE n[2] \in Partitions
    BY <1>2 DEF Collected
  <2>1. p[2] \in Frames
    BY <1>3 DEF ReaderOK
  <2>. QED BY <2>1, NameInNames DEF NamesOf, Names
<1>. QED
  BY <1>1, <1>2, <1>3, <1>4
  DEF RInv, Unique, Watched, Past, Untouched, Settled, RaisesOverlap

\* One partition is listed, as it is at that moment.
LEMMA ListKeeps ==
  ASSUME RInv, List
  PROVE  RInv'
<1>0. IInv /\ ReaderOK /\ TypeOK /\ UNCHANGED vars
  BY DEF RInv, List, IInv
<1>1. IInv'
  BY <1>0, IInvStep
<1>2. PICK d \in unlisted :
        /\ unlisted' = unlisted \ {d}
        /\ listed' = listed \cup {<<n, parts[n]>> : n \in {m \in Present : m[2] = d}}
  BY DEF List
<1>3. /\ rpc = "list" /\ rpc' = "list" /\ seen' = seen /\ missing' = missing
      /\ appended' = appended /\ overlapping' = overlapping
      /\ answered' = answered /\ parts' = parts /\ spoiled' = spoiled
      /\ RunningCalls' = RunningCalls
  BY <1>0 DEF List, vars, arg, RunningCalls
<1>4. \A m \in Present : m \in Names /\ parts[m] \in 1..MaxCalls
  BY <1>0 DEF Present, TypeOK
<1>5. ReaderOK'
  BY <1>0, <1>2, <1>3, <1>4 DEF ReaderOK
<1>6. Settled'
  <2>. SUFFICES ASSUME NEW m \in Present
                PROVE  \/ parts[m] \in overlapping \/ m[1] \in spoiled
                       \/ \E p \in appended : p[1] = parts[m]
    BY <1>2, <1>3 DEF RInv, Settled
  <2>. QED BY <1>0, <1>3, PartsHaveOwners DEF RInv, Watched
<1>7. Collected'
  <2>. SUFFICES ASSUME NEW p \in appended, NEW n \in NamesOf(p[2]), n[2] = d
                PROVE  <<n, p[1]>> \in listed'
    BY <1>2, <1>3 DEF RInv, Collected
  <2>1. PICK a \in answered : a[3] = "ok" /\ p = <<a[1], a[2]>>
    BY DEF RInv, Past
  <2>2. parts[n] = a[1] /\ a[1] \in Nat /\ a[2] \in Frames
    BY <1>0, <2>1 DEF IInv, AppendedStays, TypeOK
  <2>3. n \in Names
    BY <2>1, <2>2, NameInNames DEF NamesOf
  <2>4. n \in Present
    BY <2>2, <2>3, NoneAssumption DEF Present
  <2>. QED BY <2>1, <2>2, <2>4, <1>2
<1>. QED
  BY <1>1, <1>2, <1>3, <1>5, <1>6, <1>7
  DEF RInv, Unique, Watched, Past, Untouched, RaisesOverlap

\* A listed file is opened, under its name.
LEMMA OpenKeeps ==
  ASSUME RInv, Open
  PROVE  RInv'
<1>0. IInv /\ ReaderOK /\ TypeOK /\ UNCHANGED vars
  BY DEF RInv, Open, IInv
<1>1. IInv'
  BY <1>0, IInvStep
<1>2. PICK q \in listed :
        /\ listed' = listed \ {q}
        /\ \/ /\ parts[q[1]] # None
              /\ seen' = seen \cup {<<q[1], parts[q[1]]>>}
              /\ rpc' = "read" /\ missing' = missing
           \/ /\ parts[q[1]] = None
              /\ rpc' = "raised" /\ missing' = q /\ seen' = seen
  BY DEF Open
<1>3. /\ rpc = "read" /\ unlisted' = unlisted
      /\ appended' = appended /\ overlapping' = overlapping
      /\ answered' = answered /\ parts' = parts /\ spoiled' = spoiled
      /\ RunningCalls' = RunningCalls
  BY <1>0 DEF Open, vars, arg, RunningCalls
<1>4. q \in Names \X (1..MaxCalls) /\ q[1] \in Names /\ q[2] \in Nat
  BY <1>0 DEF ReaderOK
<1>5. Unique' /\ Watched' /\ Past' /\ Untouched'
  BY <1>2, <1>3 DEF RInv, Unique, Watched, Past, Untouched
<1>6. CASE parts[q[1]] # None
  <2>1. q[1] \in Present /\ parts[q[1]] \in 1..MaxCalls
    BY <1>4, <1>6, <1>0 DEF Present, TypeOK
  <2>2. seen' = seen \cup {<<q[1], parts[q[1]]>>} /\ rpc' = "read" /\ missing' = missing
    BY <1>2, <1>6
  <2>3. ReaderOK'
    BY <1>0, <1>2, <1>3, <1>4, <2>1, <2>2 DEF ReaderOK
  <2>4. \/ parts[q[1]] \in overlapping \/ q[1][1] \in spoiled
        \/ \E p \in appended : p[1] = parts[q[1]]
    BY <1>0, <1>3, <2>1, PartsHaveOwners DEF RInv, Watched
  <2>5. Settled'
    BY <1>2, <1>3, <2>2, <2>4 DEF RInv, Settled
  <2>6. Collected'
    <3>. SUFFICES ASSUME NEW p \in appended, NEW n \in NamesOf(p[2])
                  PROVE  <<n, p[1]>> \in listed' \cup seen'
      BY <1>3, <2>2 DEF Collected
    <3>1. <<n, p[1]>> \in listed \cup seen
      BY <1>3 DEF RInv, Collected
    <3>2. PICK a \in answered : a[3] = "ok" /\ p = <<a[1], a[2]>>
      BY DEF RInv, Past
    <3>3. parts[n] = p[1]
      BY <1>0, <3>2 DEF IInv, AppendedStays
    <3>. QED BY <3>1, <3>3, <1>2, <2>2
  <2>. QED BY <1>1, <1>5, <2>2, <2>3, <2>5, <2>6 DEF RInv, RaisesOverlap
<1>7. CASE parts[q[1]] = None
  <2>1. rpc' = "raised" /\ missing' = q /\ seen' = seen
    BY <1>2, <1>7
  <2>2. q[2] \in overlapping
    BY <1>4, <1>7, NoneAssumption DEF RInv, Untouched
  <2>3. ReaderOK'
    BY <1>0, <1>2, <1>3, <1>4, <2>1 DEF ReaderOK
  <2>. QED
    BY <1>1, <1>2, <1>3, <1>5, <2>1, <2>2, <2>3 DEF RInv, Settled, Collected, RaisesOverlap
<1>. QED BY <1>6, <1>7

\* The listing ends, the result is complete, the result is handed over.
LEMMA TurnKeeps ==
  ASSUME RInv, Listed \/ ReadAll \/ Forget
  PROVE  RInv'
<1>0. IInv /\ ReaderOK /\ UNCHANGED vars
  BY DEF RInv, Listed, ReadAll, Forget
<1>1. IInv'
  BY <1>0, IInvStep
<1>2. answered' = answered /\ parts' = parts /\ spoiled' = spoiled /\ RunningCalls' = RunningCalls
  BY <1>0 DEF vars, arg, RunningCalls
<1>3. CASE Listed
  BY <1>0, <1>1, <1>2, <1>3
  DEF Listed, RInv, ReaderOK, Unique, Watched, Past, Untouched, Settled, Collected, RaisesOverlap
<1>4. CASE ReadAll
  BY <1>0, <1>1, <1>2, <1>4
  DEF ReadAll, RInv, ReaderOK, Unique, Watched, Past, Untouched, Settled, Collected, RaisesOverlap
<1>5. CASE Forget
  BY <1>0, <1>1, <1>2, <1>5
  DEF Forget, RInv, ReaderOK, Unique, Watched, Past, Untouched, Settled, Collected, RaisesOverlap
<1>. QED BY <1>3, <1>4, <1>5

LEMMA RInvStep == RInv /\ [ReadNext]_readVars => RInv'
<1>. SUFFICES ASSUME RInv, [ReadNext]_readVars PROVE RInv'
  OBVIOUS
<1>1. CASE UNCHANGED readVars
  <2>1. IInv' /\ UNCHANGED <<rpc, unlisted, listed, seen, missing, appended, overlapping,
                             answered, parts, spoiled>> /\ RunningCalls' = RunningCalls
    BY <1>1, IInvStep DEF RInv, readVars, reader, vars, arg, hist, RunningCalls
  <2>. QED
    BY <2>1
    DEF RInv, ReaderOK, Unique, Watched, Past, Untouched, Settled, Collected, RaisesOverlap
<1>. QED
  BY <1>1, AppendingKeeps, QueryKeeps, ListKeeps, OpenKeeps, TurnKeeps DEF ReadNext, Reading

------------------------------------------------------------------------------
\* The reader's variables and those of the appends keep their shape.
THEOREM ReaderTypeCorrect == ReadSpec => []ReadTypeOK
<1>1. RInv => ReadTypeOK
  BY DEF RInv, IInv, ReaderOK, ReadTypeOK
<1>. QED BY <1>1, RInvInit, RInvStep, PTL DEF ReadSpec

\* A query that returns has every part of every batch whose append had returned when it
\* began, whatever other appends do meanwhile.
THEOREM AppendsAreRead == ReadSpec => []AppendedIsRead
<1>1. RInv => AppendedIsRead
  BY DEF RInv, Collected, AppendedIsRead
<1>. QED BY <1>1, RInvInit, RInvStep, PTL DEF ReadSpec

\* A result holds half of an append only if the append ran beside the query or was
\* spoiled by a fault.
THEOREM HalvesOverlap == ReadSpec => []HalfReadsOverlap
<1>1. RInv => HalfReadsOverlap
  <2>. SUFFICES ASSUME RInv, rpc = "returned", NEW s \in seen,
                       s[2] \notin overlapping, s[1][1] \notin spoiled,
                       NEW n \in NamesOf(FrameOf(s[2]))
                PROVE  <<n, s[2]>> \in seen
    BY DEF HalfReadsOverlap
  <2>1. PICK p \in appended : p[1] = s[2]
    BY DEF RInv, Settled
  <2>2. PICK a \in answered : a[3] = "ok" /\ p = <<a[1], a[2]>>
    BY DEF RInv, Past
  <2>3. FrameOf(s[2]) = p[2]
    <3>1. a[1] = s[2] /\ a[2] = p[2]
      BY <2>1, <2>2
    <3>2. (CHOOSE b \in answered : b[1] = s[2]) = a
      BY <3>1 DEF RInv, Unique
    <3>. QED BY <3>1, <3>2 DEF FrameOf
  <2>. QED BY <2>1, <2>3 DEF RInv, Collected
<1>. QED BY <1>1, RInvInit, RInvStep, PTL DEF ReadSpec

\* A query raises over a missing part only if the call that had linked the part ran
\* beside the query.
THEOREM RaisesNeedOverlap == ReadSpec => []RaisesOverlap
<1>1. RInv => RaisesOverlap
  BY DEF RInv
<1>. QED BY <1>1, RInvInit, RInvStep, PTL DEF ReadSpec
===============================================================================
