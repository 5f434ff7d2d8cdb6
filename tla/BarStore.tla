------------------------------- MODULE BarStore -------------------------------
(***************************************************************************)
(* ParquetBarStore.append (data/storage/market_bars.py): concurrent calls  *)
(* that add the canonical bars of one batch to a partitioned dataset.  A   *)
(* call looks for earlier parts of its batch, stages one temporary file    *)
(* per partition, hard-links every part into place, and unlinks what it    *)
(* linked when an exception interrupts it.                                 *)
(*                                                                         *)
(* A part is known by its name and by the call that linked it.             *)
(***************************************************************************)
EXTENDS Naturals, Sequences, FiniteSets

CONSTANTS
  Writers,      \* threads or processes calling append()
  Batches,      \* batch ids
  Partitions,   \* (timeframe, year, month) groups, numbered in sort order
  MaxCalls,     \* BOUND: calls of append()
  MaxFaults,    \* BOUND: kills, interrupts and failing file operations together
  None          \* absent

ASSUME ConstantsAssumption ==
  /\ Partitions \in SUBSET Nat /\ IsFiniteSet(Partitions)
  /\ MaxCalls \in Nat /\ MaxFaults \in Nat

MaxGroups == Cardinality(Partitions)

\* A frame's groups in partition order; Names are part-<batch>-<ordinal>.parquet
\* inside the partition's directory.
Groups == {g \in UNION {[1..n -> Partitions] : n \in 0..MaxGroups} :
             \A i, j \in DOMAIN g : i < j => g[i] < g[j]}
Frames == [batch: Batches, stamp: Batches \cup {None}, groups: Groups]
Names == Batches \X Partitions \X (1..MaxGroups)
Name(f, i) == <<f.batch, f.groups[i], i>>
NamesOf(f) == {Name(f, i) : i \in 1..Len(f.groups)}

ASSUME NoneAssumption == None \notin Frames /\ None \notin Nat

VARIABLES
  parts,       \* name -> id of the call that linked the part, or None
  temps,       \* temporary files on disk: <<id of the call that wrote it, ordinal>>
  pc,          \* where each call is
  frame,       \* the frame each call was given
  id,          \* each call's number
  unseen,      \* partitions the preflight search has still to visit
  staged,      \* how many groups have a recorded temporary
  linked,      \* how many groups have been linked
  undone,      \* how many of those the rollback has unlinked
  unstaged,    \* how many temporaries the finally block has removed
  outcome,     \* what each call is about to return or raise
  answered,    \* HISTORY: <<id, frame, outcome>> of finished calls
  before,      \* HISTORY: <<name, linking call>> of the parts there when each call began
  spoiled,     \* HISTORY: batches of calls cut short while parts of theirs were visible
  hits,        \* HISTORY: <<id, kind>>, the fault that hit a call
  calls, faults

vars == <<parts, temps, pc, frame, id, unseen, staged, linked, undone, unstaged,
          outcome, answered, before, spoiled, hits, calls, faults>>
arg == <<frame, id, before>>
hist == <<answered, spoiled, hits>>

Init ==
  /\ parts = [n \in Names |-> None]
  /\ temps = {}
  /\ pc = [w \in Writers |-> "idle"]
  /\ frame = [w \in Writers |-> None]
  /\ id = [w \in Writers |-> 0]
  /\ unseen = [w \in Writers |-> {}]
  /\ staged = [w \in Writers |-> 0]
  /\ linked = [w \in Writers |-> 0]
  /\ undone = [w \in Writers |-> 0]
  /\ unstaged = [w \in Writers |-> 0]
  /\ outcome = [w \in Writers |-> "none"]
  /\ answered = {}
  /\ before = [w \in Writers |-> {}]
  /\ spoiled = {}
  /\ hits = {}
  /\ calls = 0
  /\ faults = 0

Present == {n \in Names : parts[n] # None}
PartsOf(b) == {n \in Present : n[1] = b}
Goto(w, label) == pc' = [pc EXCEPT ![w] = label]
Conclude(w, label, result) ==
  /\ Goto(w, label)
  /\ outcome' = [outcome EXCEPT ![w] = result]
Groupings(w) == Len(frame[w].groups)

------------------------------------------------------------------------------
\* append(frame, batch_id): an empty frame, a frame that fails the canonical
\* schema (stamp None) and rows of another raw batch are refused at once.
Begin(w) ==
  /\ pc[w] = "idle"
  /\ calls < MaxCalls
  /\ calls' = calls + 1
  /\ \E f \in Frames :
       /\ frame' = [frame EXCEPT ![w] = f]
       /\ unseen' = [unseen EXCEPT ![w] = Partitions]
       /\ IF f.groups # <<>> /\ f.stamp = f.batch
            THEN Goto(w, "preflight") /\ UNCHANGED outcome
            ELSE Conclude(w, "unstage", "rejected")
  /\ id' = [id EXCEPT ![w] = calls + 1]
  /\ before' = [before EXCEPT ![w] = {<<n, parts[n]>> : n \in Present}]
  /\ UNCHANGED <<parts, temps, staged, linked, undone, unstaged, hist, faults>>

\* MUTANT: no search for the batch, only its own target names are checked.
PreflightSkipped(w) ==
  /\ pc[w] = "preflight"
  /\ unseen[w] # {}
  /\ unseen' = [unseen EXCEPT ![w] = {}]
  /\ UNCHANGED <<parts, temps, pc, arg, staged, linked, undone, unstaged, outcome, hist,
                 calls, faults>>

\* The recursive search for part-<batch>-*, one directory at a time and in any
\* order; the first hit raises BarBatchAlreadyExistsError.
Preflight(w) ==
  /\ pc[w] = "preflight"
  /\ \E p \in unseen[w] :
       /\ unseen' = [unseen EXCEPT ![w] = @ \ {p}]
       /\ IF \E n \in PartsOf(frame[w].batch) : n[2] = p
            THEN Conclude(w, "unstage", "exists")
            ELSE UNCHANGED <<pc, outcome>>
  /\ UNCHANGED <<parts, temps, arg, staged, linked, undone, unstaged, hist, calls, faults>>

\* if any target already exists: refuse to overwrite it
CheckTargets(w) ==
  /\ pc[w] = "preflight"
  /\ unseen[w] = {}
  /\ IF NamesOf(frame[w]) \cap Present # {}
       THEN Conclude(w, "unstage", "exists")
       ELSE Goto(w, "stage") /\ UNCHANGED outcome
  /\ UNCHANGED <<parts, temps, arg, unseen, staged, linked, undone, unstaged, hist,
                 calls, faults>>

\* write_parquet begins the next temporary file; it is recorded when it is complete.
WriteTemporary(w) ==
  /\ pc[w] = "stage"
  /\ staged[w] < Groupings(w)
  /\ <<id[w], staged[w] + 1>> \notin temps
  /\ temps' = temps \cup {<<id[w], staged[w] + 1>>}
  /\ UNCHANGED <<parts, pc, arg, unseen, staged, linked, undone, unstaged, outcome, hist,
                 calls, faults>>

\* staged.append((temporary, target))
Stage(w) ==
  /\ pc[w] = "stage"
  /\ staged[w] < Groupings(w)
  /\ <<id[w], staged[w] + 1>> \in temps
  /\ staged' = [staged EXCEPT ![w] = @ + 1]
  /\ UNCHANGED <<parts, temps, pc, arg, unseen, linked, undone, unstaged, outcome, hist,
                 calls, faults>>

\* MUTANT: each part is linked as soon as it is staged.
LinkAsStaged(w) ==
  LET name == Name(frame[w], linked[w] + 1)
  IN /\ pc[w] = "stage"
     /\ linked[w] < staged[w]
     /\ parts[name] = None
     /\ parts' = [parts EXCEPT ![name] = id[w]]
     /\ linked' = [linked EXCEPT ![w] = @ + 1]
     /\ UNCHANGED <<temps, pc, arg, unseen, staged, undone, unstaged, outcome, hist,
                    calls, faults>>

\* MUTANT: an occupied name ends the call without unlinking what it linked.
LinkNoRollback(w) ==
  LET name == Name(frame[w], linked[w] + 1)
  IN /\ pc[w] = "stage"
     /\ staged[w] = Groupings(w)
     /\ linked[w] < Groupings(w)
     /\ IF parts[name] = None
          THEN /\ parts' = [parts EXCEPT ![name] = id[w]]
               /\ linked' = [linked EXCEPT ![w] = @ + 1]
               /\ UNCHANGED <<pc, outcome>>
          ELSE /\ Conclude(w, "unstage", "error")
               /\ UNCHANGED <<parts, linked>>
     /\ UNCHANGED <<temps, arg, unseen, staged, undone, unstaged, hist, calls, faults>>

\* MUTANT: an occupied name is waited for.
LinkWaits(w) ==
  LET name == Name(frame[w], linked[w] + 1)
  IN /\ pc[w] = "stage"
     /\ staged[w] = Groupings(w)
     /\ linked[w] < Groupings(w)
     /\ parts[name] = None
     /\ parts' = [parts EXCEPT ![name] = id[w]]
     /\ linked' = [linked EXCEPT ![w] = @ + 1]
     /\ UNCHANGED <<temps, pc, arg, unseen, staged, undone, unstaged, outcome, hist,
                    calls, faults>>

\* MUTANT: the temporary is moved into place instead of linked.
LinkMoves(w) ==
  LET name == Name(frame[w], linked[w] + 1)
  IN /\ pc[w] = "stage"
     /\ staged[w] = Groupings(w)
     /\ linked[w] < Groupings(w)
     /\ IF parts[name] = None
          THEN /\ parts' = [parts EXCEPT ![name] = id[w]]
               /\ temps' = temps \ {<<id[w], linked[w] + 1>>}
               /\ linked' = [linked EXCEPT ![w] = @ + 1]
               /\ UNCHANGED <<pc, outcome>>
          ELSE /\ Conclude(w, "rollback", "error")
               /\ UNCHANGED <<parts, temps, linked>>
     /\ UNCHANGED <<arg, unseen, staged, undone, unstaged, hist, calls, faults>>

\* os.link: exclusive creation.  An occupied name raises into the rollback.
Link(w) ==
  LET name == Name(frame[w], linked[w] + 1)
  IN /\ pc[w] = "stage"
     /\ staged[w] = Groupings(w)
     /\ linked[w] < Groupings(w)
     /\ IF parts[name] = None
          THEN /\ parts' = [parts EXCEPT ![name] = id[w]]
               /\ linked' = [linked EXCEPT ![w] = @ + 1]
               /\ UNCHANGED <<pc, outcome>>
          ELSE /\ Conclude(w, "rollback", "error")
               /\ UNCHANGED <<parts, linked>>
     /\ UNCHANGED <<temps, arg, unseen, staged, undone, unstaged, hist, calls, faults>>

Published(w) ==
  /\ pc[w] = "stage"
  /\ linked[w] = Groupings(w)
  /\ Conclude(w, "unstage", "ok")
  /\ UNCHANGED <<parts, temps, arg, unseen, staged, linked, undone, unstaged, hist,
                 calls, faults>>

\* MUTANT: the rollback unlinks every target of the frame.
RollbackTargets(w) ==
  /\ pc[w] = "rollback"
  /\ IF undone[w] < Groupings(w)
       THEN /\ parts' = [parts EXCEPT ![Name(frame[w], undone[w] + 1)] = None]
            /\ undone' = [undone EXCEPT ![w] = @ + 1]
            /\ UNCHANGED pc
       ELSE Goto(w, "unstage") /\ UNCHANGED <<parts, undone>>
  /\ UNCHANGED <<temps, arg, unseen, staged, linked, unstaged, outcome, hist, calls, faults>>

\* MUTANT: the error is re-raised and nothing is unlinked.
RollbackNothing(w) ==
  /\ pc[w] = "rollback"
  /\ Goto(w, "unstage")
  /\ UNCHANGED <<parts, temps, arg, unseen, staged, linked, undone, unstaged, outcome, hist,
                 calls, faults>>

\* except Exception: unlink, in order, each part this call linked, then re-raise.
Rollback(w) ==
  /\ pc[w] = "rollback"
  /\ IF undone[w] < linked[w]
       THEN /\ parts' = [parts EXCEPT ![Name(frame[w], undone[w] + 1)] = None]
            /\ undone' = [undone EXCEPT ![w] = @ + 1]
            /\ UNCHANGED pc
       ELSE Goto(w, "unstage") /\ UNCHANGED <<parts, undone>>
  /\ UNCHANGED <<temps, arg, unseen, staged, linked, unstaged, outcome, hist, calls, faults>>

\* finally: remove the recorded temporaries.
Unstage(w) ==
  /\ pc[w] = "unstage"
  /\ unstaged[w] < staged[w]
  /\ unstaged' = [unstaged EXCEPT ![w] = @ + 1]
  /\ temps' = temps \ {<<id[w], unstaged[w] + 1>>}
  /\ UNCHANGED <<parts, pc, arg, unseen, staged, linked, undone, outcome, hist,
                 calls, faults>>

\* The call leaves the process with this result and forgets everything.
Finish(w, result) ==
  /\ answered' = answered \cup {<<id[w], frame[w], result>>}
  /\ pc' = [pc EXCEPT ![w] = "idle"]
  /\ frame' = [frame EXCEPT ![w] = None]
  /\ id' = [id EXCEPT ![w] = 0]
  /\ unseen' = [unseen EXCEPT ![w] = {}]
  /\ staged' = [staged EXCEPT ![w] = 0]
  /\ linked' = [linked EXCEPT ![w] = 0]
  /\ undone' = [undone EXCEPT ![w] = 0]
  /\ unstaged' = [unstaged EXCEPT ![w] = 0]
  /\ outcome' = [outcome EXCEPT ![w] = "none"]
  /\ before' = [before EXCEPT ![w] = {}]

Return(w) ==
  /\ pc[w] = "unstage"
  /\ unstaged[w] = staged[w]
  /\ Finish(w, outcome[w])
  /\ UNCHANGED <<parts, temps, spoiled, hits, calls, faults>>

------------------------------------------------------------------------------
Hit(w, kind) == hits' = hits \cup {<<id[w], kind>>}
CutShort(w) ==
  spoiled' = spoiled \cup (IF undone[w] < linked[w] THEN {frame[w].batch} ELSE {})

\* write_parquet raises, before or while it writes: the file is not recorded.
FailStage(w) ==
  /\ pc[w] = "stage" /\ staged[w] < Groupings(w)
  /\ Hit(w, "write")
  /\ Conclude(w, "rollback", "error")
  /\ UNCHANGED <<parts, temps, arg, unseen, staged, linked, undone, unstaged, answered,
                 spoiled>>

\* os.link fails for another reason than an occupied name.
FailLink(w) ==
  /\ pc[w] = "stage" /\ staged[w] = Groupings(w) /\ linked[w] < Groupings(w)
  /\ Hit(w, "link")
  /\ Conclude(w, "rollback", "error")
  /\ UNCHANGED <<parts, temps, arg, unseen, staged, linked, undone, unstaged, answered,
                 spoiled>>

\* An unlink fails inside the except block: the remaining parts stay.
FailRollback(w) ==
  /\ pc[w] = "rollback" /\ undone[w] < linked[w]
  /\ Hit(w, "rollback") /\ CutShort(w)
  /\ Goto(w, "unstage")
  /\ UNCHANGED <<parts, temps, arg, unseen, staged, linked, undone, unstaged, outcome,
                 answered>>

\* An unlink fails inside the finally block: its error replaces the result, also
\* when every part has been published.
FailUnstage(w) ==
  /\ pc[w] = "unstage" /\ unstaged[w] < staged[w]
  /\ Hit(w, "unstage") /\ CutShort(w)
  /\ Finish(w, "error")
  /\ UNCHANGED <<parts, temps>>

\* KeyboardInterrupt is no Exception: the rollback is skipped, finally is not.
Interrupt(w) ==
  /\ pc[w] \in {"preflight", "stage", "rollback"}
  /\ Hit(w, "interrupt") /\ CutShort(w)
  /\ Conclude(w, "unstage", "interrupted")
  /\ UNCHANGED <<parts, temps, arg, unseen, staged, linked, undone, unstaged, answered>>

\* In the finally block it ends the call like a failing unlink.
InterruptUnstage(w) ==
  /\ pc[w] = "unstage"
  /\ Hit(w, "unstage") /\ CutShort(w)
  /\ Finish(w, "interrupted")
  /\ UNCHANGED <<parts, temps>>

\* The process dies.
Kill(w) ==
  /\ pc[w] # "idle"
  /\ Hit(w, "kill") /\ CutShort(w)
  /\ Finish(w, "killed")
  /\ UNCHANGED <<parts, temps>>

Fault(w) ==
  /\ faults < MaxFaults
  /\ faults' = faults + 1
  /\ \/ FailStage(w) \/ FailLink(w) \/ FailRollback(w) \/ FailUnstage(w)
     \/ Interrupt(w) \/ InterruptUnstage(w) \/ Kill(w)
  /\ UNCHANGED calls

------------------------------------------------------------------------------
Progress(w) ==
  \/ Preflight(w) \/ CheckTargets(w) \/ WriteTemporary(w) \/ Stage(w) \/ Link(w)
  \/ Published(w) \/ Rollback(w) \/ Unstage(w) \/ Return(w)

Next == \E w \in Writers : Begin(w) \/ Progress(w) \/ Fault(w)

\* A running call keeps running.
Fairness == \A w \in Writers : WF_vars(Progress(w))

Spec == Init /\ [][Next]_vars
FairSpec == Spec /\ Fairness

------------------------------------------------------------------------------
Results == {"ok", "exists", "error", "rejected", "interrupted", "killed"}
Kinds == {"write", "link", "rollback", "unstage", "interrupt", "kill"}
Counts == 0..MaxGroups

Nested(w) ==
  /\ pc[w] = "idle" <=> frame[w] = None
  /\ pc[w] \in {"rollback", "unstage"} <=> outcome[w] # "none"
  /\ undone[w] <= linked[w] /\ linked[w] <= staged[w] /\ unstaged[w] <= staged[w]
  /\ frame[w] = None => staged[w] = 0
  /\ frame[w] # None =>
       /\ id[w] \in 1..MaxCalls
       /\ staged[w] <= Groupings(w)
       /\ linked[w] > 0 => staged[w] = Groupings(w)

\* Every variable keeps its shape, and the progress counters of a call are nested:
\* nothing is linked before everything is staged, or unlinked before it is linked.
TypeOK ==
  /\ parts \in [Names -> 1..MaxCalls \cup {None}]
  /\ temps \subseteq (1..MaxCalls) \X Counts
  /\ pc \in [Writers -> {"idle", "preflight", "stage", "rollback", "unstage"}]
  /\ frame \in [Writers -> Frames \cup {None}]
  /\ id \in [Writers -> 0..MaxCalls]
  /\ unseen \in [Writers -> SUBSET Partitions]
  /\ staged \in [Writers -> Counts] /\ linked \in [Writers -> Counts]
  /\ undone \in [Writers -> Counts] /\ unstaged \in [Writers -> Counts]
  /\ outcome \in [Writers -> Results \cup {"none"}]
  /\ answered \subseteq (1..MaxCalls) \X Frames \X Results
  /\ before \in [Writers -> SUBSET (Names \X (1..MaxCalls))]
  /\ spoiled \subseteq Batches /\ hits \subseteq (1..MaxCalls) \X Kinds
  /\ calls \in 0..MaxCalls /\ faults \in 0..MaxFaults
  /\ \A w \in Writers : Nested(w)

\* A batch that append() returned for stays readable: no other call's rollback, and
\* no later append of the same batch, removes or replaces one of its parts.
AppendedStays ==
  \A a \in answered : a[3] = "ok" => \A n \in NamesOf(a[2]) : parts[n] = a[1]

\* All or nothing: with no call for the batch running, and unless a kill, an
\* interrupt or a failing unlink hit one of its calls while parts of that call were
\* visible, the parts of a batch are exactly those of the appends that returned, so a
\* failed append has left none.
AllOrNothing ==
  \A b \in Batches \ spoiled :
    (\A w \in Writers : frame[w] # None => frame[w].batch # b) =>
      PartsOf(b) = UNION {NamesOf(a[2]) : a \in {c \in answered : c[3] = "ok" /\ c[2].batch = b}}

\* An append never adds a part next to an older part of its batch, whatever
\* partitions it covers: no part that was there when the call began is still there
\* when it links.  A half-published batch left by a crash is refused, not completed.
NeverExtends ==
  [][\A w \in Writers : linked'[w] > linked[w] =>
       \A q \in before[w] : q[1][1] = frame[w].batch => parts[q[1]] # q[2]]_vars

Hits(c) == {kind \in Kinds : <<c, kind>> \in hits}
PartsBy(c) == {n \in Present : parts[n] = c}
TempsBy(c) == {i \in 1..MaxGroups : <<c, i>> \in temps}

LeftBy(a) ==
  LET own == PartsBy(a[1])
      all == NamesOf(a[2])
      tmp == TempsBy(a[1])
  IN /\ Hits(a[1]) \cap {"interrupt", "rollback"} = {} =>
          own \in {{}, all} \/ tmp = 1..Len(a[2].groups)
     /\ Hits(a[1]) \cap {"interrupt", "rollback", "unstage", "kill"} = {} =>
          own = IF a[3] = "ok" THEN all ELSE {}
     /\ Hits(a[1]) \cap {"unstage", "kill"} = {} =>
          \/ tmp = {}
          \/ /\ own = {} /\ \A i, j \in tmp : i = j
             /\ Hits(a[1]) \cap {"write", "interrupt"} # {}

\* What a finished call leaves behind, by what hit it, for as long as the store exists:
\*   - half of a batch is never all that is left of it: unless its rollback was skipped
\*     by an interrupt or broken off by a failing unlink, a call whose parts are neither
\*     complete nor gone left every one of its temporaries, wherever it was killed;
\*   - an error, also one after a failed write or a failed link, leaves no part, but for
\*     an unlink that failed in finally, which may follow a complete publication;
\*   - finally removes every temporary but the one file that an error or an interrupt
\*     found unrecorded, and then the call has published nothing.
Remains == \A a \in answered : LeftBy(a)

\* Every call of append() that is not killed returns or raises.
CallsEnd == \A w \in Writers : pc[w] # "idle" ~> pc[w] = "idle"
===============================================================================
