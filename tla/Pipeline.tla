------------------------------- MODULE Pipeline -------------------------------
(***************************************************************************)
(* EphemeralBarPipeline.process (data/phase1_bakeoff.py): one provider     *)
(* page from raw evidence to verified rows.  write -> replay -> normalise  *)
(* -> validate -> append -> query -> compare, any of which may raise or be *)
(* cut off by the death of the process; the same batch may be tried again. *)
(*                                                                         *)
(* The two stores are taken at what RawStore and BarStore establish: a     *)
(* write-once map, and an append that a kill may leave half done.          *)
(***************************************************************************)
EXTENDS Naturals, Sequences, FiniteSets

CONSTANTS
  Batches,      \* raw batch ids
  Keys,         \* observation keys (instrument, interval, ...)
  Rules,        \* the rules one row can break on its own
  MaxRecords,   \* BOUND: records in a page
  MaxAttempts,  \* BOUND: calls of process()
  MaxFaults,    \* BOUND: kills and failing steps together
  NotJson,      \* a payload no normaliser can parse
  None          \* absent

RuleOrder == <<"ohlc_inconsistent", "negative_volume", "duplicate_bar",
               "non_positive_price", "unexpected_duration">>
TextOrder == <<"duplicate_bar", "negative_volume", "non_positive_price",
               "ohlc_inconsistent", "unexpected_duration">>

ASSUME ConstantsAssumption ==
  /\ Rules \subseteq {RuleOrder[i] : i \in 1..5} \ {"duplicate_bar"}
  /\ MaxRecords \in Nat /\ MaxAttempts \in Nat /\ MaxFaults \in Nat

\* A record the normaliser maps, or one (of no key) that it rejects with an issue.
Records == [key: Keys, breaks: SUBSET Rules] \cup {[key |-> None, breaks |-> {}]}
Pages == {NotJson} \cup UNION {[1..n -> Records] : n \in 0..MaxRecords}

ASSUME NoneAssumption == None \notin Pages \cup Keys \cup Batches

Kept(flags, order) == SelectSeq(order, LAMBDA r : r \in flags)

\* normalizer, price_bars_to_frame: the bars of a page, in its order.
Bars(page) == SelectSeq(page, LAMBDA r : r.key # None)

\* _rule_masks: what one bar breaks, duplicates of its key included.
Broken(bs, i) ==
  bs[i].breaks \cup
    (IF \E j \in DOMAIN bs \ {i} : bs[j].key = bs[i].key THEN {"duplicate_bar"} ELSE {})

Frame(bs, order) ==
  [i \in DOMAIN bs |-> [key |-> bs[i].key, flags |-> Kept(Broken(bs, i), order)]]

\* MUTANT: rows with an error are removed.
AnnotatedClean(page) ==
  Frame(SelectSeq(Bars(page), LAMBDA b : b.breaks = {}), RuleOrder)

\* validate_bars: every bar stays, with its flags in rule order.
Annotated(page) == Frame(Bars(page), RuleOrder)

\* _coerce_canonical_frame, on the way into and out of the store: flags in text order.
Canonical(rows) ==
  [i \in DOMAIN rows |->
     [rows[i] EXCEPT !.flags = Kept({@[j] : j \in DOMAIN @}, TextOrder)]]

VARIABLES
  source,      \* batch -> the page its payload holds
  raw,         \* batch -> the page published in the raw store, or None
  stored,      \* batch -> the rows readable in the bar store, <<>> if none
  pc,
  batch,       \* the batch being processed
  rows,        \* validated.frame
  returned,    \* HISTORY: batches process() returned for, with the bars it replayed
  failed,      \* HISTORY: <<batch, error>> that process() raised
  attempts, faults

vars == <<source, raw, stored, pc, batch, rows, returned, failed, attempts, faults>>
stores == <<source, raw, stored>>
bounds == <<attempts, faults>>

Init ==
  /\ source \in [Batches -> Pages]
  /\ raw = [b \in Batches |-> None]
  /\ stored = [b \in Batches |-> <<>>]
  /\ pc = "idle"
  /\ batch = None
  /\ rows = <<>>
  /\ returned = {}
  /\ failed = {}
  /\ attempts = 0
  /\ faults = 0

\* MUTANT: the validated frame outlives the call.
DoneKeepsRows == pc' = "idle" /\ batch' = None /\ UNCHANGED rows

Done == pc' = "idle" /\ batch' = None /\ rows' = <<>>
Raise(error) == Done /\ failed' = failed \cup {<<batch, error>>}

Begin ==
  /\ pc = "idle"
  /\ attempts < MaxAttempts
  /\ attempts' = attempts + 1
  /\ batch' \in Batches
  /\ pc' = "write"
  /\ UNCHANGED <<stores, rows, returned, failed, faults>>

\* MUTANT: interpret first, keep the evidence only of pages that parse.
WriteParsed ==
  /\ pc = "write"
  /\ raw' = IF source[batch] = NotJson THEN raw
            ELSE [raw EXCEPT ![batch] = source[batch]]
  /\ pc' = "normalise"
  /\ UNCHANGED <<source, stored, batch, rows, returned, failed, bounds>>

\* RawBatchStore.write: published, or found there from an earlier attempt.
Write ==
  /\ pc = "write"
  /\ raw' = [raw EXCEPT ![batch] = source[batch]]
  /\ pc' = "normalise"
  /\ UNCHANGED <<source, stored, batch, rows, returned, failed, bounds>>

\* replay_raw_artifact, the normaliser, price_bars_to_frame and validate_bars.
Normalise ==
  /\ pc = "normalise"
  /\ IF source[batch] = NotJson
       THEN Raise("not json")
       ELSE /\ rows' = Annotated(raw[batch])
            /\ pc' = "append"
            /\ UNCHANGED <<batch, failed>>
  /\ UNCHANGED <<stores, returned, bounds>>

\* MUTANT: a batch that is already stored counts as appended.
StoreOrSkip ==
  /\ pc = "append"
  /\ stored' = IF stored[batch] = <<>>
                 THEN [stored EXCEPT ![batch] = Canonical(rows)] ELSE stored
  /\ pc' = "compare"
  /\ UNCHANGED <<source, raw, batch, rows, returned, failed, bounds>>

\* ParquetBarStore.append of a page that has rows.
Store ==
  /\ pc = "append" /\ rows # <<>>
  /\ IF stored[batch] = <<>>
       THEN /\ stored' = [stored EXCEPT ![batch] = Canonical(rows)]
            /\ pc' = "compare"
            /\ UNCHANGED <<batch, rows, failed>>
       ELSE Raise("exists") /\ UNCHANGED stored
  /\ UNCHANGED <<source, raw, returned, bounds>>

\* A page without rows is not appended.
SkipEmpty ==
  /\ pc = "append" /\ rows = <<>>
  /\ pc' = "compare"
  /\ UNCHANGED <<stores, batch, rows, returned, failed, bounds>>

\* MUTANT: any failed comparison is retried.
CompareAgain ==
  /\ pc = "compare"
  /\ rows = Canonical(stored[batch])
  /\ Done
  /\ returned' = returned \cup {<<batch, Canonical(stored[batch])>>}
  /\ UNCHANGED <<stores, failed, bounds>>

\* query(), the filter on raw_batch_id, and _frames_match.
Compare ==
  /\ pc = "compare"
  /\ IF rows = Canonical(stored[batch])
       THEN /\ Done
            /\ returned' = returned \cup {<<batch, Canonical(stored[batch])>>}
            /\ UNCHANGED failed
       ELSE Raise("mismatch") /\ UNCHANGED returned
  /\ UNCHANGED <<stores, bounds>>

------------------------------------------------------------------------------
\* What an append that does not return may leave: nothing, some parts, or all of them.
AppendLeaves ==
  \/ UNCHANGED stored
  \/ /\ pc = "append" /\ stored[batch] = <<>>
     /\ \E n \in 1..Len(rows) :
          stored' = [stored EXCEPT ![batch] = SubSeq(Canonical(rows), 1, n)]

\* A step raises for a reason of its own (file system, integrity, query).
Fail == pc # "idle" /\ Raise("error") /\ AppendLeaves

\* The process dies.
Kill == pc # "idle" /\ Done /\ AppendLeaves /\ UNCHANGED failed

Fault ==
  /\ faults < MaxFaults
  /\ faults' = faults + 1
  /\ Fail \/ Kill
  /\ UNCHANGED <<source, raw, returned, attempts>>

Progress == Write \/ Normalise \/ Store \/ SkipEmpty \/ Compare

Next == Begin \/ Progress \/ Fault

Spec == Init /\ [][Next]_vars
FairSpec == Spec /\ WF_vars(Progress)

------------------------------------------------------------------------------
Errors == {"not json", "exists", "mismatch", "error"}

\* Every variable keeps its shape; rows are held only between validation and return.
TypeOK ==
  /\ source \in [Batches -> Pages]
  /\ raw \in [Batches -> Pages \cup {None}]
  /\ pc \in {"idle", "write", "normalise", "append", "compare"}
  /\ pc = "idle" <=> batch = None
  /\ batch \in Batches \cup {None}
  /\ pc \in {"idle", "write", "normalise"} => rows = <<>>
  /\ \A x \in returned : x[1] \in Batches
  /\ failed \subseteq Batches \X Errors
  /\ attempts \in 0..MaxAttempts /\ faults \in 0..MaxFaults

\* Evidence before interpretation: no row is readable, and no page is refused for its
\* content, unless the page's exact payload is in the raw store.
EvidenceFirst ==
  \A b \in Batches :
    stored[b] # <<>> \/ (\E e \in {"not json", "exists", "mismatch"} : <<b, e>> \in failed)
      => raw[b] = source[b]

\* When process() returned for a page, then from then on, whatever later attempts and
\* kills do, the store holds one row for each record the normaliser accepted, flagged
\* or not, with every flag, and a query gives what the call handed over.
ReturnedIsStored ==
  \A x \in returned :
    /\ stored[x[1]] = Canonical(Frame(Bars(source[x[1]]), RuleOrder))
    /\ x[2] = Canonical(stored[x[1]])

\* Flags whose rule order is not their text order.
OutOfOrder(page) ==
  page # NotJson /\ \E i \in DOMAIN Annotated(page) :
    LET flags == Annotated(page)[i].flags
    IN flags # Kept({flags[j] : j \in DOMAIN flags}, TextOrder)

\* A page that reaches the comparison fails it for one reason only: two flags of one
\* row in an order the store does not keep.  A stale, partial or foreign batch in the
\* store never reaches it.
MismatchExplained ==
  \A b \in Batches : <<b, "mismatch">> \in failed => OutOfOrder(source[b])

\* "neither level causes an observation to be removed": quality flags alone never make
\* process() raise for a page.
FlagsNeverLosePages == \A b \in Batches : <<b, "mismatch">> \notin failed

\* Every call of process() that is not killed returns or raises.
ProcessEnds == pc # "idle" ~> pc = "idle"
===============================================================================
