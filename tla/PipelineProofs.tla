--------------------------- MODULE PipelineProofs ---------------------------
(***************************************************************************)
(* Theorems about EphemeralBarPipeline.process: what it reports is what    *)
(* the bar store holds, and what it refuses for its content is in the raw  *)
(* store, however often a page is tried again and wherever a try ends.     *)
(***************************************************************************)
EXTENDS Pipeline, TLAPS

Places == {"idle", "write", "normalise", "append", "compare"}

------------------------------------------------------------------------------
\* Type correctness, in parts.
Shapes ==
  /\ source \in [Batches -> Pages]
  /\ raw \in [Batches -> Pages \cup {None}]
  /\ stored = [b \in Batches |-> stored[b]]
  /\ failed \subseteq Batches \X Errors

Counters ==
  /\ attempts \in 0..MaxAttempts
  /\ faults \in 0..MaxFaults

Place ==
  /\ pc \in Places
  /\ pc = "idle" => batch = None
  /\ pc # "idle" => batch \in Batches
  /\ pc \in {"idle", "write", "normalise"} => rows = <<>>

\* What a running call has established at each place.
Evidence ==
  pc \in {"normalise", "append", "compare"} => raw[batch] = source[batch]

Validated ==
  pc \in {"append", "compare"} =>
    /\ source[batch] # NotJson
    /\ rows = Annotated(source[batch])

Appended == pc = "compare" => stored[batch] = Canonical(rows)

\* What the stores and the history hold, whoever is running.
RowsHaveEvidence ==
  \A b \in Batches : stored[b] # <<>> =>
    /\ raw[b] = source[b]
    /\ Annotated(source[b]) # <<>>

RefusedHaveEvidence ==
  \A b \in Batches : \A e \in {"not json", "exists", "mismatch"} :
    <<b, e>> \in failed => raw[b] = source[b]

Handed ==
  \A x \in returned :
    /\ x[1] \in Batches
    /\ stored[x[1]] = Canonical(Annotated(source[x[1]]))
    /\ x[2] = Canonical(stored[x[1]])

PInv ==
  /\ Shapes /\ Counters /\ Place
  /\ Evidence /\ Validated /\ Appended
  /\ RowsHaveEvidence /\ RefusedHaveEvidence /\ Handed /\ MismatchExplained

------------------------------------------------------------------------------
\* The store keeps a row for each row: it holds none only for a page that has none.
LEMMA CanonicalOfNone == Canonical(<<>>) = <<>>
BY DEF Canonical

LEMMA NoneFromNone ==
  ASSUME NEW page, Canonical(Annotated(page)) = <<>>
  PROVE  Annotated(page) = <<>>
<1>1. DOMAIN Canonical(Annotated(page)) = DOMAIN Annotated(page)
  BY DEF Canonical
<1>2. DOMAIN Annotated(page) = {}
  BY <1>1
<1>3. DOMAIN Annotated(page) = DOMAIN Bars(page)
  BY DEF Annotated, Frame
<1> QED BY <1>2, <1>3 DEF Annotated, Frame

\* Rows whose flags are in text order pass through the store unchanged.
LEMMA InOrderIsKept ==
  ASSUME NEW page, page # NotJson, ~OutOfOrder(page)
  PROVE  Canonical(Annotated(page)) = Annotated(page)
<1> DEFINE A == Annotated(page)
           Sorted(i) == Kept({A[i].flags[j] : j \in DOMAIN A[i].flags}, TextOrder)
<1>1. A = [i \in DOMAIN A |-> A[i]]
  BY DEF Annotated, Frame
<1>2. ASSUME NEW i \in DOMAIN A
      PROVE  A[i] = [key |-> A[i].key, flags |-> A[i].flags]
  BY DEF Annotated, Frame
<1>3. ASSUME NEW i \in DOMAIN A
      PROVE  A[i].flags = Sorted(i)
  BY DEF OutOfOrder
<1>4. ASSUME NEW i \in DOMAIN A
      PROVE  [A[i] EXCEPT !.flags = Sorted(i)] = A[i]
  BY <1>2, <1>3
<1>5. Canonical(A) = [i \in DOMAIN A |-> [A[i] EXCEPT !.flags = Sorted(i)]]
  BY DEF Canonical
<1> QED BY <1>1, <1>4, <1>5

------------------------------------------------------------------------------
LEMMA Initially == Init => PInv
<1> SUFFICES ASSUME Init PROVE PInv
  OBVIOUS
<1>1. Shapes
  BY DEF Init, Shapes
<1>2. Counters
  BY ConstantsAssumption DEF Init, Counters
<1>3. Place /\ Evidence /\ Validated /\ Appended
  BY DEF Init, Place, Places, Evidence, Validated, Appended
<1>4. RowsHaveEvidence /\ RefusedHaveEvidence /\ Handed /\ MismatchExplained
  BY DEF Init, RowsHaveEvidence, RefusedHaveEvidence, Handed, MismatchExplained
<1> QED BY <1>1, <1>2, <1>3, <1>4 DEF PInv

LEMMA BeginKeeps == ASSUME PInv, Begin PROVE PInv'
<1>1. UNCHANGED <<source, raw, stored, rows, returned, failed, faults>>
  BY DEF Begin, stores
<1>2. /\ pc = "idle" /\ pc' = "write" /\ batch' \in Batches
      /\ attempts < MaxAttempts /\ attempts' = attempts + 1
  BY DEF Begin
<1>3. Shapes' /\ RowsHaveEvidence' /\ RefusedHaveEvidence' /\ Handed' /\ MismatchExplained'
  BY <1>1 DEF PInv, Shapes, RowsHaveEvidence, RefusedHaveEvidence, Handed, MismatchExplained
<1>4. Counters'
  BY <1>1, <1>2, ConstantsAssumption DEF PInv, Counters
<1>5. Place' /\ Evidence' /\ Validated' /\ Appended'
  BY <1>1, <1>2 DEF PInv, Place, Places, Evidence, Validated, Appended
<1> QED BY <1>3, <1>4, <1>5 DEF PInv

LEMMA WriteKeeps == ASSUME PInv, Write PROVE PInv'
<1>1. UNCHANGED <<source, stored, batch, rows, returned, failed, attempts, faults>>
  BY DEF Write, bounds
<1>2. /\ pc = "write" /\ pc' = "normalise"
      /\ raw' = [raw EXCEPT ![batch] = source[batch]]
      /\ batch \in Batches
  BY DEF Write, PInv, Place
<1>3. \A b \in Batches : raw[b] = source[b] => raw'[b] = source[b]
  BY <1>2 DEF PInv, Shapes
<1>4. raw'[batch] = source[batch]
  BY <1>2 DEF PInv, Shapes
<1>5. Shapes' /\ Counters'
  BY <1>1, <1>2 DEF PInv, Shapes, Counters
<1>6. Place' /\ Evidence' /\ Validated' /\ Appended'
  BY <1>1, <1>2, <1>4 DEF PInv, Place, Places, Evidence, Validated, Appended
<1>7. RowsHaveEvidence' /\ RefusedHaveEvidence'
  BY <1>1, <1>3 DEF PInv, RowsHaveEvidence, RefusedHaveEvidence
<1>8. Handed' /\ MismatchExplained'
  BY <1>1 DEF PInv, Handed, MismatchExplained
<1> QED BY <1>5, <1>6, <1>7, <1>8 DEF PInv

\* A call that raises ends as any other does; its error must be one it may report.
LEMMA RaiseKeeps ==
  ASSUME PInv, NEW e \in Errors, Raise(e), batch \in Batches,
         UNCHANGED <<source, raw, stored, returned>>,
         attempts' \in 0..MaxAttempts, faults' \in 0..MaxFaults,
         e # "error" => raw[batch] = source[batch],
         e = "mismatch" => OutOfOrder(source[batch])
  PROVE  PInv'
<1>1. /\ pc' = "idle" /\ batch' = None /\ rows' = <<>>
      /\ failed' = failed \cup {<<batch, e>>}
  BY DEF Raise, Done
<1>2. Shapes' /\ Counters'
  BY <1>1 DEF PInv, Shapes, Counters
<1>3. Place' /\ Evidence' /\ Validated' /\ Appended'
  BY <1>1 DEF Place, Places, Evidence, Validated, Appended
<1>4. RowsHaveEvidence' /\ Handed'
  BY DEF PInv, RowsHaveEvidence, Handed
<1>5. RefusedHaveEvidence'
  BY <1>1 DEF PInv, RefusedHaveEvidence
<1>6. MismatchExplained'
  <2> SUFFICES ASSUME NEW b \in Batches, <<b, "mismatch">> \in failed'
               PROVE  OutOfOrder(source[b])
    BY DEF MismatchExplained
  <2>1. CASE <<b, "mismatch">> \in failed
    BY <2>1 DEF PInv, MismatchExplained
  <2>2. CASE b = batch /\ e = "mismatch"
    BY <2>2
  <2> QED BY <1>1, <2>1, <2>2
<1> QED BY <1>2, <1>3, <1>4, <1>5, <1>6 DEF PInv

LEMMA NormaliseKeeps == ASSUME PInv, Normalise PROVE PInv'
<1>1. /\ UNCHANGED <<source, raw, stored, returned, attempts, faults>>
      /\ pc = "normalise"
  BY DEF Normalise, stores, bounds
<1>2. batch \in Batches /\ raw[batch] = source[batch]
  BY <1>1 DEF PInv, Place, Evidence
<1>3. CASE source[batch] = NotJson
  <2>1. Raise("not json")
    BY <1>3 DEF Normalise
  <2>2. "not json" \in Errors
    BY DEF Errors
  <2> QED BY <1>1, <1>2, <2>1, <2>2, RaiseKeeps DEF PInv, Counters
<1>4. CASE source[batch] # NotJson
  <2>1. /\ rows' = Annotated(source[batch])
        /\ pc' = "append"
        /\ UNCHANGED <<batch, failed>>
    BY <1>2, <1>4 DEF Normalise
  <2>2. Shapes' /\ Counters'
    BY <1>1, <2>1 DEF PInv, Shapes, Counters
  <2>3. Place' /\ Evidence' /\ Validated' /\ Appended'
    BY <1>1, <1>2, <1>4, <2>1 DEF PInv, Place, Places, Evidence, Validated, Appended
  <2>4. RowsHaveEvidence' /\ RefusedHaveEvidence' /\ Handed' /\ MismatchExplained'
    BY <1>1, <2>1 DEF PInv, RowsHaveEvidence, RefusedHaveEvidence, Handed, MismatchExplained
  <2> QED BY <2>2, <2>3, <2>4 DEF PInv
<1> QED BY <1>3, <1>4

\* What an append may leave changes the batch of the running call only, from nothing to
\* rows of a page that has rows and whose evidence is stored.
LEMMA FilledBatch ==
  ASSUME PInv, pc = "append", rows # <<>>, stored[batch] = <<>>,
         NEW new, stored' = [stored EXCEPT ![batch] = new],
         UNCHANGED <<source, raw, returned>>
  PROVE  /\ (stored = [b \in Batches |-> stored[b]])'
         /\ stored'[batch] = new
         /\ RowsHaveEvidence'
         /\ Handed'
<1>1. /\ batch \in Batches /\ raw[batch] = source[batch]
      /\ rows = Annotated(source[batch])
  BY DEF PInv, Place, Evidence, Validated
<1>2. /\ \A b \in Batches : b # batch => stored'[b] = stored[b]
      /\ stored'[batch] = new
      /\ stored' = [b \in Batches |-> stored'[b]]
  BY <1>1 DEF PInv, Shapes
<1>3. RowsHaveEvidence'
  BY <1>1, <1>2 DEF PInv, RowsHaveEvidence
<1>4. ASSUME NEW x \in returned PROVE x[1] # batch
  <2> SUFFICES ASSUME x[1] = batch PROVE FALSE
    OBVIOUS
  <2>1. Canonical(Annotated(source[batch])) = <<>>
    BY DEF PInv, Handed
  <2> QED BY <1>1, <2>1, NoneFromNone
<1>5. Handed'
  BY <1>2, <1>4 DEF PInv, Handed
<1> QED BY <1>2, <1>3, <1>5

LEMMA StoreKeeps == ASSUME PInv, Store PROVE PInv'
<1>1. /\ UNCHANGED <<source, raw, returned, attempts, faults>>
      /\ pc = "append" /\ rows # <<>>
  BY DEF Store, bounds
<1>2. /\ batch \in Batches /\ raw[batch] = source[batch]
      /\ source[batch] # NotJson /\ rows = Annotated(source[batch])
  BY <1>1 DEF PInv, Place, Evidence, Validated
<1>3. CASE stored[batch] = <<>>
  <2>1. /\ stored' = [stored EXCEPT ![batch] = Canonical(rows)]
        /\ pc' = "compare"
        /\ UNCHANGED <<batch, rows, failed>>
    BY <1>3 DEF Store
  <2> DEFINE new == Canonical(rows)
  <2>2. stored' = [stored EXCEPT ![batch] = new]
    BY <2>1
  <2> HIDE DEF new
  <2>3. /\ (stored = [b \in Batches |-> stored[b]])'
        /\ stored'[batch] = new
        /\ RowsHaveEvidence'
        /\ Handed'
    BY <1>1, <1>3, <2>2, FilledBatch
  <2>4. Shapes' /\ Counters'
    BY <1>1, <2>1, <2>3 DEF PInv, Shapes, Counters
  <2>5. Place' /\ Evidence' /\ Validated'
    BY <1>1, <1>2, <2>1 DEF PInv, Place, Places, Evidence, Validated
  <2>6. Appended'
    BY <2>1, <2>3 DEF Appended, new
  <2>7. RefusedHaveEvidence' /\ MismatchExplained'
    BY <1>1, <2>1 DEF PInv, RefusedHaveEvidence, MismatchExplained
  <2> QED BY <2>3, <2>4, <2>5, <2>6, <2>7 DEF PInv
<1>4. CASE stored[batch] # <<>>
  <2>1. Raise("exists") /\ UNCHANGED stored
    BY <1>4 DEF Store
  <2>2. "exists" \in Errors
    BY DEF Errors
  <2> QED BY <1>1, <1>2, <2>1, <2>2, RaiseKeeps DEF PInv, Counters
<1> QED BY <1>3, <1>4

LEMMA SkipEmptyKeeps == ASSUME PInv, SkipEmpty PROVE PInv'
<1>1. /\ UNCHANGED <<source, raw, stored, batch, rows, returned, failed, attempts, faults>>
      /\ pc = "append" /\ rows = <<>> /\ pc' = "compare"
  BY DEF SkipEmpty, stores, bounds
<1>2. /\ batch \in Batches /\ raw[batch] = source[batch]
      /\ source[batch] # NotJson /\ rows = Annotated(source[batch])
  BY <1>1 DEF PInv, Place, Evidence, Validated
<1>3. stored[batch] = <<>>
  BY <1>1, <1>2 DEF PInv, RowsHaveEvidence
<1>4. Appended'
  BY <1>1, <1>3, CanonicalOfNone DEF Appended
<1>5. Place' /\ Evidence' /\ Validated'
  BY <1>1, <1>2 DEF PInv, Place, Places, Evidence, Validated
<1>6. Shapes' /\ Counters'
  BY <1>1 DEF PInv, Shapes, Counters
<1>7. RowsHaveEvidence' /\ RefusedHaveEvidence' /\ Handed' /\ MismatchExplained'
  BY <1>1 DEF PInv, RowsHaveEvidence, RefusedHaveEvidence, Handed, MismatchExplained
<1> QED BY <1>4, <1>5, <1>6, <1>7 DEF PInv

LEMMA CompareKeeps == ASSUME PInv, Compare PROVE PInv'
<1>1. /\ UNCHANGED <<source, raw, stored, attempts, faults>>
      /\ pc = "compare"
  BY DEF Compare, stores, bounds
<1>2. /\ batch \in Batches /\ raw[batch] = source[batch]
      /\ source[batch] # NotJson /\ rows = Annotated(source[batch])
      /\ stored[batch] = Canonical(rows)
  BY <1>1 DEF PInv, Place, Evidence, Validated, Appended
<1>3. CASE rows = Canonical(stored[batch])
  <2>1. /\ Done /\ UNCHANGED failed
        /\ returned' = returned \cup {<<batch, Canonical(stored[batch])>>}
    BY <1>3 DEF Compare
  <2>2. pc' = "idle" /\ batch' = None /\ rows' = <<>>
    BY <2>1 DEF Done
  <2>3. Shapes' /\ Counters'
    BY <1>1, <2>1 DEF PInv, Shapes, Counters
  <2>4. Place' /\ Evidence' /\ Validated' /\ Appended'
    BY <2>2 DEF Place, Places, Evidence, Validated, Appended
  <2>5. RowsHaveEvidence' /\ RefusedHaveEvidence' /\ MismatchExplained'
    BY <1>1, <2>1 DEF PInv, RowsHaveEvidence, RefusedHaveEvidence, MismatchExplained
  <2>6. Handed'
    BY <1>1, <1>2, <2>1 DEF PInv, Handed
  <2> QED BY <2>3, <2>4, <2>5, <2>6 DEF PInv
<1>4. CASE rows # Canonical(stored[batch])
  <2>1. Raise("mismatch") /\ UNCHANGED returned
    BY <1>4 DEF Compare
  <2>2. "mismatch" \in Errors
    BY DEF Errors
  <2>3. OutOfOrder(source[batch])
    BY <1>2, <1>4, InOrderIsKept
  <2> QED BY <1>1, <1>2, <2>1, <2>2, <2>3, RaiseKeeps DEF PInv, Counters
<1> QED BY <1>3, <1>4

\* Whatever an append that did not return leaves is of the running call's own page.
LEMMA LeftoversKeep ==
  ASSUME PInv, AppendLeaves, UNCHANGED <<source, raw, returned>>
  PROVE  (stored = [b \in Batches |-> stored[b]])' /\ RowsHaveEvidence' /\ Handed'
<1>1. CASE UNCHANGED stored
  BY <1>1 DEF PInv, Shapes, RowsHaveEvidence, Handed
<1>2. CASE pc = "append" /\ stored[batch] = <<>> /\ ~UNCHANGED stored
  <2>1. PICK n \in 1..Len(rows) :
          stored' = [stored EXCEPT ![batch] = SubSeq(Canonical(rows), 1, n)]
    BY <1>2 DEF AppendLeaves
  <2>2. rows # <<>>
    <3>1. Len(<<>>) = 0 /\ 1..0 = {}
      OBVIOUS
    <3> QED BY <2>1, <3>1
  <2> DEFINE new == SubSeq(Canonical(rows), 1, n)
  <2>3. stored' = [stored EXCEPT ![batch] = new]
    BY <2>1
  <2> HIDE DEF new
  <2> QED BY <1>2, <2>2, <2>3, FilledBatch
<1> QED BY <1>1, <1>2 DEF AppendLeaves

LEMMA FaultKeeps == ASSUME PInv, Fault PROVE PInv'
<1>1. /\ UNCHANGED <<source, raw, returned, attempts>>
      /\ faults < MaxFaults /\ faults' = faults + 1
      /\ pc # "idle" /\ AppendLeaves /\ Done
      /\ failed' = failed \/ failed' = failed \cup {<<batch, "error">>}
  BY DEF Fault, Fail, Kill, Raise
<1>2. pc' = "idle" /\ batch' = None /\ rows' = <<>> /\ batch \in Batches
  BY <1>1 DEF Done, PInv, Place
<1>3. (stored = [b \in Batches |-> stored[b]])' /\ RowsHaveEvidence' /\ Handed'
  BY <1>1, LeftoversKeep
<1>4. failed' \subseteq Batches \X Errors
  <2>1. <<batch, "error">> \in Batches \X Errors
    BY <1>2 DEF Errors
  <2>2. failed \subseteq Batches \X Errors
    BY DEF PInv, Shapes
  <2> QED BY <1>1, <2>1, <2>2
<1>5. Shapes'
  BY <1>1, <1>3, <1>4 DEF PInv, Shapes
<1>6. Counters'
  BY <1>1, ConstantsAssumption DEF PInv, Counters
<1>7. Place' /\ Evidence' /\ Validated' /\ Appended'
  BY <1>2 DEF Place, Places, Evidence, Validated, Appended
<1>8. \A b \in Batches : \A e \in {"not json", "exists", "mismatch"} :
        <<b, e>> \in failed' => <<b, e>> \in failed
  <2> SUFFICES ASSUME NEW b \in Batches, NEW e \in {"not json", "exists", "mismatch"},
                      <<b, e>> \in failed'
               PROVE  <<b, e>> \in failed
    OBVIOUS
  <2>1. <<b, e>> # <<batch, "error">>
    OBVIOUS
  <2> QED BY <1>1, <2>1
<1>9. RefusedHaveEvidence'
  BY <1>1, <1>8 DEF PInv, RefusedHaveEvidence
<1>10. MismatchExplained'
  BY <1>1, <1>8 DEF PInv, MismatchExplained
<1> QED BY <1>3, <1>5, <1>6, <1>7, <1>9, <1>10 DEF PInv

LEMMA Inductive == PInv /\ [Next]_vars => PInv'
<1> SUFFICES ASSUME PInv, [Next]_vars PROVE PInv'
  OBVIOUS
<1>1. CASE Begin
  BY <1>1, BeginKeeps
<1>2. CASE Write
  BY <1>2, WriteKeeps
<1>3. CASE Normalise
  BY <1>3, NormaliseKeeps
<1>4. CASE Store
  BY <1>4, StoreKeeps
<1>5. CASE SkipEmpty
  BY <1>5, SkipEmptyKeeps
<1>6. CASE Compare
  BY <1>6, CompareKeeps
<1>7. CASE Fault
  BY <1>7, FaultKeeps
<1>8. CASE UNCHANGED vars
  <2>1. UNCHANGED <<source, raw, stored, pc, batch, rows, returned, failed, attempts, faults>>
    BY <1>8 DEF vars
  <2>2. Shapes' /\ Counters' /\ Place'
    BY <2>1 DEF PInv, Shapes, Counters, Place
  <2>3. Evidence' /\ Validated' /\ Appended'
    BY <2>1 DEF PInv, Evidence, Validated, Appended
  <2>4. RowsHaveEvidence' /\ RefusedHaveEvidence' /\ Handed' /\ MismatchExplained'
    BY <2>1 DEF PInv, RowsHaveEvidence, RefusedHaveEvidence, Handed, MismatchExplained
  <2> QED BY <2>2, <2>3, <2>4 DEF PInv
<1> QED BY <1>1, <1>2, <1>3, <1>4, <1>5, <1>6, <1>7, <1>8 DEF Next, Progress

LEMMA Invariant == Spec => []PInv
BY Initially, Inductive, PTL DEF Spec

------------------------------------------------------------------------------
\* Type correctness of process(): every variable keeps its shape, and rows are held only
\* between validation and return.
THEOREM TypeCorrect == Spec => []TypeOK
<1>1. PInv => TypeOK
  <2> SUFFICES ASSUME PInv PROVE TypeOK
    OBVIOUS
  <2>1. raw \in [Batches -> Pages \cup {None}] /\ source \in [Batches -> Pages]
    BY DEF PInv, Shapes
  <2>2. pc = "idle" <=> batch = None
    BY NoneAssumption DEF PInv, Place
  <2>3. batch \in Batches \cup {None}
    BY DEF PInv, Place
  <2> QED
    BY <2>1, <2>2, <2>3 DEF TypeOK, PInv, Shapes, Counters, Place, Places, Handed
<1> QED BY <1>1, Invariant, PTL

\* Evidence before interpretation: whatever process() published as rows, or refused for
\* its content, is in the raw store as it was delivered.
THEOREM EvidenceComesFirst == Spec => []EvidenceFirst
<1>1. PInv => EvidenceFirst
  BY DEF PInv, RowsHaveEvidence, RefusedHaveEvidence, EvidenceFirst
<1> QED BY <1>1, Invariant, PTL

\* What process() returned stays what the bar store holds: each accepted record once, with
\* all its flags, through every later attempt, failing step and kill.
THEOREM ReturnedStaysStored == Spec => []ReturnedIsStored
<1>1. PInv => ReturnedIsStored
  BY DEF PInv, Handed, ReturnedIsStored, Annotated
<1> QED BY <1>1, Invariant, PTL

\* A page that reaches _frames_match fails it only for flags that the store keeps in
\* another order.
THEOREM MismatchesAreExplained == Spec => []MismatchExplained
<1>1. PInv => MismatchExplained
  BY DEF PInv
<1> QED BY <1>1, Invariant, PTL
=============================================================================
