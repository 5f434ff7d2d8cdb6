---------------------------- MODULE RawReplayProofs ----------------------------
(***************************************************************************)
(* Proofs about RawReplay for every set of batches, chunks and metadata,   *)
(* every number of opens, edits and failing reads.                         *)
(***************************************************************************)
EXTENDS RawReplay, SequenceTheorems, TLAPS

LEMMA ContentSeq == Contents = {s \in Seq(Chunks) : Len(s) <= MaxChunks}
<1>1. ASSUME NEW s \in Contents PROVE s \in Seq(Chunks) /\ Len(s) <= MaxChunks
  <2>1. PICK n \in 0..MaxChunks : s \in [1..n -> Chunks]
    BY <1>1 DEF Contents
  <2>2. s \in Seq(Chunks) /\ Len(s) = n
    BY <2>1, ConstantsAssumption
  <2>. QED BY <2>1, <2>2, ConstantsAssumption
<1>2. ASSUME NEW s \in Seq(Chunks), Len(s) <= MaxChunks PROVE s \in Contents
  <2>1. Len(s) \in 0..MaxChunks /\ s \in [1..Len(s) -> Chunks]
    BY <1>2, ConstantsAssumption
  <2>. QED BY <2>1 DEF Contents
<1>. QED BY <1>1, <1>2

LEMMA EmptyContent == <<>> \in Contents
BY ConstantsAssumption, ContentSeq, EmptySeq

\* One more chunk of a file keeps a beginning of it within bounds.
LEMMA GrowContent ==
  ASSUME NEW s \in Contents, NEW file \in Contents, Len(s) < Len(file)
  PROVE  /\ Append(s, file[Len(s) + 1]) \in Contents
         /\ Len(Append(s, file[Len(s) + 1])) = Len(s) + 1
         /\ \A i \in 1..Len(s) : Append(s, file[Len(s) + 1])[i] = s[i]
         /\ Append(s, file[Len(s) + 1])[Len(s) + 1] = file[Len(s) + 1]
<1>1. s \in Seq(Chunks) /\ file \in Seq(Chunks) /\ Len(file) <= MaxChunks
  BY ContentSeq
<1>2. Len(s) \in Nat /\ Len(file) \in Nat
  BY <1>1
<1>3. file[Len(s) + 1] \in Chunks
  BY <1>1, <1>2
<1>4. Append(s, file[Len(s) + 1]) \in Seq(Chunks)
      /\ Len(Append(s, file[Len(s) + 1])) = Len(s) + 1
  BY <1>1, <1>3
<1>5. Len(s) + 1 <= MaxChunks
  BY <1>1, <1>2, ConstantsAssumption
<1>. QED BY <1>1, <1>2, <1>3, <1>4, <1>5, ContentSeq

LEMMA InitTyped == Init => TypeOK
BY ConstantsAssumption, EmptyContent DEF Init, TypeOK, Manifests

LEMMA TypeStep == TypeOK /\ [Next]_vars => TypeOK'
<1>. SUFFICES ASSUME TypeOK, [Next]_vars PROVE TypeOK'
  OBVIOUS
<1>. USE EmptyContent DEF TypeOK, disk, rest, Refuse
<1>1. CASE ReadManifest
  <2>1. /\ UNCHANGED <<disk, got, parsed, rest>>
        /\ got = <<>>
        /\ \/ /\ manifest # None /\ manifest.meta \in SafeMetas
              /\ meta' = manifest.meta /\ pc' = "digest" /\ refused' = refused
           \/ pc' = "over" /\ refused' = refused \cup {"replay"} /\ meta' = meta
    BY <1>1 DEF ReadManifest, Agrees
  <2>2. meta' \in SafeMetas \cup {None} /\ (pc' = "digest" => meta' # None)
    BY <2>1, ConstantsAssumption
  <2>. QED BY <2>1, <2>2
<1>2. CASE ReadChunk
  <2>1. /\ UNCHANGED <<disk, pc, meta, parsed, refused, rest>>
        /\ pc \in {"digest", "snapshot"} /\ got' = Append(got, bytes[Len(got) + 1])
        /\ Len(got) < Len(bytes)
    BY <1>2 DEF ReadChunk
  <2>2. got' \in Contents
    BY <2>1, GrowContent
  <2>. QED BY <2>1, <2>2
<1>3. CASE EndDigest \/ EndSnapshot \/ Close
  <2>1. /\ UNCHANGED <<disk, meta, parsed, rest>>
        /\ pc \in {"digest", "snapshot", "reading"}
        /\ \/ pc' = "replayed" /\ got' = <<>>
           \/ pc' = "over" /\ got' = <<>>
           \/ pc' = "reading" /\ got' = got /\ pc = "snapshot"
    <3>1. CASE EndDigest
      BY <3>1 DEF EndDigest
    <3>2. CASE EndSnapshot
      BY <3>2 DEF EndSnapshot
    <3>3. CASE Close
      BY <3>3 DEF Close
    <3>. QED BY <1>3, <3>1, <3>2, <3>3
  <2>2. refused' \subseteq {"replay", "open"}
    BY <1>3 DEF EndDigest, EndSnapshot, Close
  <2>. QED BY <2>1, <2>2
<1>4. CASE Open
  <2>1. /\ UNCHANGED <<disk, meta, got, handle, written, faults>>
        /\ parsed' = <<>> /\ pc = "replayed" /\ pc' \in {"snapshot", "replayed"}
        /\ opens' = opens + 1 /\ opens < MaxOpens
    BY <1>4 DEF Open
  <2>2. refused' \subseteq {"replay", "open"}
    BY <1>4 DEF Open
  <2>3. opens' \in 0..MaxOpens
    BY <2>1, ConstantsAssumption
  <2>. QED BY <2>1, <2>2, <2>3
<1>5. CASE Parse
  BY <1>5, GrowContent DEF Parse
<1>6. CASE Fault
  <2>1. faults' \in 0..MaxFaults /\ opens' = opens /\ handle' = handle /\ written' = written
    BY <1>6, ConstantsAssumption DEF Fault
  <2>2. CASE Tamper
    BY <2>1, <2>2 DEF Tamper
  <2>3. CASE FailRead
    BY <2>1, <2>3 DEF FailRead
  <2>. QED BY <1>6, <2>2, <2>3 DEF Fault
<1>7. CASE UNCHANGED vars
  BY <1>7 DEF vars
<1>. QED BY <1>1, <1>2, <1>3, <1>4, <1>5, <1>6, <1>7 DEF Next, Progress

\* Every variable keeps its shape in every reachable state of a replay.
THEOREM TypeCorrect == Spec => []TypeOK
BY InitTyped, TypeStep, PTL DEF Spec

------------------------------------------------------------------------------
\* The snapshot a reader was opened over is the checked payload, whatever the file
\* holds by now; what has been parsed is a beginning of it.
Beginning == /\ Len(parsed) <= Len(handle.payload)
             /\ \A i \in 1..Len(parsed) : parsed[i] = handle.payload[i]

Snapshot ==
  /\ TypeOK
  /\ pc = "reading" => got = handle.payload
  /\ Beginning

LEMMA SnapshotInit == Init => Snapshot
<1>. SUFFICES ASSUME Init PROVE Snapshot
  OBVIOUS
<1>1. TypeOK
  BY InitTyped
<1>2. handle.payload \in Contents
  BY <1>1 DEF TypeOK, Handles
<1>3. Len(handle.payload) \in Nat
  BY <1>2, ContentSeq
<1>. QED BY <1>1, <1>3 DEF Init, Snapshot, Beginning

LEMMA SnapshotStep == Snapshot /\ [Next]_vars => Snapshot'
<1>. SUFFICES ASSUME Snapshot, [Next]_vars PROVE Snapshot'
  OBVIOUS
<1>0. TypeOK /\ TypeOK'
  BY TypeStep DEF Snapshot
<1>1. handle.payload \in Contents /\ Len(handle.payload) \in Nat
  BY <1>0, ContentSeq DEF TypeOK, Handles
<1>. USE DEF Snapshot, Beginning, disk, rest, Refuse
<1>2. CASE ReadManifest \/ ReadChunk \/ EndDigest
  BY <1>0, <1>2 DEF ReadManifest, ReadChunk, EndDigest
<1>3. CASE EndSnapshot \/ Close
  BY <1>0, <1>3 DEF EndSnapshot, Close
<1>4. CASE Open
  BY <1>0, <1>1, <1>4 DEF Open
<1>5. CASE Parse
  <2>1. got = handle.payload /\ parsed' = Append(parsed, got[Len(parsed) + 1])
        /\ Len(parsed) < Len(got) /\ parsed \in Contents
        /\ handle' = handle /\ got' = got
    BY <1>0, <1>5 DEF Parse, TypeOK
  <2>2. Len(parsed) \in Nat
    BY <2>1, ContentSeq
  <2>3. /\ Len(parsed') = Len(parsed) + 1
        /\ \A i \in 1..Len(parsed) : parsed'[i] = parsed[i]
        /\ parsed'[Len(parsed) + 1] = handle.payload[Len(parsed) + 1]
    BY <2>1, <1>1, GrowContent
  <2>. QED BY <1>0, <1>1, <2>1, <2>2, <2>3
<1>6. CASE Fault
  BY <1>0, <1>6 DEF Fault, Tamper, FailRead
<1>7. CASE UNCHANGED vars
  BY <1>0, <1>7 DEF vars
<1>. QED BY <1>2, <1>3, <1>4, <1>5, <1>6, <1>7 DEF Next, Progress

\* However the payload file is edited between and during the two passes, a normaliser
\* only ever parses bytes of the artifact its handle names.
THEOREM DeliveryIsFaithful == Spec => []DeliveredIsEvidence
<1>1. Snapshot => DeliveredIsEvidence
  <2>. SUFFICES ASSUME Snapshot PROVE DeliveredIsEvidence
    OBVIOUS
  <2>1. ASSUME pc = "reading", Len(parsed) = Len(got) PROVE parsed = handle.payload
    <3>1. parsed \in Seq(Chunks) /\ handle.payload \in Seq(Chunks)
      BY ContentSeq DEF Snapshot, TypeOK, Handles
    <3>. QED BY <2>1, <3>1, SeqEqual DEF Snapshot, Beginning
  <2>. QED BY <2>1 DEF Snapshot, Beginning, DeliveredIsEvidence
<1>. QED BY <1>1, SnapshotInit, SnapshotStep, PTL DEF Spec

------------------------------------------------------------------------------
\* No open is over before the replay is, and the latest one that did not raise read
\* everything.
Complete ==
  /\ Snapshot
  /\ NothingSwallowed
  /\ pc \in {"manifest", "digest", "over"} => opens = 0

LEMMA CompleteStep == Complete /\ [Next]_vars => Complete'
<1>. SUFFICES ASSUME Complete, [Next]_vars PROVE Complete'
  OBVIOUS
<1>0. Snapshot /\ Snapshot' /\ TypeOK
  BY SnapshotStep DEF Complete, Snapshot
<1>. USE DEF Complete, NothingSwallowed, disk, rest, Refuse
<1>1. CASE ReadManifest \/ ReadChunk
  BY <1>0, <1>1 DEF ReadManifest, ReadChunk
<1>2. CASE EndDigest
  BY <1>0, <1>2 DEF EndDigest
<1>3. CASE EndSnapshot
  BY <1>0, <1>3 DEF EndSnapshot
<1>4. CASE Parse \/ Close
  BY <1>0, <1>4 DEF Parse, Close, Snapshot
<1>5. CASE Open
  BY <1>0, <1>5 DEF Open
<1>6. CASE Fault
  BY <1>0, <1>6 DEF Fault, Tamper, FailRead
<1>7. CASE UNCHANGED vars
  BY <1>0, <1>7 DEF vars
<1>. QED BY <1>1, <1>2, <1>3, <1>4, <1>5, <1>6, <1>7 DEF Next, Progress

\* A file edited after the replay is never passed over in silence: an open that did not
\* raise gave the normaliser the whole payload.
THEOREM NoSilentLoss == Spec => []NothingSwallowed
<1>1. Init => Complete
  BY SnapshotInit DEF Init, Complete, NothingSwallowed
<1>2. Complete => NothingSwallowed
  BY DEF Complete
<1>. QED BY <1>1, <1>2, CompleteStep, PTL DEF Spec

\* As long as nothing was edited, the files are those of the publication, and a pass
\* holds a beginning of them.
Honest == handle.paths /\ handle.batch = written.batch /\ handle.payload = written.payload

Untouched ==
  /\ TypeOK
  /\ written \in [batch: Batches, meta: SafeMetas, payload: Contents]
  /\ faults = 0 =>
       /\ manifest = written /\ bytes = written.payload /\ present
       /\ pc \in {"digest", "snapshot"} =>
            Len(got) <= Len(bytes) /\ \A i \in 1..Len(got) : got[i] = bytes[i]
       /\ Honest => refused = {}

LEMMA UntouchedInit == Init => Untouched
<1>. SUFFICES ASSUME Init PROVE Untouched
  OBVIOUS
<1>1. TypeOK
  BY InitTyped
<1>. QED BY <1>1 DEF Init, Untouched

LEMMA UntouchedStep == Untouched /\ [Next]_vars => Untouched'
<1>. SUFFICES ASSUME Untouched, [Next]_vars PROVE Untouched'
  OBVIOUS
<1>0. TypeOK /\ TypeOK' /\ written \in [batch: Batches, meta: SafeMetas, payload: Contents]
  BY TypeStep DEF Untouched
<1>1. CASE Fault
  <2>1. faults' # 0 /\ written' = written
    BY <1>0, <1>1 DEF Fault, TypeOK
  <2>. QED BY <1>0, <2>1 DEF Untouched
<1>2. CASE faults # 0 /\ faults' = faults /\ written' = written
  BY <1>0, <1>2 DEF Untouched
<1>3. CASE faults = 0 /\ faults' = faults /\ written' = written /\ handle' = handle /\ ~Fault
  <2>. DEFINE Reads == Len(got) <= Len(bytes) /\ \A i \in 1..Len(got) : got[i] = bytes[i]
              Same == UNCHANGED <<manifest, bytes, present>>
  <2>1. /\ manifest = written /\ bytes = written.payload /\ present
        /\ pc \in {"digest", "snapshot"} => Reads
        /\ Honest => refused = {}
    BY <1>3 DEF Untouched
  <2>2. bytes \in Contents /\ got \in Contents /\ Len(bytes) \in Nat /\ Len(got) \in Nat
    BY <1>0, ContentSeq DEF TypeOK
  <2>3. Honest' = Honest
    BY <1>3 DEF Honest
  <2>4. ASSUME pc \in {"digest", "snapshot"}, EndOfFile, Honest PROVE got = handle.payload
    <3>1. got \in Seq(Chunks) /\ bytes \in Seq(Chunks)
      BY <2>2, ContentSeq
    <3>2. Len(got) = Len(bytes) /\ \A i \in 1..Len(got) : got[i] = bytes[i]
      BY <2>1, <2>2, <2>4 DEF EndOfFile
    <3>3. got = bytes
      BY <3>1, <3>2, SeqEqual
    <3>. QED BY <2>1, <2>4, <3>3 DEF Honest
  <2>5. ASSUME Same, pc' \in {"digest", "snapshot"} => Reads', Honest => refused' = {}
        PROVE  Untouched'
    BY <1>0, <1>3, <2>1, <2>3, <2>5 DEF Untouched
  <2>6. Len(<<>>) = 0 /\ \A i \in 1..0 : FALSE
    OBVIOUS
  <2>7. CASE ReadManifest
    <3>1. Same /\ got' = got /\ got = <<>>
      BY <1>0, <2>7 DEF ReadManifest, disk, TypeOK
    <3>2. Reads'
      BY <2>2, <2>6, <3>1
    <3>3. ASSUME Honest PROVE refused' = {}
      <4>1. Agrees(manifest)
        BY <1>0, <2>1, <3>3, ConstantsAssumption DEF Agrees, Honest, Manifests
      <4>. QED BY <2>1, <2>7, <3>3, <4>1 DEF ReadManifest
    <3>. QED BY <2>5, <3>1, <3>2, <3>3
  <2>8. CASE ReadChunk
    <3>1. /\ Same /\ refused' = refused /\ Len(got) < Len(bytes) /\ Reads
          /\ got' = Append(got, bytes[Len(got) + 1])
      BY <2>1, <2>8 DEF ReadChunk, disk
    <3>2. /\ Len(got') = Len(got) + 1
          /\ \A i \in 1..Len(got) : got'[i] = got[i]
          /\ got'[Len(got) + 1] = bytes[Len(got) + 1]
      BY <2>2, <3>1, GrowContent
    <3>3. Reads'
      BY <2>2, <3>1, <3>2
    <3>. QED BY <2>1, <2>5, <3>1, <3>3
  <2>9. CASE EndDigest \/ EndSnapshot
    <3>1. Same /\ pc' \notin {"digest", "snapshot"} /\ pc \in {"digest", "snapshot"} /\ EndOfFile
      BY <2>9 DEF EndDigest, EndSnapshot, disk, Refuse
    <3>2. got = handle.payload => refused' = refused
      BY <2>9 DEF EndDigest, EndSnapshot
    <3>. QED BY <2>1, <2>4, <2>5, <3>1, <3>2
  <2>10. CASE Open
    <3>1. Same /\ got' = got /\ got = <<>> /\ refused' \subseteq refused
      BY <1>0, <2>1, <2>10 DEF Open, disk, TypeOK
    <3>2. Reads'
      BY <2>2, <2>6, <3>1
    <3>. QED BY <2>1, <2>5, <3>1, <3>2
  <2>11. CASE Parse \/ Close
    <3>1. Same /\ pc' \notin {"digest", "snapshot"} /\ refused' = refused
      BY <2>11 DEF Parse, Close, disk
    <3>. QED BY <2>1, <2>5, <3>1
  <2>12. CASE UNCHANGED vars
    <3>1. Same /\ pc' = pc /\ got' = got /\ refused' = refused
      BY <2>12 DEF vars
    <3>. QED BY <2>1, <2>5, <3>1
  <2>. QED BY <1>3, <2>7, <2>8, <2>9, <2>10, <2>11, <2>12 DEF Next, Progress
<1>4. Fault \/ (faults' = faults /\ written' = written /\ handle' = handle)
  BY DEF Next, Progress, ReadManifest, ReadChunk, EndDigest, EndSnapshot, Open, Parse, Close,
         vars, rest
<1>. QED BY <1>1, <1>2, <1>3, <1>4

\* The handle write() returned is refused only after an edit or a failing read, whatever
\* the payload, an empty one included.
THEOREM RefusalsAreJustified == Spec => []RefusalJustified
<1>1. Untouched => RefusalJustified
  BY DEF Untouched, RefusalJustified, Honest
<1>. QED BY <1>1, UntouchedInit, UntouchedStep, PTL DEF Spec
===============================================================================
