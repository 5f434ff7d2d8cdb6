---------------------------- MODULE RawStoreProofs ----------------------------
(***************************************************************************)
(* Proofs about RawStore for every number of writers, batches, layouts,    *)
(* chunks, calls and faults.                                               *)
(***************************************************************************)
EXTENDS RawStore, SequenceTheorems, TLAPS

\* A stream is a sequence of at most MaxChunks elements, and conversely.
LEMMA StreamSeq ==
  ASSUME NEW S
  PROVE  Streams(S) = {s \in Seq(S) : Len(s) <= MaxChunks}
<1>1. ASSUME NEW s \in Streams(S) PROVE s \in Seq(S) /\ Len(s) <= MaxChunks
  <2>1. PICK n \in 0..MaxChunks : s \in [1..n -> S]
    BY <1>1 DEF Streams
  <2>2. s \in Seq(S) /\ Len(s) = n
    BY <2>1, ConstantsAssumption
  <2>. QED BY <2>1, <2>2, ConstantsAssumption
<1>2. ASSUME NEW s \in Seq(S), Len(s) <= MaxChunks PROVE s \in Streams(S)
  <2>1. Len(s) \in 0..MaxChunks /\ s \in [1..Len(s) -> S]
    BY <1>2, ConstantsAssumption
  <2>. QED BY <2>1 DEF Streams
<1>. QED BY <1>1, <1>2

\* Nothing has been copied yet.
LEMMA EmptyStream == <<>> \in Streams(Chunks)
<1>1. <<>> \in Seq(Chunks) /\ Len(<<>>) <= MaxChunks
  BY ConstantsAssumption
<1>. QED BY <1>1, StreamSeq

\* Good chunks make a stream a candidate may carry.
LEMMA GoodStream == Streams(Chunks) \subseteq Streams(Chunks \cup {BadChunk})
BY StreamSeq DEF Streams

\* A manifest of a candidate over good bytes is a candidate, hence never None.
LEMMA ManifestCandidate ==
  ASSUME NEW c \in Candidates, NEW bytes \in Streams(Chunks)
  PROVE  /\ Manifest(c, bytes) \in Candidates
         /\ Manifest(c, bytes).payload = bytes
         /\ KeyOf(Manifest(c, bytes)) = KeyOf(c)
BY GoodStream DEF Manifest, Candidates, KeyOf

LEMMA KeyInKeys == \A c \in Candidates : KeyOf(c) \in Keys
BY DEF KeyOf, Keys, Candidates

\* Appending a good chunk that the payload still holds keeps the bound.
LEMMA CopyKeepsStream ==
  ASSUME NEW s \in Streams(Chunks), NEW c \in Candidates,
         Len(s) < Len(c.payload), c.payload[Len(s) + 1] \in Chunks
  PROVE  Append(s, c.payload[Len(s) + 1]) \in Streams(Chunks)
<1>1. c.payload \in Seq(Chunks \cup {BadChunk}) /\ Len(c.payload) <= MaxChunks
  BY StreamSeq DEF Candidates
<1>2. s \in Seq(Chunks)
  BY StreamSeq
<1>3. Append(s, c.payload[Len(s) + 1]) \in Seq(Chunks)
      /\ Len(Append(s, c.payload[Len(s) + 1])) = Len(s) + 1
  BY <1>2
<1>4. Len(s) + 1 <= MaxChunks
  <2>1. Len(s) \in Nat /\ Len(c.payload) \in Nat
    BY <1>1, <1>2
  <2>. QED BY <2>1, <1>1, ConstantsAssumption
<1>. QED BY <1>3, <1>4, StreamSeq

------------------------------------------------------------------------------
LEMMA TypeStep == TypeOK /\ [Next]_vars => TypeOK'
<1>. SUFFICES ASSUME TypeOK, [Next]_vars PROVE TypeOK'
  OBVIOUS
<1>. USE NoneAssumption, ConstantsAssumption
<1>. USE DEF TypeOK, Steps, Results, Occupied
<1>1. ASSUME NEW w \in Writers, Begin(w) PROVE TypeOK'
  BY <1>1 DEF Begin, Conclude, Goto, disk
<1>2. ASSUME NEW w \in Writers, Scan(w) PROVE TypeOK'
  BY <1>2 DEF Scan, Conclude, Goto, disk, hist, bounds
<1>3. ASSUME NEW w \in Writers, MakeTemp(w) PROVE TypeOK'
  <2>1. Partial(<<>>) \in Directory
    BY EmptyStream DEF Directory, Partial
  <2>. QED BY <1>3, <2>1 DEF MakeTemp, Goto, disk, hist, bounds
<1>4. ASSUME NEW w \in Writers, CopyChunk(w) PROVE TypeOK'
  <2>. DEFINE chunk == cand[w].payload[Len(temp[w].payload) + 1]
  <2>0. cand[w] \in Candidates /\ temp[w] \in Directory
    BY <1>4 DEF CopyChunk
  <2>1. CASE chunk \in Chunks
    <3>1. Append(temp[w].payload, chunk) \in Streams(Chunks)
      BY <1>4, <2>0, <2>1, CopyKeepsStream DEF CopyChunk, Directory
    <3>2. Partial(Append(temp[w].payload, chunk)) \in Directory
      BY <3>1 DEF Partial, Directory
    <3>. QED BY <1>4, <2>1, <3>2 DEF CopyChunk, disk, hist, bounds
  <2>2. CASE chunk \notin Chunks
    BY <1>4, <2>2 DEF CopyChunk, Conclude, Goto, disk, hist, bounds
  <2>. QED BY <2>1, <2>2
<1>5. ASSUME NEW w \in Writers, WriteManifest(w) PROVE TypeOK'
  <2>1. cand[w] \in Candidates /\ temp[w] \in Directory
    BY <1>5 DEF WriteManifest
  <2>2. Complete(cand[w], temp[w].payload) \in Directory
    BY <2>1, ManifestCandidate DEF Directory, Complete
  <2>. QED BY <1>5, <2>2 DEF WriteManifest, Goto, disk, hist, bounds
<1>6. ASSUME NEW w \in Writers, CheckTarget(w) PROVE TypeOK'
  BY <1>6 DEF CheckTarget, Goto, disk, local, hist, bounds
<1>7. ASSUME NEW w \in Writers, Rename(w) PROVE TypeOK'
  <2>1. temp[w] \in Directory
    BY <1>7 DEF Rename
  <2>. QED BY <1>7, <2>1 DEF Rename, Conclude, Goto, hist, bounds
<1>8. ASSUME NEW w \in Writers, RenameBlocked(w) PROVE TypeOK'
  BY <1>8 DEF RenameBlocked, Goto, disk, local, hist, bounds
<1>9. ASSUME NEW w \in Writers, Compare(w) PROVE TypeOK'
  BY <1>9 DEF Compare, Conclude, Goto, disk, hist, bounds
<1>10. ASSUME NEW w \in Writers, Cleanup(w) PROVE TypeOK'
  BY <1>10 DEF Cleanup, Finish, disk, bounds
<1>11. ASSUME NEW w \in Writers, Fail(w) PROVE TypeOK'
  BY <1>11 DEF Fail, Conclude, Goto, disk, hist
<1>12. ASSUME NEW w \in Writers, FailCompare(w) PROVE TypeOK'
  BY <1>12 DEF FailCompare, Conclude, Goto, disk, hist
<1>13. ASSUME NEW w \in Writers, FailCleanup(w) PROVE TypeOK'
  <2>1. Key(w) \in Keys
    BY <1>13, KeyInKeys DEF FailCleanup, Key
  <2>. QED BY <1>13, <2>1 DEF FailCleanup, Finish
<1>14. ASSUME NEW w \in Writers, Kill(w) PROVE TypeOK'
  <2>1. Key(w) \in Keys
    BY <1>14, KeyInKeys DEF Kill, Key
  <2>. QED BY <1>14, <2>1 DEF Kill, hist
<1>15. ASSUME NEW k \in Keys, Damage(k) PROVE TypeOK'
  BY <1>15 DEF Damage, local, hist
<1>16. CASE UNCHANGED vars
  BY <1>16 DEF vars
<1>. QED BY <1>1, <1>2, <1>3, <1>4, <1>5, <1>6, <1>7, <1>8, <1>9, <1>10, <1>11,
           <1>12, <1>13, <1>14, <1>15, <1>16 DEF Next, Progress

\* The variables keep their types in every reachable state.
THEOREM TypeCorrect == Spec => []TypeOK
<1>1. Init => TypeOK
  BY NoneAssumption, ConstantsAssumption DEF Init, TypeOK, Steps, Results, Occupied
<1>. QED BY <1>1, TypeStep, PTL DEF Spec

------------------------------------------------------------------------------
(***************************************************************************)
(* What is published or acknowledged is decided long before it shows: the  *)
(* inductive invariant carries, for every running call, how far its        *)
(* temporary directory agrees with the batch it was given.                 *)
(***************************************************************************)
Copied(w) ==
  /\ temp[w].manifest = None
  /\ Len(temp[w].payload) <= Len(cand[w].payload)
  /\ \A i \in 1..Len(temp[w].payload) : temp[w].payload[i] = cand[w].payload[i]

Ready(w) ==
  /\ cand[w].payload \in Streams(Chunks)
  /\ temp[w] = ArtifactOf(cand[w])

CallConsistent(w) ==
  /\ cand[w] # None => cand[w] \in offered
  /\ pc[w] \notin {"idle", "cleanup"} => cand[w].meta \in SafeMetas
  /\ pc[w] = "copy" => Copied(w)
  /\ pc[w] \in {"check", "rename", "compare"} => Ready(w)
  /\ pc[w] = "compare" => published[Key(w)] # None
  /\ outcome[w] \in Stored =>
       published[Key(w)] # None /\ published[Key(w)] = ArtifactOf(cand[w])

IInv ==
  /\ TypeOK
  /\ PublishedComplete
  /\ AcknowledgedStored
  /\ \A w \in Writers : CallConsistent(w)

\* What one step may do to the parts of the state every call relies on.
Grows ==
  /\ \A k \in Keys : published[k] # None => published'[k] = published[k]
  /\ offered \subseteq offered'
  /\ answered \subseteq answered'

\* The local state of one call is left alone.
Untouched(w) == UNCHANGED <<pc[w], cand[w], temp[w], outcome[w]>>

LEMMA StepGrows == TypeOK /\ [Next]_vars => Grows
<1>. SUFFICES ASSUME TypeOK, [Next]_vars PROVE Grows
  OBVIOUS
<1>. USE DEF Grows, disk, hist, bounds, local
<1>1. ASSUME NEW w \in Writers, Begin(w) PROVE Grows
  BY <1>1 DEF Begin
<1>2. ASSUME NEW w \in Writers, Progress(w) PROVE Grows
  <2>1. CASE Rename(w)
    BY <2>1 DEF Rename, TypeOK
  <2>2. CASE Cleanup(w)
    BY <2>2 DEF Cleanup, Finish
  <2>. QED BY <1>2, <2>1, <2>2 DEF Progress, Scan, MakeTemp, CopyChunk,
         WriteManifest, CheckTarget, RenameBlocked, Compare
<1>3. ASSUME NEW w \in Writers, Fail(w) \/ FailCompare(w) \/ Kill(w) PROVE Grows
  BY <1>3 DEF Fail, FailCompare, Kill
<1>4. ASSUME NEW w \in Writers, FailCleanup(w) PROVE Grows
  BY <1>4 DEF FailCleanup, Finish
<1>5. ASSUME NEW k \in Keys, Damage(k) PROVE Grows
  BY <1>5 DEF Damage
<1>6. CASE UNCHANGED vars
  BY <1>6 DEF vars
<1>. QED BY <1>1, <1>2, <1>3, <1>4, <1>5, <1>6 DEF Next

\* A call that a step leaves alone stays consistent with a store that only grows.
LEMMA CallFrame ==
  ASSUME TypeOK, Grows, NEW w \in Writers, CallConsistent(w), Untouched(w)
  PROVE  CallConsistent(w)'
<1>1. cand[w] # None => Key(w) \in Keys
  BY KeyInKeys DEF TypeOK, Key
<1>2. Key(w)' = Key(w)
  BY DEF Key, Untouched
<1>3. outcome[w] \in Stored => pc[w] = "cleanup"
  BY DEF TypeOK, Stored, Results
<1>4. pc[w] \in {"compare", "cleanup"} => cand[w] # None
  BY DEF TypeOK
<1>5. Copied(w) => Copied(w)'
  BY DEF Copied, Untouched
<1>6. Ready(w) => Ready(w)'
  BY DEF Ready, Untouched
<1>. QED BY <1>1, <1>2, <1>3, <1>4, <1>5, <1>6 DEF CallConsistent, Grows, Untouched

\* Steps that publish nothing keep every published directory complete.
LEMMA CompleteFrame ==
  ASSUME PublishedComplete, Grows, UNCHANGED published
  PROVE  PublishedComplete'
BY DEF PublishedComplete, Grows, Occupied

\* Steps that answer nothing keep every acknowledgement good.
LEMMA AckFrame ==
  ASSUME TypeOK, AcknowledgedStored, Grows, UNCHANGED answered
  PROVE  AcknowledgedStored'
<1>1. \A a \in answered : KeyOf(a[1]) \in Keys
  BY KeyInKeys DEF TypeOK
<1>. QED BY <1>1 DEF AcknowledgedStored, Grows, Occupied

\* Once every chunk is copied the temporary payload is the batch's payload.
LEMMA FullCopy ==
  ASSUME NEW s \in Streams(Chunks), NEW p \in Streams(Chunks \cup {BadChunk}),
         Len(s) = Len(p), \A i \in 1..Len(s) : s[i] = p[i]
  PROVE  s = p
<1>1. s \in Seq(Chunks \cup {BadChunk}) /\ p \in Seq(Chunks \cup {BadChunk})
  BY StreamSeq, GoodStream
<1>. QED BY <1>1, SeqEqual

\* One more good chunk keeps the copy a prefix of the payload.
LEMMA CopyExtends ==
  ASSUME NEW s \in Streams(Chunks), NEW p \in Streams(Chunks \cup {BadChunk}),
         Len(s) < Len(p), \A i \in 1..Len(s) : s[i] = p[i]
  PROVE  LET t == Append(s, p[Len(s) + 1])
         IN  Len(t) <= Len(p) /\ \A i \in 1..Len(t) : t[i] = p[i]
<1>1. /\ s \in Seq(Chunks \cup {BadChunk}) /\ p \in Seq(Chunks \cup {BadChunk})
      /\ Len(s) \in Nat /\ Len(p) \in Nat
  BY StreamSeq, GoodStream
<1>2. p[Len(s) + 1] \in Chunks \cup {BadChunk}
  BY <1>1
<1>. DEFINE t == Append(s, p[Len(s) + 1])
<1>3. /\ Len(t) = Len(s) + 1
      /\ \A i \in 1..Len(s) : t[i] = s[i]
      /\ t[Len(s) + 1] = p[Len(s) + 1]
  BY <1>1, <1>2, AppendProperties
<1>. HIDE DEF t
<1>4. Len(t) <= Len(p) /\ \A i \in 1..Len(t) : t[i] = p[i]
  BY <1>1, <1>3
<1>. QED BY <1>4 DEF t

\* The moving call itself: what each of its steps owes the invariant.
LEMMA ProgressStep ==
  ASSUME IInv, TypeOK', Grows, NEW w \in Writers, Progress(w)
  PROVE  CallConsistent(w)' /\ PublishedComplete' /\ AcknowledgedStored'
<1>. USE DEF IInv, hist, bounds, disk, local
<1>0. CallConsistent(w) /\ (cand[w] # None => cand[w] \in Candidates)
  BY DEF TypeOK
<1>1. CASE Scan(w)
  <2>1. UNCHANGED <<published, cand, offered, answered>> /\ pc'[w] \in {"cleanup", "mkdtemp"}
        /\ outcome'[w] \in {"collision", outcome[w]} /\ pc[w] = "scan"
    BY <1>1 DEF Scan, Conclude, Goto, TypeOK
  <2>2. CallConsistent(w)'
    BY <2>1, <1>0 DEF CallConsistent, TypeOK, Stored
  <2>. QED BY <2>1, <2>2, CompleteFrame, AckFrame
<1>2. CASE MakeTemp(w)
  <2>1. UNCHANGED <<published, cand, offered, answered, outcome>> /\ pc'[w] = "copy"
        /\ temp'[w] = Partial(<<>>) /\ pc[w] = "mkdtemp"
    BY <1>2 DEF MakeTemp, Goto, TypeOK
  <2>2. cand[w] \in Candidates /\ Len(cand[w].payload) \in Nat
    BY <2>1, StreamSeq DEF TypeOK, Candidates
  <2>3. Copied(w)'
    BY <2>1, <2>2 DEF Copied, Partial
  <2>4. CallConsistent(w)'
    BY <2>1, <2>3, <1>0 DEF CallConsistent, TypeOK, Stored, Results
  <2>. QED BY <2>1, <2>4, CompleteFrame, AckFrame
<1>3. CASE CopyChunk(w)
  <2>. DEFINE chunk == cand[w].payload[Len(temp[w].payload) + 1]
  <2>1. UNCHANGED <<published, cand, offered, answered>> /\ pc[w] = "copy"
        /\ cand[w] \in Candidates /\ temp[w] \in Directory
    BY <1>3 DEF CopyChunk, TypeOK
  <2>2. ASSUME chunk \in Chunks PROVE CallConsistent(w)'
    <3>1. temp'[w] = Partial(Append(temp[w].payload, chunk)) /\ UNCHANGED <<pc, outcome>>
      BY <1>3, <2>2 DEF CopyChunk, TypeOK
    <3>2. Copied(w)'
      BY <3>1, <2>1, <1>0, <1>3, CopyExtends
         DEF CallConsistent, Copied, Partial, Directory, Candidates, CopyChunk
    <3>. QED BY <3>1, <3>2, <2>1, <1>0 DEF CallConsistent, TypeOK, Stored
  <2>3. ASSUME chunk \notin Chunks PROVE CallConsistent(w)'
    <3>1. pc'[w] = "cleanup" /\ outcome'[w] = "error"
      BY <1>3, <2>3 DEF CopyChunk, Conclude, Goto, TypeOK
    <3>. QED BY <3>1, <2>1, <1>0 DEF CallConsistent, TypeOK, Stored
  <2>4. CallConsistent(w)'
    BY <2>2, <2>3
  <2>. QED BY <2>1, <2>4, CompleteFrame, AckFrame
<1>4. CASE WriteManifest(w)
  <2>1. /\ UNCHANGED <<published, cand, offered, answered, outcome>>
        /\ pc[w] = "copy" /\ pc'[w] = "check"
        /\ cand[w] \in Candidates /\ temp[w] \in Directory
        /\ temp'[w] = Complete(cand[w], temp[w].payload)
    BY <1>4 DEF WriteManifest, Goto, TypeOK
  <2>2. temp[w].payload = cand[w].payload /\ temp[w].payload \in Streams(Chunks)
    BY <2>1, <1>0, <1>4, FullCopy
       DEF CallConsistent, Copied, Directory, Candidates, WriteManifest
  <2>3. Ready(w)'
    BY <2>1, <2>2 DEF Ready, ArtifactOf
  <2>4. CallConsistent(w)'
    BY <2>1, <2>3, <1>0 DEF CallConsistent, TypeOK, Stored
  <2>. QED BY <2>1, <2>4, CompleteFrame, AckFrame
<1>5. CASE CheckTarget(w) \/ RenameBlocked(w)
  <2>1. /\ UNCHANGED <<published, cand, temp, offered, answered, outcome>>
        /\ pc[w] \in {"check", "rename"} /\ pc'[w] \in {"rename", "compare"}
        /\ pc'[w] = "compare" => published[Key(w)] # None
    BY <1>5 DEF CheckTarget, RenameBlocked, Goto, TypeOK
  <2>2. Ready(w)'
    BY <2>1, <1>0 DEF Ready, CallConsistent
  <2>3. CallConsistent(w)'
    BY <2>1, <2>2, <1>0 DEF CallConsistent, TypeOK, Key
  <2>. QED BY <2>1, <2>3, CompleteFrame, AckFrame
<1>6. CASE Rename(w)
  <2>1. /\ published' = [published EXCEPT ![Key(w)] = temp[w]]
        /\ UNCHANGED <<cand, offered, answered>>
        /\ pc[w] = "rename" /\ pc'[w] = "cleanup" /\ outcome'[w] = "created"
    BY <1>6 DEF Rename, Conclude, Goto, TypeOK
  <2>2. Ready(w) /\ cand[w].meta \in SafeMetas /\ cand[w] \in offered
        /\ cand[w] \in Candidates /\ temp[w] # None
    BY <2>1, <1>0 DEF CallConsistent, TypeOK
  <2>3. Key(w) \in Keys /\ Key(w) = KeyOf(cand[w])
    BY <2>2, KeyInKeys DEF Key
  <2>4. published'[Key(w)] = ArtifactOf(cand[w]) /\ published'[Key(w)] # None
    BY <2>1, <2>2, <2>3 DEF Ready, TypeOK
  <2>5. CallConsistent(w)'
    BY <2>1, <2>4, <1>0 DEF CallConsistent, TypeOK, Key
  <2>6. PublishedComplete'
    <3>. SUFFICES ASSUME NEW k \in Occupied'
                  PROVE  \E c \in offered : KeyOf(c) = k /\ c.meta \in SafeMetas
                           /\ c.payload \in Streams(Chunks) /\ published'[k] = ArtifactOf(c)
      BY <2>1 DEF PublishedComplete
    <3>1. CASE k = Key(w)
      BY <3>1, <2>2, <2>3, <2>4 DEF Ready
    <3>2. CASE k # Key(w)
      BY <3>2, <2>1 DEF PublishedComplete, Occupied, TypeOK
    <3>. QED BY <3>1, <3>2
  <2>. QED BY <2>1, <2>5, <2>6, AckFrame
<1>7. CASE Compare(w)
  <2>1. /\ UNCHANGED <<published, cand, temp, offered, answered>>
        /\ pc[w] = "compare" /\ pc'[w] = "cleanup"
        /\ outcome'[w] \in {"replayed", "collision", "unreadable"}
        /\ outcome'[w] = "replayed" => published[Key(w)] = temp[w]
    BY <1>7 DEF Compare, Conclude, Goto, TypeOK
  <2>2. CallConsistent(w)'
    BY <2>1, <1>0 DEF CallConsistent, TypeOK, Key, Stored, Ready
  <2>. QED BY <2>1, <2>2, CompleteFrame, AckFrame
<1>8. CASE Cleanup(w)
  <2>1. /\ UNCHANGED <<published, offered>>
        /\ answered' = answered \cup {<<cand[w], outcome[w]>>}
        /\ pc[w] = "cleanup" /\ pc'[w] = "idle"
        /\ cand'[w] = None /\ outcome'[w] = "none"
    BY <1>8 DEF Cleanup, Finish, TypeOK
  <2>2. CallConsistent(w)'
    BY <2>1 DEF CallConsistent, Stored
  <2>3. outcome[w] \in Stored => KeyOf(cand[w]) \in Occupied
                                  /\ published[KeyOf(cand[w])] = ArtifactOf(cand[w])
    BY <2>1, <1>0, KeyInKeys DEF CallConsistent, Key, Occupied, TypeOK
  <2>4. AcknowledgedStored'
    BY <2>1, <2>3 DEF AcknowledgedStored, Occupied
  <2>. QED BY <2>1, <2>2, <2>4, CompleteFrame
<1>. QED BY <1>1, <1>2, <1>3, <1>4, <1>5, <1>6, <1>7, <1>8 DEF Progress

\* Which other calls a step leaves alone: all of them.
LEMMA OthersUntouched ==
  ASSUME TypeOK, NEW w \in Writers, NEW v \in Writers \ {w},
         \/ Begin(w) \/ Progress(w) \/ Fail(w)
         \/ FailCompare(w) \/ FailCleanup(w) \/ Kill(w)
  PROVE  Untouched(v)
<1>. USE DEF TypeOK, Untouched, Conclude, Goto, Finish, hist, bounds, disk, local
<1>1. CASE Begin(w) \/ Fail(w) \/ FailCompare(w)
  BY <1>1 DEF Begin, Fail, FailCompare
<1>2. CASE FailCleanup(w) \/ Kill(w) \/ Cleanup(w)
  BY <1>2 DEF FailCleanup, Kill, Cleanup
<1>3. CASE Scan(w) \/ MakeTemp(w) \/ CopyChunk(w) \/ WriteManifest(w)
  BY <1>3 DEF Scan, MakeTemp, CopyChunk, WriteManifest
<1>4. CASE CheckTarget(w) \/ Rename(w) \/ RenameBlocked(w) \/ Compare(w)
  BY <1>4 DEF CheckTarget, Rename, RenameBlocked, Compare
<1>. QED BY <1>1, <1>2, <1>3, <1>4 DEF Progress

\* The start of a call, and every way it can be cut short.
LEMMA InterruptStep ==
  ASSUME IInv, TypeOK', Grows, NEW w \in Writers,
         Begin(w) \/ Fail(w) \/ FailCompare(w) \/ FailCleanup(w) \/ Kill(w)
  PROVE  CallConsistent(w)' /\ PublishedComplete' /\ AcknowledgedStored'
<1>. USE DEF IInv, hist, bounds, disk, local
<1>0. CallConsistent(w) /\ (cand[w] # None => cand[w] \in Candidates)
  BY DEF TypeOK
<1>1. CASE Begin(w)
  <2>1. /\ UNCHANGED <<published, answered>>
        /\ \/ /\ pc'[w] = "scan" /\ outcome'[w] = "none"
              /\ cand'[w].meta \in SafeMetas
           \/ pc'[w] = "cleanup" /\ outcome'[w] = "rejected"
        /\ cand'[w] \in offered'
    BY <1>1 DEF Begin, Conclude, Goto, TypeOK
  <2>2. CallConsistent(w)'
    BY <2>1 DEF CallConsistent, Stored
  <2>. QED BY <2>1, <2>2, CompleteFrame, AckFrame
<1>2. CASE Fail(w) \/ FailCompare(w)
  <2>1. /\ UNCHANGED <<published, answered, offered, cand>>
        /\ pc'[w] = "cleanup" /\ outcome'[w] \in {"error", "unreadable"}
    BY <1>2 DEF Fail, FailCompare, Conclude, Goto, TypeOK
  <2>2. CallConsistent(w)'
    BY <2>1, <1>0 DEF CallConsistent, Stored
  <2>. QED BY <2>1, <2>2, CompleteFrame, AckFrame
<1>3. CASE FailCleanup(w)
  <2>1. /\ UNCHANGED <<published, offered>>
        /\ answered' = answered \cup {<<cand[w], "error">>}
        /\ pc'[w] = "idle" /\ cand'[w] = None /\ outcome'[w] = "none"
    BY <1>3 DEF FailCleanup, Finish, TypeOK
  <2>2. CallConsistent(w)'
    BY <2>1 DEF CallConsistent, Stored
  <2>3. AcknowledgedStored'
    BY <2>1 DEF AcknowledgedStored, Occupied, Stored
  <2>. QED BY <2>1, <2>2, <2>3, CompleteFrame
<1>4. CASE Kill(w)
  <2>1. /\ UNCHANGED <<published, answered, offered>>
        /\ pc'[w] = "idle" /\ cand'[w] = None /\ outcome'[w] = "none"
    BY <1>4 DEF Kill, TypeOK
  <2>2. CallConsistent(w)'
    BY <2>1 DEF CallConsistent, Stored
  <2>. QED BY <2>1, <2>2, CompleteFrame, AckFrame
<1>. QED BY <1>1, <1>2, <1>3, <1>4

LEMMA IInvInit == Init => IInv
<1>. SUFFICES ASSUME Init PROVE IInv
  OBVIOUS
<1>1. TypeOK
  BY NoneAssumption, ConstantsAssumption DEF Init, TypeOK, Steps, Results, Occupied
<1>2. PublishedComplete /\ AcknowledgedStored
  BY DEF Init, PublishedComplete, AcknowledgedStored, Occupied
<1>3. \A w \in Writers : CallConsistent(w)
  BY DEF Init, CallConsistent, Stored
<1>. QED BY <1>1, <1>2, <1>3 DEF IInv

LEMMA IInvStep == IInv /\ [Next]_vars => IInv'
<1>. SUFFICES ASSUME IInv, [Next]_vars PROVE IInv'
  OBVIOUS
<1>1. TypeOK' /\ Grows
  BY TypeStep, StepGrows DEF IInv
<1>2. ASSUME NEW w \in Writers,
             \/ Begin(w) \/ Progress(w) \/ Fail(w)
             \/ FailCompare(w) \/ FailCleanup(w) \/ Kill(w)
      PROVE  IInv'
  <2>1. CallConsistent(w)' /\ PublishedComplete' /\ AcknowledgedStored'
    BY <1>1, <1>2, ProgressStep, InterruptStep
  <2>2. ASSUME NEW v \in Writers \ {w} PROVE CallConsistent(v)'
    BY <1>1, <1>2, OthersUntouched, CallFrame DEF IInv
  <2>. QED BY <1>1, <2>1, <2>2 DEF IInv
<1>3. ASSUME UNCHANGED <<published, offered, answered, pc, cand, temp, outcome>>
      PROVE  IInv'
  <2>1. ASSUME NEW v \in Writers PROVE CallConsistent(v)'
    BY <1>1, <1>3, CallFrame DEF IInv, Untouched
  <2>. QED BY <1>1, <1>3, <2>1, CompleteFrame, AckFrame DEF IInv
<1>4. ASSUME NEW k \in Keys, Damage(k) PROVE IInv'
  BY <1>3, <1>4 DEF Damage, local, hist
<1>5. CASE UNCHANGED vars
  BY <1>3, <1>5 DEF vars
<1>. QED BY <1>2, <1>4, <1>5 DEF Next

\* A published directory is always one whole, safe, offered batch.
THEOREM PublicationIsAtomic == Spec => []PublishedComplete
<1>1. IInv => PublishedComplete
  BY DEF IInv
<1>. QED BY <1>1, IInvInit, IInvStep, PTL DEF Spec

\* An artifact once handed to a caller stays stored as it was.
THEOREM AcknowledgementsHold == Spec => []AcknowledgedStored
<1>1. IInv => AcknowledgedStored
  BY DEF IInv
<1>. QED BY <1>1, IInvInit, IInvStep, PTL DEF Spec

------------------------------------------------------------------------------
\* A published artifact read as evidence is the batch it was published for.
LEMMA ArtifactIsBatch ==
  ASSUME NEW c \in Candidates
  PROVE  Manifest(ArtifactOf(c).manifest, ArtifactOf(c).payload) = c
BY DEF ArtifactOf, Complete, Manifest, Candidates

\* Adding one pair adds its first element.
LEMMA FirstsOfUnion ==
  ASSUME NEW A, NEW x, NEW y
  PROVE  {a[1] : a \in A \cup {<<x, y>>}} = {a[1] : a \in A} \cup {x}
<1>1. <<x, y>>[1] = x
  OBVIOUS
<1>2. ASSUME NEW z PROVE z \in {a[1] : a \in A \cup {<<x, y>>}}
                         <=> z \in {a[1] : a \in A} \cup {x}
  BY <1>1, Zenon
<1>. QED BY <1>2, Zenon

\* A step that changes neither disk names, offers nor acknowledgements is a stutter.
LEMMA EvidenceStutter ==
  ASSUME UNCHANGED <<offered, published, answered>>
  PROVE  UNCHANGED Evidence!vars
BY DEF Evidence!vars

LEMMA EvidenceStep == IInv /\ IInv' /\ [Next]_vars => [Evidence!Next]_(Evidence!vars)
<1>. SUFFICES ASSUME IInv, IInv', [Next]_vars PROVE [Evidence!Next]_(Evidence!vars)
  OBVIOUS
<1>. USE DEF hist, bounds, disk, local
<1>1. ASSUME NEW w \in Writers, Begin(w) PROVE [Evidence!Next]_(Evidence!vars)
  <2>1. PICK c \in Candidates : offered' = offered \cup {c}
    BY <1>1 DEF Begin
  <2>2. UNCHANGED <<published, answered>>
    BY <1>1 DEF Begin
  <2>3. Evidence!Offer(c)
    BY <2>1, <2>2 DEF Evidence!Offer
  <2>. QED BY <2>3 DEF Evidence!Next
<1>2. ASSUME NEW w \in Writers, Rename(w) PROVE [Evidence!Next]_(Evidence!vars)
  <2>1. /\ UNCHANGED <<offered, answered>>
        /\ published[Key(w)] = None
        /\ published' = [published EXCEPT ![Key(w)] = ArtifactOf(cand[w])]
        /\ cand[w] \in offered /\ cand[w] \in Candidates /\ temp[w] = ArtifactOf(cand[w])
        /\ temp[w] # None
    BY <1>2 DEF Rename, IInv, TypeOK, CallConsistent, Ready
  <2>2. Key(w) = KeyOf(cand[w]) /\ KeyOf(cand[w]) \in Keys
    BY <2>1, KeyInKeys DEF Key
  <2>3. PICK c \in Candidates : c = cand[w]
    BY <2>1
  <2>4. Evidence!Publish(c)
    BY <2>1, <2>2, <2>3, ArtifactIsBatch DEF Evidence!Publish, IInv, TypeOK
  <2>. QED BY <2>4 DEF Evidence!Next
<1>3. ASSUME NEW w \in Writers, Cleanup(w) PROVE [Evidence!Next]_(Evidence!vars)
  <2>1. /\ UNCHANGED <<offered, published>>
        /\ answered' = answered \cup {<<cand[w], outcome[w]>>}
        /\ cand[w] \in Candidates
    BY <1>3 DEF Cleanup, Finish, IInv, TypeOK
  <2>2. CASE outcome[w] \in Stored
    <3>1. published[KeyOf(cand[w])] # None
          /\ published[KeyOf(cand[w])] = ArtifactOf(cand[w])
      BY <2>2 DEF IInv, CallConsistent, Key
    <3>2. KeyOf(cand[w]) \in Keys
      BY <2>1, KeyInKeys
    <3>3. PICK c \in Candidates : c = cand[w]
      BY <2>1
    <3>4. {b \in answered' : b[2] \in Stored}
          = {b \in answered : b[2] \in Stored} \cup {<<c, outcome[w]>>}
      BY <2>1, <2>2, <3>3
    <3>5. {a[1] : a \in {b \in answered' : b[2] \in Stored}}
          = {a[1] : a \in {b \in answered : b[2] \in Stored}} \cup {c}
      <4>. DEFINE old == {b \in answered : b[2] \in Stored}
                  new == {b \in answered' : b[2] \in Stored}
      <4>1. new = old \cup {<<c, outcome[w]>>}
        BY <3>4
      <4>. HIDE DEF old, new
      <4>2. {a[1] : a \in new} = {a[1] : a \in old} \cup {c}
        BY <4>1, FirstsOfUnion
      <4>. QED BY <4>2 DEF old, new
    <3>6. Evidence!Confirm(c)
      BY <2>1, <3>1, <3>2, <3>3, <3>5, ArtifactIsBatch DEF Evidence!Confirm
    <3>. QED BY <3>6 DEF Evidence!Next
  <2>3. CASE outcome[w] \notin Stored
    <3>1. {b \in answered' : b[2] \in Stored} = {b \in answered : b[2] \in Stored}
      BY <2>1, <2>3
    <3>. QED BY <2>1, <3>1 DEF Evidence!vars
  <2>. QED BY <2>2, <2>3
<1>4. ASSUME NEW w \in Writers, FailCleanup(w) PROVE [Evidence!Next]_(Evidence!vars)
  <2>1. UNCHANGED <<offered, published>> /\ answered' = answered \cup {<<cand[w], "error">>}
    BY <1>4 DEF FailCleanup, Finish
  <2>2. {b \in answered' : b[2] \in Stored} = {b \in answered : b[2] \in Stored}
    BY <2>1 DEF Stored
  <2>. QED BY <2>1, <2>2 DEF Evidence!vars
<1>5. ASSUME NEW w \in Writers,
             \/ Scan(w) \/ MakeTemp(w) \/ CopyChunk(w) \/ WriteManifest(w)
             \/ CheckTarget(w) \/ RenameBlocked(w) \/ Compare(w)
             \/ Fail(w) \/ FailCompare(w) \/ Kill(w)
      PROVE  [Evidence!Next]_(Evidence!vars)
  <2>1. UNCHANGED <<offered, published, answered>>
    BY <1>5 DEF Scan, MakeTemp, CopyChunk, WriteManifest, CheckTarget,
         RenameBlocked, Compare, Fail, FailCompare, Kill
  <2>. QED BY <2>1, EvidenceStutter
<1>6. ASSUME NEW k \in Keys, Damage(k) PROVE [Evidence!Next]_(Evidence!vars)
  BY <1>6, EvidenceStutter DEF Damage
<1>7. CASE UNCHANGED vars
  BY <1>7, EvidenceStutter DEF vars
<1>. QED BY <1>1, <1>2, <1>3, <1>4, <1>5, <1>6, <1>7 DEF Next, Progress

\* RawBatchStore implements the write-once evidence map.
THEOREM Implementation == Spec => ImplementsEvidenceStore
<1>1. Init => Evidence!Init
  BY DEF Init, Evidence!Init
<1>. QED BY <1>1, IInvInit, IInvStep, EvidenceStep, PTL
         DEF Spec, ImplementsEvidenceStore, Evidence!Spec

------------------------------------------------------------------------------
(***************************************************************************)
(* Refusals.  What the search of Scan excluded stays true of the locations *)
(* that were published when the call began, and a reason to refuse a batch *)
(* never goes away.                                                        *)
(***************************************************************************)
Searched(w) ==
  /\ before[w] \subseteq Occupied
  /\ pc[w] \in {"mkdtemp", "copy", "check", "rename", "compare"} =>
       \A l \in Layouts \ {cand[w].layout} : <<cand[w].batch, l>> \notin before[w]

RInv ==
  /\ CollisionJustified
  /\ \A w \in Writers : Searched(w)
  /\ \A w \in Writers : outcome[w] = "collision" => Contradicted(cand[w])

\* What is under another layout, or differs at the target, contradicts the batch.
LEMMA ForeignContradicts ==
  ASSUME IInv, NEW c \in Candidates, NEW l \in Layouts \ {c.layout},
         <<c.batch, l>> \in Occupied
  PROVE  Contradicted(c)
<1>1. PICK d \in offered : KeyOf(d) = <<c.batch, l>>
                           /\ published[<<c.batch, l>>] = ArtifactOf(d)
  BY DEF IInv, PublishedComplete
<1>2. d.layout # c.layout
  BY <1>1 DEF KeyOf
<1>3. ArtifactOf(d) # ArtifactOf(c)
  BY <1>2 DEF ArtifactOf, Complete, Manifest
<1>. QED BY <1>1, <1>3 DEF Contradicted

LEMMA ContradictionStays ==
  ASSUME TypeOK, Grows, damaged \subseteq damaged', NEW c \in Candidates, Contradicted(c)
  PROVE  Contradicted(c)'
BY DEF Contradicted, Grows, Occupied

LEMMA DamageStays == [Next]_vars => damaged \subseteq damaged'
BY DEF Next, vars, Progress, Begin, Scan, MakeTemp, CopyChunk, WriteManifest, CheckTarget,
       Rename, RenameBlocked, Compare, Cleanup, Fail, FailCompare, FailCleanup, Kill,
       Damage, disk

\* A step concerning call w, as far as refusals can see it.
LEMMA RefusalStep ==
  ASSUME IInv, RInv, TypeOK', Grows, damaged \subseteq damaged', NEW w \in Writers,
         \/ Begin(w) \/ Progress(w) \/ Fail(w)
         \/ FailCompare(w) \/ FailCleanup(w) \/ Kill(w)
  PROVE  RInv'
<1>. USE DEF IInv, hist, bounds, disk, local
<1>0. /\ Searched(w)
      /\ outcome[w] = "collision" => Contradicted(cand[w])
      /\ pc[w] # "idle" => cand[w] \in Candidates
  BY DEF RInv, TypeOK
<1>1. \A v \in Writers \ {w} : Untouched(v) /\ before'[v] = before[v]
  <2>1. ASSUME NEW v \in Writers \ {w} PROVE before'[v] = before[v]
    BY DEF TypeOK, Begin, Progress, Scan, MakeTemp, CopyChunk, WriteManifest, CheckTarget,
       Rename, RenameBlocked, Compare, Cleanup, Fail, FailCompare, FailCleanup, Kill, Finish
  <2>. QED BY <2>1, OthersUntouched
<1>2. ASSUME NEW v \in Writers \ {w}
      PROVE  Searched(v)' /\ (outcome'[v] = "collision" => Contradicted(cand[v])')
  <2>1. Searched(v) /\ (outcome[v] = "collision" => Contradicted(cand[v]))
    BY DEF RInv
  <2>2. Searched(v)'
    BY <1>1, <2>1 DEF Searched, Untouched, Grows, Occupied
  <2>3. outcome[v] = "collision" => cand[v] \in Candidates
    BY DEF TypeOK
  <2>. QED BY <1>1, <2>1, <2>2, <2>3, ContradictionStays DEF Untouched
<1>3. Searched(w)'
  <2>1. CASE Begin(w)
    BY <2>1 DEF Begin, Conclude, Goto, TypeOK, Searched, Occupied
  <2>2. CASE Kill(w) \/ Cleanup(w) \/ FailCleanup(w)
    BY <2>2 DEF Kill, Cleanup, FailCleanup, Finish, TypeOK, Searched, Occupied
  <2>3. CASE Scan(w)
    BY <2>3, <1>0 DEF Scan, Conclude, Goto, TypeOK, Searched, Occupied
  <2>4. CASE Rename(w)
    BY <2>4, <1>0 DEF Rename, Conclude, Goto, TypeOK, Searched, Occupied, Grows
  <2>5. CASE MakeTemp(w) \/ CopyChunk(w) \/ WriteManifest(w) \/ CheckTarget(w)
    BY <2>5, <1>0 DEF MakeTemp, CopyChunk, WriteManifest, CheckTarget, Conclude, Goto,
       TypeOK, Searched, Occupied
  <2>6. CASE RenameBlocked(w) \/ Compare(w) \/ Fail(w) \/ FailCompare(w)
    BY <2>6, <1>0 DEF RenameBlocked, Compare, Fail, FailCompare, Conclude, Goto,
       TypeOK, Searched, Occupied
  <2>. QED BY <2>1, <2>2, <2>3, <2>4, <2>5, <2>6 DEF Progress
<1>4. outcome'[w] = "collision" => Contradicted(cand[w])'
  <2>1. CASE Scan(w)
    <3>1. UNCHANGED <<cand, published, damaged>> /\ pc[w] = "scan" /\ outcome[w] = "none"
          /\ (outcome'[w] = "collision" =>
               \E l \in Layouts \ {cand[w].layout} : <<cand[w].batch, l>> \in Occupied)
      BY <2>1 DEF Scan, Conclude, Goto, TypeOK
    <3>2. outcome'[w] = "collision" => Contradicted(cand[w])
      BY <3>1, <1>0, ForeignContradicts
    <3>. QED BY <3>1, <3>2 DEF Contradicted, Occupied
  <2>2. CASE Compare(w)
    <3>1. /\ UNCHANGED <<cand, published, damaged>>
          /\ pc[w] = "compare" /\ cand[w] \in Candidates
          /\ outcome'[w] = "collision" => Key(w) \in damaged \/ published[Key(w)] # temp[w]
      BY <2>2, <1>0 DEF Compare, Conclude, Goto, TypeOK
    <3>2. Ready(w) /\ published[Key(w)] # None /\ Key(w) = <<cand[w].batch, cand[w].layout>>
      BY <3>1 DEF CallConsistent, Key, KeyOf
    <3>3. cand[w].layout \in Layouts /\ Key(w) \in Occupied
      BY <3>1, <3>2, KeyInKeys DEF Candidates, Occupied, Key
    <3>4. outcome'[w] = "collision" => Contradicted(cand[w])
      BY <3>1, <3>2, <3>3 DEF Contradicted, Ready
    <3>. QED BY <3>1, <3>4 DEF Contradicted, Occupied
  <2>3. CASE ~Scan(w) /\ ~Compare(w)
    BY <2>3 DEF Begin, Progress, MakeTemp, CopyChunk, WriteManifest, CheckTarget, Rename,
       RenameBlocked, Cleanup, Fail, FailCompare, FailCleanup, Kill, Finish, Conclude,
       Goto, TypeOK
  <2>. QED BY <2>1, <2>2, <2>3
<1>5. CollisionJustified'
  <2>1. ASSUME NEW a \in answered, a[2] = "collision" PROVE Contradicted(a[1])'
    <3>1. Contradicted(a[1]) /\ a[1] \in Candidates
      BY <2>1 DEF RInv, CollisionJustified, TypeOK
    <3>. QED BY <3>1, ContradictionStays
  <2>2. CASE Cleanup(w)
    <3>1. /\ answered' = answered \cup {<<cand[w], outcome[w]>>} /\ pc[w] = "cleanup"
          /\ UNCHANGED <<published, damaged>>
      BY <2>2 DEF Cleanup, Finish
    <3>2. outcome[w] = "collision" => Contradicted(cand[w])
      BY <1>0
    <3>3. PICK c : c = cand[w]
      OBVIOUS
    <3>4. outcome[w] = "collision" => Contradicted(c)'
      BY <3>1, <3>2, <3>3 DEF Contradicted, Occupied
    <3>5. ASSUME NEW a \in answered', a[2] = "collision" PROVE Contradicted(a[1])'
      BY <3>1, <3>3, <3>4, <3>5, <2>1
    <3>. QED BY <3>5 DEF CollisionJustified
  <2>3. CASE FailCleanup(w)
    <3>1. answered' = answered \cup {<<cand[w], "error">>}
      BY <2>3 DEF FailCleanup, Finish
    <3>2. ASSUME NEW a \in answered', a[2] = "collision" PROVE Contradicted(a[1])'
      BY <3>1, <3>2, <2>1
    <3>. QED BY <3>2 DEF CollisionJustified
  <2>4. CASE ~Cleanup(w) /\ ~FailCleanup(w)
    <3>1. answered' = answered
      BY <2>4 DEF Begin, Progress, Scan, MakeTemp, CopyChunk, WriteManifest, CheckTarget,
         Rename, RenameBlocked, Compare, Fail, FailCompare, Kill
    <3>. QED BY <3>1, <2>1 DEF CollisionJustified
  <2>. QED BY <2>2, <2>3, <2>4
<1>. QED BY <1>2, <1>3, <1>4, <1>5 DEF RInv

LEMMA RInvStep == IInv /\ RInv /\ [Next]_vars => RInv'
<1>. SUFFICES ASSUME IInv, RInv, [Next]_vars PROVE RInv'
  OBVIOUS
<1>1. TypeOK' /\ Grows /\ damaged \subseteq damaged'
  BY TypeStep, StepGrows, DamageStays DEF IInv
<1>2. ASSUME UNCHANGED <<published, answered, pc, cand, outcome, before>> PROVE RInv'
  <2>1. CollisionJustified'
    <3>1. ASSUME NEW a \in answered, a[2] = "collision" PROVE Contradicted(a[1])'
      <4>1. Contradicted(a[1]) /\ a[1] \in Candidates
        BY <3>1 DEF RInv, CollisionJustified, IInv, TypeOK
      <4>. QED BY <4>1, <1>1, ContradictionStays DEF IInv
    <3>. QED BY <3>1, <1>2 DEF CollisionJustified
  <2>2. \A w \in Writers : Searched(w)'
    BY <1>2 DEF RInv, Searched, Occupied
  <2>3. ASSUME NEW w \in Writers, outcome'[w] = "collision" PROVE Contradicted(cand[w])'
    <3>1. Contradicted(cand[w]) /\ cand[w] \in Candidates
      BY <1>2, <2>3 DEF RInv, IInv, TypeOK
    <3>2. PICK c \in Candidates : c = cand[w]
      BY <3>1
    <3>3. Contradicted(c)'
      BY <3>1, <3>2, <1>1, ContradictionStays DEF IInv
    <3>. QED BY <3>2, <3>3, <1>2
  <2>. QED BY <2>1, <2>2, <2>3 DEF RInv
<1>3. ASSUME NEW k \in Keys, Damage(k) PROVE RInv'
  BY <1>2, <1>3 DEF Damage, local, hist
<1>4. CASE UNCHANGED vars
  BY <1>2, <1>4 DEF vars
<1>. QED BY <1>1, <1>3, <1>4, RefusalStep DEF Next

LEMMA RInvInit == Init => RInv
BY DEF Init, RInv, CollisionJustified, Searched, Occupied

\* A refused batch is contradicted by something that is on disk.
THEOREM CollisionsAreJustified == Spec => []CollisionJustified
<1>1. RInv => CollisionJustified
  BY DEF RInv
<1>. QED BY <1>1, IInvInit, IInvStep, RInvInit, RInvStep, PTL DEF Spec

\* Only overlapping calls can place one batch id under two layouts.
THEOREM SplitsNeedOverlap == Spec => SplitNeedsOverlap
<1>. DEFINE Unsplit == \A w \in Writers : Rename(w) =>
       \A l \in Layouts \ {cand[w].layout} : <<cand[w].batch, l>> \notin before[w]
<1>1. RInv => [Unsplit]_vars
  BY DEF RInv, Searched, Rename
<1>. QED BY <1>1, IInvInit, IInvStep, RInvInit, RInvStep, PTL
         DEF Spec, SplitNeedsOverlap
===============================================================================
