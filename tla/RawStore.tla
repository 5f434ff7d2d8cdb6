------------------------------- MODULE RawStore -------------------------------
(***************************************************************************)
(* RawBatchStore (data/storage/raw.py): concurrent calls of write() over   *)
(* one directory tree.  A call copies the payload chunk by chunk into a    *)
(* temporary sibling directory, adds the manifest, and publishes the       *)
(* directory with one rename; an occupied target is compared instead.      *)
(*                                                                         *)
(* A call may raise at any file operation, and may be killed at any point  *)
(* (its temporary directory then stays behind).  Published bytes may rot   *)
(* on disk.  SHA-256 is taken to be injective: a digest IS the content.    *)
(***************************************************************************)
EXTENDS Naturals, Sequences

CONSTANTS
  Writers,     \* threads or processes calling write()
  Batches,     \* batch ids
  Layouts,     \* provider/dataset/retrieval_date directories
  Metas,       \* manifest fields that are not part of the path
  SafeMetas,   \* those that pass revalidation and sanitisation
  Chunks,      \* chunks a well-behaved payload reader returns
  BadChunk,    \* a chunk of the wrong type, or larger than asked for
  MaxChunks,   \* BOUND: chunks in a payload
  MaxCalls,    \* BOUND: calls of write()
  MaxFaults,   \* BOUND: kills, file errors and damaged artifacts together
  None         \* absent

ASSUME ConstantsAssumption ==
  /\ SafeMetas \subseteq Metas
  /\ BadChunk \notin Chunks
  /\ MaxChunks \in Nat /\ MaxCalls \in Nat /\ MaxFaults \in Nat

Streams(S) == UNION {[1..n -> S] : n \in 0..MaxChunks}
Candidates == [batch: Batches, layout: Layouts, meta: Metas,
               payload: Streams(Chunks \cup {BadChunk})]
Keys == Batches \X Layouts
KeyOf(c) == <<c.batch, c.layout>>

\* The manifest names its own location, its metadata and the digest of the
\* bytes that were written, so it determines a candidate.
Manifest(c, bytes) ==
  [batch |-> c.batch, layout |-> c.layout, meta |-> c.meta, payload |-> bytes]
Directory == [payload: Streams(Chunks), manifest: Candidates \cup {None}]

Partial(bytes) == [payload |-> bytes, manifest |-> None]
Complete(c, bytes) == [payload |-> bytes, manifest |-> Manifest(c, bytes)]

ASSUME NoneAssumption == None \notin Candidates /\ None \notin Directory

VARIABLES
  published,   \* location -> the directory published there, or None
  damaged,     \* locations whose published bytes no longer match
  litter,      \* locations with abandoned temporary siblings
  pc,          \* where each call is
  cand,        \* the batch each call was given
  temp,        \* each call's temporary directory, or None
  outcome,     \* what each call is about to return or raise
  offered,     \* HISTORY: batches handed to write()
  answered,    \* HISTORY: <<batch, outcome>> of finished calls
  before,      \* HISTORY: locations already published when each call began
  calls, faults

vars == <<published, damaged, litter, pc, cand, temp, outcome,
          offered, answered, before, calls, faults>>
disk == <<published, damaged, litter>>
local == <<cand, temp, outcome, before>>
hist == <<offered, answered>>
bounds == <<calls, faults>>

Init ==
  /\ published = [k \in Keys |-> None]
  /\ damaged = {}
  /\ litter = {}
  /\ pc = [w \in Writers |-> "idle"]
  /\ cand = [w \in Writers |-> None]
  /\ temp = [w \in Writers |-> None]
  /\ outcome = [w \in Writers |-> "none"]
  /\ offered = {}
  /\ answered = {}
  /\ before = [w \in Writers |-> {}]
  /\ calls = 0
  /\ faults = 0

Goto(w, label) == pc' = [pc EXCEPT ![w] = label]
Conclude(w, result) ==
  /\ Goto(w, "cleanup")
  /\ outcome' = [outcome EXCEPT ![w] = result]
Key(w) == KeyOf(cand[w])
Occupied == {k \in Keys : published[k] # None}

------------------------------------------------------------------------------
\* write(batch): metadata revalidation, sanitisation, extension check.
Begin(w) ==
  /\ pc[w] = "idle"
  /\ calls < MaxCalls
  /\ calls' = calls + 1
  /\ \E c \in Candidates :
       /\ cand' = [cand EXCEPT ![w] = c]
       /\ offered' = offered \cup {c}
       /\ IF c.meta \in SafeMetas
            THEN Goto(w, "scan") /\ UNCHANGED outcome
            ELSE Conclude(w, "rejected")
  /\ before' = [before EXCEPT ![w] = Occupied]
  /\ UNCHANGED <<disk, temp, answered, faults>>

\* MUTANT: the search pattern also matches temporary siblings.
ScanSeesLitter(w) ==
  /\ pc[w] = "scan"
  /\ IF \E l \in Layouts : <<cand[w].batch, l>> \in litter
       THEN Conclude(w, "collision")
       ELSE Goto(w, "mkdtemp") /\ UNCHANGED outcome
  /\ UNCHANGED <<disk, cand, temp, before, hist, bounds>>

\* MUTANT: only the target itself is looked for, not the batch id elsewhere.
ScanTargetOnly(w) ==
  /\ pc[w] = "scan"
  /\ Goto(w, "mkdtemp")
  /\ UNCHANGED <<disk, local, hist, bounds>>

\* The recursive search for the batch id under any other layout.  Published
\* directories never disappear, so the search, though it visits directories
\* one by one, returns what one look at some moment of it would return.
Scan(w) ==
  /\ pc[w] = "scan"
  /\ IF \E l \in Layouts \ {cand[w].layout} : <<cand[w].batch, l>> \in Occupied
       THEN Conclude(w, "collision")
       ELSE Goto(w, "mkdtemp") /\ UNCHANGED outcome
  /\ UNCHANGED <<disk, cand, temp, before, hist, bounds>>

MakeTemp(w) ==
  /\ pc[w] = "mkdtemp"
  /\ temp' = [temp EXCEPT ![w] = Partial(<<>>)]
  /\ Goto(w, "copy")
  /\ UNCHANGED <<disk, cand, outcome, before, hist, bounds>>

\* One turn of the bounded read loop; a bad chunk raises RawStorageError.
CopyChunk(w) ==
  LET done == Len(temp[w].payload)
      chunk == cand[w].payload[done + 1]
  IN /\ pc[w] = "copy"
     /\ done < Len(cand[w].payload)
     /\ IF chunk \in Chunks
          THEN /\ temp' = [temp EXCEPT ![w] = Partial(Append(@.payload, chunk))]
               /\ UNCHANGED <<pc, outcome>>
          ELSE Conclude(w, "error") /\ UNCHANGED temp
     /\ UNCHANGED <<disk, cand, before, hist, bounds>>

\* MUTANT: the manifest is written without draining the payload reader.
WriteManifestEarly(w) ==
  /\ pc[w] = "copy"
  /\ temp' = [temp EXCEPT ![w] = Complete(cand[w], @.payload)]
  /\ Goto(w, "check")
  /\ UNCHANGED <<disk, cand, outcome, before, hist, bounds>>

WriteManifest(w) ==
  /\ pc[w] = "copy"
  /\ Len(temp[w].payload) = Len(cand[w].payload)
  /\ temp' = [temp EXCEPT ![w] = Complete(cand[w], @.payload)]
  /\ Goto(w, "check")
  /\ UNCHANGED <<disk, cand, outcome, before, hist, bounds>>

\* if target.exists()
CheckTarget(w) ==
  /\ pc[w] = "check"
  /\ Goto(w, IF published[Key(w)] = None THEN "rename" ELSE "compare")
  /\ UNCHANGED <<disk, local, hist, bounds>>

\* MUTANT: os.replace semantics, the last writer wins.
RenameOverwrites(w) ==
  /\ pc[w] = "rename"
  /\ published' = [published EXCEPT ![Key(w)] = temp[w]]
  /\ temp' = [temp EXCEPT ![w] = None]
  /\ Conclude(w, "created")
  /\ UNCHANGED <<damaged, litter, cand, before, hist, bounds>>

\* os.rename onto a free name moves the whole directory in one step.
Rename(w) ==
  /\ pc[w] = "rename"
  /\ published[Key(w)] = None
  /\ published' = [published EXCEPT ![Key(w)] = temp[w]]
  /\ temp' = [temp EXCEPT ![w] = None]
  /\ Conclude(w, "created")
  /\ UNCHANGED <<damaged, litter, cand, before, hist, bounds>>

\* MUTANT: a failed rename is retried for as long as the target exists.
RenameSpins(w) ==
  /\ pc[w] = "rename"
  /\ published[Key(w)] # None
  /\ UNCHANGED vars

\* os.rename onto a non-empty directory raises, and the target exists.
RenameBlocked(w) ==
  /\ pc[w] = "rename"
  /\ published[Key(w)] # None
  /\ Goto(w, "compare")
  /\ UNCHANGED <<disk, local, hist, bounds>>

\* MUTANT: an existing target is taken to be the same batch.
CompareExistenceOnly(w) ==
  /\ pc[w] = "compare"
  /\ Conclude(w, "replayed")
  /\ UNCHANGED <<disk, cand, temp, before, hist, bounds>>

\* _existing_artifact: any differing byte of manifest or payload is a collision;
\* bytes damaged beyond reading are reported as one of the two BatchCollisionErrors.
Compare(w) ==
  /\ pc[w] = "compare"
  /\ \/ /\ Key(w) \notin damaged
        /\ Conclude(w, IF published[Key(w)] = temp[w] THEN "replayed" ELSE "collision")
     \/ /\ Key(w) \in damaged
        /\ \E result \in {"collision", "unreadable"} : Conclude(w, result)
  /\ UNCHANGED <<disk, cand, temp, before, hist, bounds>>

\* MUTANT: no finally block, the temporary directory outlives the call.
FinishLeavesTemp(w, result) ==
  /\ answered' = answered \cup {<<cand[w], result>>}
  /\ pc' = [pc EXCEPT ![w] = "idle"]
  /\ cand' = [cand EXCEPT ![w] = None]
  /\ outcome' = [outcome EXCEPT ![w] = "none"]
  /\ before' = [before EXCEPT ![w] = {}]
  /\ UNCHANGED temp

\* The call is over for the caller: what it returned or raised is known.
Finish(w, result) ==
  /\ answered' = answered \cup {<<cand[w], result>>}
  /\ pc' = [pc EXCEPT ![w] = "idle"]
  /\ cand' = [cand EXCEPT ![w] = None]
  /\ temp' = [temp EXCEPT ![w] = None]
  /\ outcome' = [outcome EXCEPT ![w] = "none"]
  /\ before' = [before EXCEPT ![w] = {}]

\* The finally block, then return or raise.
Cleanup(w) ==
  /\ pc[w] = "cleanup"
  /\ Finish(w, outcome[w])
  /\ UNCHANGED <<disk, offered, bounds>>

------------------------------------------------------------------------------
\* An OSError from the search, mkdtemp, the copy, the manifest or the rename.
Fail(w) ==
  /\ faults < MaxFaults
  /\ pc[w] \in {"scan", "mkdtemp", "copy", "rename"}
  /\ pc[w] = "rename" => published[Key(w)] = None
  /\ Conclude(w, "error")
  /\ faults' = faults + 1
  /\ UNCHANGED <<disk, cand, temp, before, hist, calls>>

\* An OSError while reading the occupied target is reported as a collision too.
FailCompare(w) ==
  /\ faults < MaxFaults
  /\ pc[w] = "compare"
  /\ Conclude(w, "unreadable")
  /\ faults' = faults + 1
  /\ UNCHANGED <<disk, cand, temp, before, hist, calls>>

\* rmtree raises inside the finally block and replaces the result.
FailCleanup(w) ==
  /\ faults < MaxFaults
  /\ pc[w] = "cleanup"
  /\ temp[w] # None
  /\ Finish(w, "error")
  /\ litter' = litter \cup {Key(w)}
  /\ faults' = faults + 1
  /\ UNCHANGED <<published, damaged, offered, calls>>

\* The process dies: nothing is answered, nothing is cleaned up.
Kill(w) ==
  /\ faults < MaxFaults
  /\ pc[w] # "idle"
  /\ pc' = [pc EXCEPT ![w] = "idle"]
  /\ cand' = [cand EXCEPT ![w] = None]
  /\ temp' = [temp EXCEPT ![w] = None]
  /\ outcome' = [outcome EXCEPT ![w] = "none"]
  /\ before' = [before EXCEPT ![w] = {}]
  /\ litter' = IF temp[w] = None THEN litter ELSE litter \cup {Key(w)}
  /\ faults' = faults + 1
  /\ UNCHANGED <<published, damaged, hist, calls>>

\* A published file is altered, truncated or removed by something else.
Damage(k) ==
  /\ faults < MaxFaults
  /\ k \in Occupied \ damaged
  /\ damaged' = damaged \cup {k}
  /\ faults' = faults + 1
  /\ UNCHANGED <<published, litter, pc, local, hist, calls>>

------------------------------------------------------------------------------
Progress(w) ==
  \/ Scan(w) \/ MakeTemp(w) \/ CopyChunk(w) \/ WriteManifest(w)
  \/ CheckTarget(w) \/ Rename(w) \/ RenameBlocked(w) \/ Compare(w) \/ Cleanup(w)

Next ==
  \/ \E w \in Writers :
       \/ Begin(w) \/ Progress(w)
       \/ Fail(w) \/ FailCompare(w) \/ FailCleanup(w) \/ Kill(w)
  \/ \E k \in Keys : Damage(k)

\* A call that is running keeps running; callers and faults owe nothing.
Fairness == \A w \in Writers : WF_vars(Progress(w))

Spec == Init /\ [][Next]_vars
FairSpec == Spec /\ Fairness

------------------------------------------------------------------------------
ArtifactOf(c) == Complete(c, c.payload)
Steps == {"idle", "scan", "mkdtemp", "copy", "check", "rename", "compare", "cleanup"}
Results == {"created", "replayed", "collision", "unreadable", "error", "rejected"}
Stored == {"created", "replayed"}

\* Every variable keeps its shape; a call has a temporary directory exactly
\* where write() is inside its try block, and a result only in its finally block.
TypeOK ==
  /\ published \in [Keys -> Directory \cup {None}]
  /\ damaged \subseteq Occupied
  /\ litter \subseteq Keys
  /\ pc \in [Writers -> Steps]
  /\ cand \in [Writers -> Candidates \cup {None}]
  /\ temp \in [Writers -> Directory \cup {None}]
  /\ outcome \in [Writers -> Results \cup {"none"}]
  /\ offered \subseteq Candidates
  /\ answered \subseteq Candidates \X Results
  /\ before \in [Writers -> SUBSET Keys]
  /\ calls \in 0..MaxCalls /\ faults \in 0..MaxFaults
  /\ \A w \in Writers :
       /\ pc[w] = "idle" <=> cand[w] = None
       /\ pc[w] = "cleanup" <=> outcome[w] # "none"
       /\ pc[w] \in {"copy", "check", "rename", "compare"} => temp[w] # None
       /\ pc[w] \in {"idle", "scan", "mkdtemp"} => temp[w] = None

\* All or nothing: whatever the interleaving of calls, kills and file errors, a
\* directory visible under a final name is the whole payload and the manifest of
\* one offered batch that passed every check, under its own location.
PublishedComplete ==
  \A k \in Occupied : \E c \in offered :
    /\ KeyOf(c) = k
    /\ c.meta \in SafeMetas
    /\ c.payload \in Streams(Chunks)
    /\ published[k] = ArtifactOf(c)

\* A caller that was given a RawArtifact, as its creator or as a replay of it, can
\* rely on the store holding exactly its batch from then on.
AcknowledgedStored ==
  \A a \in answered : a[2] \in Stored =>
    KeyOf(a[1]) \in Occupied /\ published[KeyOf(a[1])] = ArtifactOf(a[1])

\* Something on disk that a batch may not be merged with.
Contradicted(c) ==
  \E l \in Layouts : LET k == <<c.batch, l>> IN
    k \in Occupied /\ (k \in damaged \/ published[k] # ArtifactOf(c))

\* A retry is refused only for a reason that is still on disk: other evidence under
\* the batch id, or damage.  Abandoned temporaries and calls that died never block it.
CollisionJustified ==
  \A a \in answered : a[2] = "collision" => Contradicted(a[1])

\* The batch id search only misses what another call publishes while this one runs:
\* a second location for a batch is never created by a call that began after the
\* first location was published.
SplitNeedsOverlap ==
  [][\A w \in Writers : Rename(w) =>
       \A l \in Layouts \ {cand[w].layout} : <<cand[w].batch, l>> \notin before[w]]_vars

\* Every call of write() that is not killed returns or raises, also when another
\* writer takes the target between the exists() test and the rename.
CallsEnd == \A w \in Writers : pc[w] # "idle" ~> pc[w] = "idle"

\* The store keeps the promise of the write-once map: evidence at a location is the
\* directory's bytes under the identity its manifest states.
Evidence == INSTANCE EvidenceStore WITH
  Offers <- Candidates,
  evidence <- [k \in Keys |->
    IF published[k] = None THEN None
    ELSE Manifest(published[k].manifest, published[k].payload)],
  confirmed <- {a[1] : a \in {b \in answered : b[2] \in Stored}}

\* Publication, acknowledgement and every other step is a step of the write-once map
\* or leaves it alone: no published byte is ever rewritten or withdrawn by the code.
ImplementsEvidenceStore == Evidence!Spec
===============================================================================
