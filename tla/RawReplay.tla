------------------------------- MODULE RawReplay -------------------------------
(***************************************************************************)
(* replay_raw_artifact and _IntegrityCheckedFilePayload                    *)
(* (data/storage/raw.py): from a RawArtifact back to bytes a normaliser    *)
(* may parse.  The payload file is read twice, once to check it and once   *)
(* per open to snapshot it, while something else may edit, truncate or     *)
(* remove the files between any two reads.                                 *)
(*                                                                         *)
(* SHA-256 is taken to be injective: a digest IS the content.              *)
(***************************************************************************)
EXTENDS Naturals, Sequences

CONSTANTS
  Batches,     \* batch ids
  Metas,       \* the other manifest fields
  SafeMetas,   \* those RawBatchMetadata accepts
  Chunks,      \* what one bounded read returns
  MaxChunks,   \* BOUND: chunks in a file
  MaxOpens,    \* BOUND: calls of open_binary()
  MaxFaults,   \* BOUND: edits of the files and failing reads together
  None         \* absent

Contents == UNION {[1..n -> Chunks] : n \in 0..MaxChunks}
Manifests == [batch: Batches, meta: Metas, payload: Contents]
Handles == [batch: Batches, payload: Contents, paths: BOOLEAN]

ASSUME ConstantsAssumption ==
  /\ SafeMetas \subseteq Metas
  /\ MaxChunks \in Nat /\ MaxOpens \in Nat /\ MaxFaults \in Nat
  /\ None \notin Manifests /\ None \notin Metas

VARIABLES
  manifest,    \* the manifest on disk; None: missing or not a JSON object
  bytes,       \* the payload file's content
  present,     \* the payload file can be opened
  pc,
  handle,      \* the RawArtifact the caller presents
  meta,        \* metadata of the RawBatch that was returned, None before
  got,         \* bytes the current pass has digested, and copied
  parsed,      \* bytes the normaliser has read from the current reader
  refused,     \* which of the replay and the latest open raised RawStorageError
  written,     \* HISTORY: the artifact as the store published it
  opens, faults

vars == <<manifest, bytes, present, pc, handle, meta, got, parsed, refused, written,
          opens, faults>>
disk == <<manifest, bytes, present>>
rest == <<handle, written, opens, faults>>

\* A published artifact, and a handle that is the one write() returned or another.
Init ==
  /\ written \in [batch: Batches, meta: SafeMetas, payload: Contents]
  /\ manifest = written
  /\ bytes = written.payload
  /\ present = TRUE
  /\ handle \in Handles
  /\ pc = "manifest"
  /\ meta = None
  /\ got = <<>>
  /\ parsed = <<>>
  /\ refused = {}
  /\ opens = 0
  /\ faults = 0

Refuse(place, next) == pc' = next /\ refused' = refused \cup {place}

\* MUTANT: a size of zero is taken for a missing one.
AgreesIfNonEmpty(m) ==
  /\ handle.paths
  /\ m # None
  /\ m.payload = handle.payload /\ m.payload # <<>>
  /\ m.meta \in SafeMetas
  /\ m.batch = handle.batch

Agrees(m) ==
  /\ handle.paths
  /\ m # None
  /\ m.payload = handle.payload
  /\ m.meta \in SafeMetas
  /\ m.batch = handle.batch

\* The handle's paths, the manifest, and whether they describe the same artifact.  The
\* payload is opened right after the manifest is read; one missing by then is refused
\* too, as if it had been missing before.
ReadManifest ==
  /\ pc = "manifest"
  /\ IF Agrees(manifest) /\ present
       THEN /\ meta' = manifest.meta
            /\ pc' = "digest"
            /\ UNCHANGED refused
       ELSE Refuse("replay", "over") /\ UNCHANGED meta
  /\ UNCHANGED <<disk, got, parsed, rest>>

\* One bounded read, of _file_integrity or of the snapshot loop.
ReadChunk ==
  /\ pc \in {"digest", "snapshot"}
  /\ Len(got) < Len(bytes)
  /\ got' = Append(got, bytes[Len(got) + 1])
  /\ UNCHANGED <<disk, pc, meta, parsed, refused, rest>>

\* MUTANT: a pass waits for the size the handle states.
SizeReached == Len(got) >= Len(handle.payload)

EndOfFile == Len(got) >= Len(bytes)

\* MUTANT: the snapshot loop starts from the digest pass's count.
EndDigestKeepsCount ==
  /\ pc = "digest"
  /\ EndOfFile
  /\ IF got = handle.payload
       THEN pc' = "replayed" /\ UNCHANGED refused
       ELSE Refuse("replay", "over")
  /\ UNCHANGED <<disk, meta, got, parsed, rest>>

\* actual_sha256 != artifact.sha256 or actual_size != artifact.size_bytes
EndDigest ==
  /\ pc = "digest"
  /\ EndOfFile
  /\ IF got = handle.payload
       THEN pc' = "replayed" /\ UNCHANGED refused
       ELSE Refuse("replay", "over")
  /\ got' = <<>>
  /\ UNCHANGED <<disk, meta, parsed, rest>>

\* RawBatch.payload.open_binary(): a snapshot of the file is taken first.
Open ==
  /\ pc = "replayed"
  /\ opens < MaxOpens
  /\ opens' = opens + 1
  /\ IF present
       THEN pc' = "snapshot" /\ refused' = refused \ {"open"}
       ELSE Refuse("open", "replayed")
  /\ parsed' = <<>>
  /\ UNCHANGED <<disk, meta, got, handle, written, faults>>

\* MUTANT: a pass over an edited file ends without an error.
SwallowMismatch ==
  /\ pc = "snapshot"
  /\ EndOfFile
  /\ pc' = IF got = handle.payload THEN "reading" ELSE "replayed"
  /\ got' = IF got = handle.payload THEN got ELSE <<>>
  /\ UNCHANGED <<disk, meta, parsed, refused, rest>>

EndSnapshot ==
  /\ pc = "snapshot"
  /\ EndOfFile
  /\ IF got = handle.payload
       THEN pc' = "reading" /\ UNCHANGED <<refused, got>>
       ELSE Refuse("open", "replayed") /\ got' = <<>>
  /\ UNCHANGED <<disk, meta, parsed, rest>>

\* MUTANT: the normaliser is given the file itself.
ParseFile ==
  /\ pc = "reading"
  /\ Len(parsed) < Len(bytes)
  /\ parsed' = Append(parsed, bytes[Len(parsed) + 1])
  /\ UNCHANGED <<disk, pc, meta, got, refused, rest>>

\* The normaliser reads from the snapshot.
Parse ==
  /\ pc = "reading"
  /\ Len(parsed) < Len(got)
  /\ parsed' = Append(parsed, got[Len(parsed) + 1])
  /\ UNCHANGED <<disk, pc, meta, got, refused, rest>>

Close ==
  /\ pc = "reading"
  /\ parsed = got
  /\ pc' = "replayed"
  /\ got' = <<>>
  /\ UNCHANGED <<disk, meta, parsed, refused, rest>>

------------------------------------------------------------------------------
\* The files are edited in place, truncated or removed, at any time.
Tamper ==
  /\ \/ /\ manifest' \in Manifests \cup {None}
        /\ manifest' # manifest
        /\ UNCHANGED <<bytes, present>>
     \/ /\ bytes' \in Contents \ {bytes}
        /\ UNCHANGED <<manifest, present>>
     \/ /\ present /\ present' = FALSE
        /\ UNCHANGED <<manifest, bytes>>
  /\ UNCHANGED <<pc, meta, got, parsed, refused>>

\* An OSError from a read becomes a RawStorageError.
FailRead ==
  /\ \/ pc \in {"manifest", "digest"} /\ Refuse("replay", "over")
     \/ pc = "snapshot" /\ Refuse("open", "replayed")
  /\ got' = <<>>
  /\ UNCHANGED <<disk, meta, parsed>>

Fault ==
  /\ faults < MaxFaults
  /\ faults' = faults + 1
  /\ Tamper \/ FailRead
  /\ UNCHANGED <<handle, written, opens>>

Progress ==
  ReadManifest \/ ReadChunk \/ EndDigest \/ EndSnapshot \/ Parse \/ Close

Next == Progress \/ Open \/ Fault

Spec == Init /\ [][Next]_vars
FairSpec == Spec /\ WF_vars(Progress)

------------------------------------------------------------------------------
\* Every variable keeps its shape; a RawBatch has the metadata of a manifest that
\* passed, and a reader exists only where the pass that fills it has ended.
TypeOK ==
  /\ manifest \in Manifests \cup {None} /\ bytes \in Contents /\ present \in BOOLEAN
  /\ pc \in {"manifest", "digest", "replayed", "snapshot", "reading", "over"}
  /\ handle \in Handles /\ meta \in SafeMetas \cup {None}
  /\ got \in Contents /\ parsed \in Contents
  /\ refused \subseteq {"replay", "open"}
  /\ written \in Manifests
  /\ opens \in 0..MaxOpens /\ faults \in 0..MaxFaults
  /\ pc \in {"digest", "replayed", "snapshot", "reading"} => meta # None
  /\ pc \in {"manifest", "replayed", "over"} => got = <<>>

\* What a normaliser has parsed, at any moment and however the file is edited
\* meanwhile, is a beginning of the bytes the handle's checksum names, and all of
\* them when it is done.
DeliveredIsEvidence ==
  LET n == Len(parsed)
  IN /\ n <= Len(handle.payload)
     /\ \A i \in 1..n : parsed[i] = handle.payload[i]
     /\ pc = "reading" /\ n = Len(got) => parsed = handle.payload

\* With no edit and no failing read, the handle write() returned is never refused.
RefusalJustified ==
  faults = 0 /\ handle.paths /\ handle.batch = written.batch
    /\ handle.payload = written.payload => refused = {}

\* An open that did not raise gave the normaliser the whole payload: a file edited
\* since the replay is never passed over in silence.
NothingSwallowed ==
  pc = "replayed" /\ opens > 0 /\ "open" \notin refused => parsed = handle.payload

\* A replay, and a read of a replayed batch, ends, also while the file is edited.
ReplayEnds == pc \notin {"replayed", "over"} ~> pc \in {"replayed", "over"}
===============================================================================
